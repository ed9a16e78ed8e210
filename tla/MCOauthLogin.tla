---------------------------- MODULE MCOauthLogin -----------------------------
(* The instance of OauthLogin that TLC checks; the bounds are in the .cfg.   *)
EXTENDS OauthLogin
=============================================================================
