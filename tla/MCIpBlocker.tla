---------------------------- MODULE MCIpBlocker ----------------------------
(* Instances of IpBlocker for TLC. *)
EXTENDS IpBlocker
=============================================================================
