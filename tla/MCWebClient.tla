----------------------------- MODULE MCWebClient -----------------------------
(* The instance of WebClient that TLC checks: two remote pages one after the *)
(* other and three sessions.  The second session, which can be on either     *)
(* page, first or after a retry, meets every kind of message as long as it   *)
(* does not share its connection; the others only find a relay, and the      *)
(* first gets as far as the password before its page closes.                 *)
EXTENDS WebClient

MCSends(s, r) ==
  CASE s = 2 /\ r.alone      -> IdAnswers \cup PeerMessages
    [] s = 1 /\ r.cut = "no" -> {"relay", "hash"}
    [] OTHER                 -> {"relay"}
=============================================================================
