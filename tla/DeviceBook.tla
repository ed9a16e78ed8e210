----------------------------- MODULE DeviceBook -----------------------------
(***************************************************************************)
(* What hbbs promises about device ids: the first device to register an id *)
(* owns it for good, and the key kept for the id is one of its owner's     *)
(* keys.  The ids are registered and looked up through the machinery of    *)
(* PeerRegistry; here there is only the book.                              *)
(***************************************************************************)
CONSTANTS Ids, Uuids, Keys, KeysOf, None

VARIABLES owner, key

book == <<owner, key>>

Init ==
    /\ owner = [i \in Ids |-> None]
    /\ key = [i \in Ids |-> None]

\* Device u registers the free id i with its key k.
Claim(i, u, k) ==
    /\ owner[i] = None
    /\ k \in KeysOf[u]
    /\ owner' = [owner EXCEPT ![i] = u]
    /\ key' = [key EXCEPT ![i] = k]

\* The owner of i replaces its key.
Rekey(i, k) ==
    /\ owner[i] # None
    /\ k \in KeysOf[owner[i]]
    /\ key' = [key EXCEPT ![i] = k]
    /\ UNCHANGED owner

Next == \E i \in Ids, k \in Keys : Rekey(i, k) \/ \E u \in Uuids : Claim(i, u, k)

Spec == Init /\ [][Next]_book
=============================================================================
