---------------------------- MODULE Switchboard ----------------------------
(***************************************************************************)
(* What the relay server promises: connections wait for a partner with the *)
(* same session uuid, two that wait for the same uuid may be joined, and   *)
(* joined connections stay each other's only partner until both are let go *)
(* together.                                                               *)
(***************************************************************************)
CONSTANTS Conns, Uuids, None

VARIABLES
    waiting,  \* [Conns -> the uuid a connection waits with, or None]
    link      \* [Conns -> the partner it is joined with, or None]

Init ==
    /\ waiting = [c \in Conns |-> None]
    /\ link = [c \in Conns |-> None]

Arrive(c, u) ==
    /\ waiting[c] = None
    /\ link[c] = None
    /\ waiting' = [waiting EXCEPT ![c] = u]
    /\ UNCHANGED link

Leave(c) ==
    /\ waiting[c] # None
    /\ waiting' = [waiting EXCEPT ![c] = None]
    /\ UNCHANGED link

Join(c, d) ==
    /\ c # d
    /\ waiting[c] # None
    /\ waiting[c] = waiting[d]
    /\ waiting' = [waiting EXCEPT ![c] = None, ![d] = None]
    /\ link' = [link EXCEPT ![c] = d, ![d] = c]

Part(c) ==
    /\ link[c] # None
    /\ link' = [link EXCEPT ![c] = None, ![link[c]] = None]
    /\ UNCHANGED waiting

Next ==
    \E c \in Conns :
        \/ \E u \in Uuids : Arrive(c, u)
        \/ Leave(c)
        \/ \E d \in Conns : Join(c, d)
        \/ Part(c)

Spec == Init /\ [][Next]_<<waiting, link>>
=============================================================================
