--------------------------- MODULE MCPeerRegistry ---------------------------
(* Model values for PeerRegistry: two devices, the first with two keys.     *)
EXTENDS PeerRegistry, TLC

CONSTANTS u1, u2, k1, k2, k3, a1, lo

TwoKeysEach == (u1 :> {k1, k2}) @@ (u2 :> {k3})
OneKeyEach == (u1 :> {k1}) @@ (u2 :> {k3})

\* Objects and row keys are interchangeable, and so are the ids.
Symmetric == Permutations(Refs) \cup Permutations(Guids) \cup Permutations(Ids)
=============================================================================
