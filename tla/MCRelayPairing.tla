--------------------------- MODULE MCRelayPairing ---------------------------
(* Instances of RelayPairing for TLC. *)
EXTENDS RelayPairing, TLC

CONSTANTS c1, c2, c3, c4, u1, u2, ip1, ip2, mapped1, a1, a2, a3

\* mapped1 is ip1 as the dual-stack listener shows it.
MCV4 == [i \in Ips |-> IF i = mapped1 THEN ip1 ELSE i]

\* c1 connects over IPv6, the others and the proxy before c3 over IPv4.
MCAddrOf == [c \in Conns |-> IF c = c1 THEN ip2 ELSE mapped1]

OneAddr == [c \in Conns |-> ip1]

\* The proxy of c3 names ip1 as the client; c4 has none.
MCRealIp == [c \in WsConns |-> IF c = c3 THEN ip1 ELSE None]

\* c3 and c4 come through a proxy that gives them one usage id.
MCUsageOf == [c \in Conns |-> CASE c = c1 -> a1 [] c = c2 -> a2 [] OTHER -> a3]
=============================================================================
