----------------------------- MODULE MCTcpPunch -----------------------------
\* An instance of TcpPunch for TLC.
EXTENDS TcpPunch

CONSTANTS c1, c2, a1, a2, s1
=============================================================================
