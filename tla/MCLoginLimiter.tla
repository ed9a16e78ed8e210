--------------------------- MODULE MCLoginLimiter ---------------------------
\* Instances of LoginLimiter for TLC.
EXTENDS LoginLimiter

CONSTANTS t1, t2, t3, i1, k1

MCMinusOne == -1
=============================================================================
