---------------------------- MODULE MCIndexRing ----------------------------
EXTENDS IndexRing, TLC

CONSTANTS k1, k2, c0, c1

MCHash == (k1 :> 0) @@ (k2 :> 1)
=============================================================================
