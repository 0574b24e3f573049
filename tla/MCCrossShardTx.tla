--------------------------- MODULE MCCrossShardTx ---------------------------
(* Small instances of CrossShardTx: shards and fibers are interchangeable. *)
EXTENDS CrossShardTxProps, TLC

Symmetry == Permutations(Shards) \cup Permutations(Fibers)
=============================================================================
