----------------------------- MODULE MCRestore -----------------------------
(* Restore on two shards and one transaction, begun before the coordinators *)
(* were inventoried or after.                                               *)
EXTENDS Restore, TLC

CONSTANTS t1
=============================================================================
