----------------------------- MODULE MCTableScan -----------------------------
EXTENDS TableScan

\* Two tenants hash the last key to its shard.
MCCandidates == [k \in 1 .. NKeys |-> IF k = NKeys THEN 2 ELSE 1]
=============================================================================
