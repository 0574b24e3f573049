--------------------------- MODULE MCManifestBucket ---------------------------
(* Small instances of ManifestBucket. *)
EXTENDS ManifestBucket

\* Transactions are interchangeable.
TxSymmetry == Permutations(Txs)
=============================================================================
