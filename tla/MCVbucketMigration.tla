------------------------- MODULE MCVbucketMigration -------------------------
(* Instances of VbucketMigration: what the client requests do. *)
EXTENDS VbucketMigration

CONSTANT New     \* what the client's request writes

\* A client insert and a transaction's update, of one row.  The update writes
\* what a seeded row holds already.
Mixed ==
    [w \in Writes |->
       [row |-> 1,
        kind |-> IF w = 1 THEN "insert" ELSE "update",
        value |-> IF w = 1 THEN New ELSE Seeded,
        path |-> IF w = 1 THEN "execute" ELSE "tx"]]

\* The same with two updates.
Updates == [w \in Writes |-> [Mixed[w] EXCEPT !.kind = "update"]]

=============================================================================
