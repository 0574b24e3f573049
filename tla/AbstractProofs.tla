--------------------------- MODULE AbstractProofs ---------------------------
(***************************************************************************)
(* Proofs about the two abstract specifications on their own: what an      *)
(* atomic transaction promises, and that a published seal stays complete.  *)
(* With the refinements of CrossShardTxProofs, ManifestBucketProofs and    *)
(* FleetCatalogProofs they hold of the protocols too.                      *)
(***************************************************************************)
EXTENDS AtomicCommit, SealedLog, TLAPS

-----------------------------------------------------------------------------
\* The inductive invariant: every shard follows the verdict, and so does
\* what the client was told.
Inv ==
  /\ TypeOK
  /\ \A s \in Shards :
       /\ part[s] = "committed" => verdict = "commit"
       /\ part[s] = "aborted" => verdict = "abort"
  /\ told = "aborted" => verdict = "abort"
  /\ ToldTruth

\* The specification keeps its inductive invariant.
THEOREM Invariance == Spec => []Inv
<1>1. Init => Inv
  BY DEF Init, Inv, TypeOK, ToldTruth
<1>2. Inv /\ [Next]_vars => Inv'
  <2> SUFFICES ASSUME Inv, [Next]_vars PROVE Inv'
    OBVIOUS
  <2> USE DEF Inv, TypeOK, ToldTruth
  <2>1. CASE UNCHANGED vars
    BY <2>1 DEF vars
  <2>2. ASSUME NEW s \in Shards, Prepare(s) PROVE Inv'
    BY <2>2 DEF Prepare
  <2>3. ASSUME NEW s \in Shards, Commit(s) PROVE Inv'
    BY <2>3 DEF Commit
  <2>4. ASSUME NEW s \in Shards, Abort(s) PROVE Inv'
    BY <2>4 DEF Abort
  <2>5. CASE DecideCommit
    BY <2>5 DEF DecideCommit
  <2>6. CASE DecideAbort
    BY <2>6 DEF DecideAbort
  <2>7. CASE Reject
    BY <2>7 DEF Reject
  <2>8. CASE TellCommitted
    BY <2>8 DEF TellCommitted
  <2>9. CASE TellAborted
    BY <2>9 DEF TellAborted
  <2> QED
    BY <2>1, <2>2, <2>3, <2>4, <2>5, <2>6, <2>7, <2>8, <2>9 DEF Next
<1> QED
  BY <1>1, <1>2, PTL DEF Spec

\* The abstract transaction is atomic and never lies to its client.
THEOREM Promise == Spec => [](Consistent /\ ToldTruth)
<1>1. Inv => Consistent /\ ToldTruth
  BY DEF Inv, Consistent
<1> QED
  BY <1>1, Invariance, PTL

-----------------------------------------------------------------------------
\* The promise, for any log: what closeThrough published (journal-manifest.ts:
\* 1332) and closeFleetThrough rooted stays the whole history up to its cutoff.
THEOREM SealedForEver == LogSpec => []SealsAreComplete
<1>1. LogInit => Timed /\ SealsAreComplete
  BY DEF LogInit, Timed, SealsAreComplete
<1>2. Timed /\ SealsAreComplete /\ [LogNext]_logVars => Timed' /\ SealsAreComplete'
  <2> SUFFICES ASSUME Timed, SealsAreComplete, [LogNext]_logVars
               PROVE  Timed' /\ SealsAreComplete'
    OBVIOUS
  <2>1. ASSUME NEW e \in log' \ log, Decide(e)
        PROVE  Timed' /\ SealsAreComplete'
    <3>1. Timed'
      BY <2>1 DEF Decide, Timed
    <3>2. ASSUME NEW s \in seals, NEW d \in log', d.at <= s.cutoff
          PROVE  d \in s.members
      <4>1. d # e
        BY <2>1, <3>2 DEF Decide, Timed
      <4>2. QED
        BY <2>1, <3>2, <4>1 DEF Decide, SealsAreComplete, UpTo
    <3>3. QED
      BY <2>1, <3>1, <3>2 DEF Decide, SealsAreComplete, UpTo
  <2>2. ASSUME NEW s \in seals' \ seals, Seal(s.cutoff)
        PROVE  Timed' /\ SealsAreComplete'
    BY <2>2 DEF Seal, Timed, SealsAreComplete, UpTo
  <2>3. CASE Expire
    BY <2>3 DEF Expire, Timed, SealsAreComplete, UpTo
  <2>4. CASE UNCHANGED logVars
    BY <2>4 DEF logVars, Timed, SealsAreComplete, UpTo
  <2>5. QED
    BY <2>1, <2>2, <2>3, <2>4 DEF LogNext
<1>3. QED
  BY <1>1, <1>2, PTL DEF LogSpec
=============================================================================
