--------------------------- MODULE CrossShardTxProps ---------------------------
(***************************************************************************)
(* What a cross-shard transaction promises (see CrossShardTx).             *)
(***************************************************************************)
EXTENDS CrossShardTx

-----------------------------------------------------------------------------
(* Safety: relations between the three parties' durable states.            *)

\* All or nothing: if one participant committed (applied its intents, or
\* recorded that it must), no participant ever records an abort.  Hazard:
\* a late /prepare, /commit or /abort, a force-abort racing the commit
\* decision, a sweep acting on a stale answer.
AtomicOutcome ==
  \A s1, s2 \in Shards :
    tombstone[s1] = "commit" => tombstone[s2] # "abort"

\* A participant commits only under the protocol's authority: the manifest
\* row is FINALIZED, the immutable finalize request is stored, and every
\* other participant still holds its prepared intents or has applied them.
CommitIsAuthorized ==
  (\E s \in Shards : tombstone[s] = "commit" \/ sweep[s] = "committed")
    => /\ mrow = "FINALIZED"
       /\ finReq
       /\ \A s \in Shards : intents[s] \in {"prepared", "committed"}

\* The coordinator authorizes at most one terminal transition, and the
\* manifest takes only the authorized one.
OneAuthorization ==
  /\ ~(finReq /\ canReq)
  /\ mrow = "FINALIZED" => finReq
  /\ mrow = "CANCELLED" => canReq

\* What the coordinator has recorded is so.  An aborted transaction left
\* nothing: no participant holds a lock or an intent, and no reservation stays
\* open that would keep its bucket from closing.  A committed transaction is
\* applied exactly once on every participant, and a recorded acknowledgement
\* is never wrong.  Hazard: a lost or late answer taken for the other one.
RecordsAreTrue ==
  /\ st = "aborted" =>
       /\ \A s \in Shards : ~locked[s] /\ intents[s] = "none"
       /\ mrow \in {"REFUSED", "CANCELLED"}
  /\ \A s \in Shards : st = "committed" \/ phase[s] = "committed"
       => applied[s] = 1 /\ ~locked[s]

\* Retries, late answers and force-aborts alone never quarantine a
\* transaction or park its cancellation: only conflicting evidence does.
NoSpuriousQuarantine == st = "quarantined" \/ parked => mq # "NONE"

\* A decided transaction always has its forward-work item, whichever fiber
\* wrote the queue last; only a cancellation can be parked without one.
DecidedWorkIsQueued ==
  st \in {"abort_decided", "aborting", "commit_deciding",
          "commit_pending_manifest", "manifest_registered", "committing",
          "committed_pending_ack"}
    => queue # "none"

-----------------------------------------------------------------------------
(* An action property: what no step does.                                  *)

\* Every step of the row is one the contract's table allows; transition()
\* never throws on it.
LegalSteps == [][IsTransitionAllowed(st, st')]_vars

-----------------------------------------------------------------------------
(* Refinement of AtomicCommit.  The verdict is the immutable terminal      *)
(* request: it survives a quarantine, which overwrites the decision.       *)

Verdict ==
  IF finReq THEN "commit"
  ELSE IF canReq \/ st = "aborted" THEN "abort" ELSE "undecided"

Parts ==
  [s \in Shards |->
     IF intents[s] = "committed" THEN "committed"
     ELSE IF tombstone[s] = "abort" THEN "aborted"
     ELSE IF intents[s] = "prepared" THEN "prepared" ELSE "working"]

ClientTold == IF st \in {"committed", "aborted"} THEN st ELSE "nothing"

AC == INSTANCE AtomicCommit WITH
  verdict <- Verdict, part <- Parts, told <- ClientTold

\* The protocol implements an atomic commitment: every interleaving of
\* requests, alarms, sweeps, late messages and restarts maps to its steps.
ImplementsAtomicCommit == AC!Spec

-----------------------------------------------------------------------------
(* Liveness, once the failures stop.                                       *)

Settled ==
  st \in {"committed", "aborted", "quarantined"} \/ parked

\* Forward work that is queued and armed is carried through, by the alarm
\* alone: no client has to come back.
ArmedWorkConverges ==
  FaultsStop =>
    (decision \in {"commit", "abort"} /\ queue # "none" /\ armed) ~> Settled

\* Once participants may be told to commit, no row stays locked, even if the
\* coordinator never runs again: the sweep of the shard is enough.
LocksReleased ==
  FaultsStop =>
    (st \in CommitAuthorized) ~> (\A s \in Shards : ~locked[s])

=============================================================================
