---------------------------- MODULE TxParticipant ----------------------------
(***************************************************************************)
(* The participant side of a cross-shard transaction: what the ShardDOs    *)
(* of one transaction keep about it and how /prepare, /commit, /abort and  *)
(* the alarm's sweep of stale intents change it (src/shard.ts).            *)
(*                                                                         *)
(* Handlers on the barrier paths and the alarm's sweep hold the shard's    *)
(* mutation barrier from entry to exit, so each handler is one action.     *)
(* The sweep reads the coordinator's decision over the network while it    *)
(* holds the barrier, so it is two actions, and a shard whose sweep is in  *)
(* progress runs no handler.  Every message carries the epoch and the      *)
(* operation hash of the one durable transaction, so the epoch and hash    *)
(* comparisons succeed and are not represented.                            *)
(*                                                                         *)
(* Spec puts the participant in the worst environment: any request may     *)
(* arrive at any time, any number of times, and a sweep may be given any   *)
(* answer.  CrossShardTx replaces that environment by the coordinator.     *)
(***************************************************************************)
EXTENDS Naturals

CONSTANT Shards

VARIABLES
  intents,   \* pending_intents: "none", "prepared" or "committed"
  tombstone, \* participant_decision_tombstones: "none", "commit", "abort"
  locked,    \* does the transaction hold its row locks on the shard
  applied,   \* how many times the intents were applied to the tables
  sweep      \* the decision the alarm's sweep is acting on, else "idle"

participantVars == <<intents, tombstone, locked, applied, sweep>>

ParticipantTypeOK ==
  /\ intents \in [Shards -> {"none", "prepared", "committed"}]
  /\ tombstone \in [Shards -> {"none", "commit", "abort"}]
  /\ locked \in [Shards -> BOOLEAN]
  /\ applied \in [Shards -> Nat]
  /\ sweep \in [Shards -> {"idle", "committed", "aborted"}]

ParticipantInit ==
  /\ intents = [s \in Shards |-> "none"]
  /\ tombstone = [s \in Shards |-> "none"]
  /\ locked = [s \in Shards |-> FALSE]
  /\ applied = [s \in Shards |-> 0]
  /\ sweep = [s \in Shards |-> "idle"]

\* acquireMutationBarrier: no handler starts while the sweep holds it.
BarrierFree(s) == sweep[s] = "idle"

\* assertMessageCompatible: refused when the durable decision is another one.
MayDecide(s, decision) == tombstone[s] \in {"none", decision}

PersistTombstone(s, decision) ==
  tombstone' = [tombstone EXCEPT ![s] = decision]

\* applyCommittedIntents: apply, mark committed and release the locks in one
\* transaction.
ApplyCommittedIntents(s) ==
  /\ applied' = [applied EXCEPT ![s] = @ + 1]
  /\ intents' = [intents EXCEPT ![s] = "committed"]
  /\ locked' = [locked EXCEPT ![s] = FALSE]

\* The abort branches: delete the intents and the locks in one transaction.
DiscardIntents(s) ==
  /\ intents' = [intents EXCEPT ![s] = "none"]
  /\ locked' = [locked EXCEPT ![s] = FALSE]
  /\ UNCHANGED applied

-----------------------------------------------------------------------------
\* Mutant: a late prepare does not look for the decision.
HandlePrepare_Late(s) ==
  /\ BarrierFree(s)
  /\ intents' = [intents EXCEPT ![s] = "prepared"]
  /\ locked' = [locked EXCEPT ![s] = TRUE]
  /\ UNCHANGED <<tombstone, applied, sweep>>

\* handlePrepare, accepted: intents and locks are recorded atomically; a
\* replay finds them and changes nothing.  A durable decision refuses it.
\* A refusal (lock conflict, write fence, guard mismatch) changes nothing.
HandlePrepare(s) ==
  /\ BarrierFree(s)
  /\ tombstone[s] = "none"
  /\ intents' = [intents EXCEPT ![s] = "prepared"]
  /\ locked' = [locked EXCEPT ![s] = TRUE]
  /\ UNCHANGED <<tombstone, applied, sweep>>

\* handleCommit, acknowledged.  Without intents only a commit tombstone
\* makes it a success; committed intents are an idempotent replay.
HandleCommit(s) ==
  /\ BarrierFree(s)
  /\ MayDecide(s, "commit")
  /\ \/ /\ intents[s] = "none"
        /\ tombstone[s] = "commit"
        /\ UNCHANGED participantVars
     \/ /\ intents[s] = "committed"
        /\ PersistTombstone(s, "commit")
        /\ UNCHANGED <<intents, locked, applied, sweep>>
     \/ /\ intents[s] = "prepared"
        /\ PersistTombstone(s, "commit")
        /\ ApplyCommittedIntents(s)
        /\ UNCHANGED sweep

\* handleCommit, failed: the tombstone is durable in a transaction of its
\* own, then applyCommittedIntents throws and its transaction rolls back.
HandleCommitApplyThrows(s) ==
  /\ BarrierFree(s)
  /\ MayDecide(s, "commit")
  /\ intents[s] = "prepared"
  /\ PersistTombstone(s, "commit")
  /\ UNCHANGED <<intents, locked, applied, sweep>>

\* handleAbort, acknowledged.  A transaction the shard never prepared gets
\* its abort tombstone too: it is what refuses a late prepare.
HandleAbort(s) ==
  /\ BarrierFree(s)
  /\ MayDecide(s, "abort")
  /\ intents[s] # "committed"
  /\ PersistTombstone(s, "abort")
  /\ DiscardIntents(s)
  /\ UNCHANGED sweep

\* sweepStalePendingIntents finds a prepared intent older than its TTL, asks
\* the coordinator, and keeps the barrier while it acts on a terminal answer.
SweepAsk(s, answer) ==
  /\ BarrierFree(s)
  /\ intents[s] = "prepared"
  /\ sweep' = [sweep EXCEPT ![s] = answer]
  /\ UNCHANGED <<intents, tombstone, locked, applied>>

\* The sweep on "committed": it applies whatever intents it finds, without
\* looking at their status again.
SweepCommit(s) ==
  /\ sweep[s] = "committed"
  /\ MayDecide(s, "commit")
  /\ PersistTombstone(s, "commit")
  /\ ApplyCommittedIntents(s)
  /\ sweep' = [sweep EXCEPT ![s] = "idle"]

SweepAbort(s) ==
  /\ sweep[s] = "aborted"
  /\ MayDecide(s, "abort")
  /\ PersistTombstone(s, "abort")
  /\ DiscardIntents(s)
  /\ sweep' = [sweep EXCEPT ![s] = "idle"]

\* The sweep gives up on this transaction until the next alarm: the shard
\* restarted, persistTombstone refused the decision, or the apply threw
\* after its tombstone was persisted.
SweepFails(s) ==
  /\ sweep[s] # "idle"
  /\ sweep' = [sweep EXCEPT ![s] = "idle"]
  /\ \/ UNCHANGED tombstone
     \/ /\ sweep[s] = "committed"
        /\ MayDecide(s, "commit")
        /\ PersistTombstone(s, "commit")
  /\ UNCHANGED <<intents, locked, applied>>

-----------------------------------------------------------------------------
ParticipantNext ==
  \E s \in Shards :
    \/ HandlePrepare(s)
    \/ HandleCommit(s)
    \/ HandleCommitApplyThrows(s)
    \/ HandleAbort(s)
    \/ \E answer \in {"committed", "aborted"} : SweepAsk(s, answer)
    \/ SweepCommit(s)
    \/ SweepAbort(s)
    \/ SweepFails(s)

ParticipantSpec == ParticipantInit /\ [][ParticipantNext]_participantVars

-----------------------------------------------------------------------------
\* A participant applies a transaction at most once, and exactly when its
\* intents are marked committed: /commit replays, a sweep racing a /commit
\* and a failed first apply all converge on one application.
AppliedAtMostOnce ==
  \A s \in Shards : applied[s] = IF intents[s] = "committed" THEN 1 ELSE 0

\* Row locks are held exactly while an undelivered prepare is outstanding: a
\* late or repeated /prepare after a decision recreates neither intents nor
\* locks, and no decision leaves a lock behind without its intent.
LocksFollowIntents ==
  \A s \in Shards :
    /\ locked[s] <=> intents[s] = "prepared"
    /\ tombstone[s] = "abort" => intents[s] = "none"
    /\ intents[s] = "committed" => tombstone[s] = "commit"

\* A durable decision tombstone is final: no later message or sweep answer
\* replaces it.
TombstoneIsFinal ==
  [][\A s \in Shards :
       tombstone[s] # "none" => tombstone'[s] = tombstone[s]]_participantVars
=============================================================================
