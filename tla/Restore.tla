------------------------------ MODULE Restore ------------------------------
(***************************************************************************)
(* Point-in-time restore of the fleet: RestoreCoordinatorDO                 *)
(* (src/restore.ts) with the handlers it calls on shards, coordinators and  *)
(* catalogs (src/shard.ts, src/coordinator.ts, src/catalog.ts).             *)
(*                                                                         *)
(* A preview pins a plan.  Execution closes the fleet gate, fences catalogs *)
(* and shards, records what will be lost, rewinds each shard to its         *)
(* checkpoint by arming the provider and restarting its session, replays    *)
(* the transactions decided by the cutoff, discards the coordinators of the *)
(* others and opens the gate; a rollback undoes the shards instead.  Each   *)
(* tick of the operation is one action, and so is a request that holds a    *)
(* shard's barrier, from the gate's answer on.  Coordinators ask the gate   *)
(* and act later.  A shard holds one client row and the state of each       *)
(* transaction; every transaction spans every shard.                        *)
(***************************************************************************)
EXTENDS Naturals, Sequences, FiniteSets

CONSTANTS Shards,      \* physical shards, numbered in participant-id order
          Txs,         \* transactions
          Written,     \* the shards whose row the client writes
          MaxRestores, \* operations previewed
          MaxFaults    \* lost answers, retries that run out, session restarts

ASSUME RestoreAssumption ==
    /\ IsFiniteSet(Shards) /\ Shards = 1 .. Cardinality(Shards) /\ Shards # {}
    /\ IsFiniteSet(Txs) /\ Written \subseteq Shards
    /\ {MaxRestores, MaxFaults} \subseteq Nat

VARIABLES
    op,       \* restore_operations: stage, resume stage, blocker, plan, what
              \* it reconciled, coordinators that existed when it was fenced
    gate,     \* fleet_restore_gate: "open", or its phase while active
    part,     \* restore_participants.status
    undo,     \* shards with an undo bookmark in restore_participants
    work,     \* restore_coordinator_work.status
    losses,   \* restore_loss_entries of every operation: shards, transactions
    registry, \* coordinator_registry
    ended,    \* the completed operations
    cutoff,   \* the instant the next preview names: transactions decided by it
    catalog,  \* the catalogs: fenced, topology moved since it was pinned
    shard,    \* each shard's database and what the provider keeps of it
    hold,     \* the request that holds each shard's mutation barrier
    acked,    \* shards that acknowledged the client's write
    row,      \* each coordinator's transaction row
    visit,    \* the request or alarm each coordinator runs
    stray,    \* a step whose answer was lost was not accounted for: a rollback
              \* began beside a shard armed without an undo or a coordinator
              \* discarded, or a shard already rewound was armed again; or a
              \* coordinator an earlier restore missed was let in
    faults, restores \* counted against their bounds

control == <<op, gate, part, undo, work, losses, registry, ended, cutoff, catalog, stray, restores>>
actors == <<shard, hold, acked, row, visit>>
vars == <<control, actors, faults>>

Fencing == {"fencing_catalogs", "fencing_participants", "revalidating_participants"}
Restoring == {"restoring_participants", "reconciling", "verifying_participants",
              "discarding_coordinators", "releasing_participants"}
RollingBack == {"rollback_participants", "rollback_releasing_participants"}
Previewing == {"closing_manifest", "enumerating_manifest", "materializing_envelopes",
               "previewing_participants"}
Over == {"none", "failed", "complete", "rolled_back"}
Working == Previewing \cup Fencing \cup {"materializing_loss"} \cup Restoring \cup RollingBack

Idle == [step |-> "none", by |-> "none"]
Free == <<"free", "none">>
First(S) == CHOOSE s \in S : \A r \in S : s <= r
With(statuses) == {s \in Shards : part[s] \in statuses}
NoWork == [t \in Txs |-> "none"]

\* The first shard, in participant order, with one of these statuses.
Next1(s, statuses) == With(statuses) # {} /\ s = First(With(statuses))

\* An RPC whose answer is lost, or work that is interrupted, spends a fault.
Answered(ok) == /\ ok \/ faults < MaxFaults
                /\ faults' = IF ok THEN faults ELSE faults + 1

Goto(stage) == op' = [op EXCEPT !.stage = stage]

\* Some transactions were prepared before their coordinators were inventoried.
Init == \E legacy \in SUBSET Txs : LET
    found == [t \in Txs |-> IF t \in legacy THEN "prepared" ELSE "none"]
    Empty == [w |-> FALSE, tx |-> found] IN
    /\ op = [stage |-> "none", resume |-> "none", blocker |-> "none", plan |-> {},
             replayed |-> {}, existed |-> {}, doomed |-> FALSE]
    /\ gate = "open"
    /\ part = [s \in Shards |-> "none"] /\ undo = {} /\ work = NoWork
    /\ losses = {} /\ registry = {} /\ ended = <<>>
    /\ cutoff = [set |-> FALSE, decided |-> {}]
    /\ catalog = [fenced |-> FALSE, moved |-> FALSE]
    /\ shard = [s \in Shards |-> [db |-> Empty, last |-> Empty, target |-> Empty, mark |-> "none",
                                  armed |-> "none", head |-> Empty]]
    /\ hold = [s \in Shards |-> Free] /\ acked = {}
    /\ row = [t \in Txs |-> [state |-> found[t], discard |-> 0]]
    /\ visit = [t \in Txs |-> Idle]
    /\ stray = FALSE /\ faults = 0 /\ restores = 0

----------------------------------------------------------------------------
(* Requests at a shard. *)

\* What a request does to a shard's database, and whether it does anything.
Applied(db, what, t) ==
    IF what = "write" THEN [db EXCEPT !.w = TRUE]
    ELSE [db EXCEPT !.tx[t] = CASE what = "prepare" -> "prepared"
                                [] what = "commit" -> "committed"
                                [] what = "abort" -> "aborted"]
Wanted(s, what, t) ==
    LET db == shard[s].db IN
    CASE what = "write" -> s \in Written \ acked
      [] what = "prepare" -> row[t].state # "none" /\ db.tx[t] = "none"
      [] what = "commit" -> row[t].state = "committed" /\ row[t].discard = 0 /\ db.tx[t] = "prepared"
      [] what = "abort" -> /\ db.tx[t] \in {"none", "prepared"} /\ row[t].discard = 0
                           /\ row[t].state = "aborted" \/ visit[t].step = "cleanup"

\* handle() or alarm(): the barrier is taken and the gate answers that it is
\* open.  The answers of coordinators and retries come at any time, so the
\* request may be older than the operation that has just ended.
Admit(s, what, t) ==
    /\ gate = "open" /\ hold[s] = Free /\ Wanted(s, what, t)
    /\ hold' = [hold EXCEPT ![s] = <<what, t>>]
    /\ UNCHANGED <<control, shard, acked, row, visit, faults>>

\* A dirty database is certified at most once a second.
Certified(sh, certify) == IF certify THEN [sh EXCEPT !.last = sh.db] ELSE sh

\* The handler runs unless the shard's own fence forbids it; at its end it
\* may certify a checkpoint (one that no preview can name is left out).
Mutate(s, certify) ==
    LET db == Applied(shard[s].db, hold[s][1], hold[s][2]) IN
    /\ hold[s] # Free
    /\ certify => restores + (IF cutoff.set /\ op.stage \in Over THEN 1 ELSE 0) < MaxRestores
    /\ hold' = [hold EXCEPT ![s] = Free]
    /\ IF shard[s].mark # "none" THEN UNCHANGED <<shard, acked>>
       ELSE /\ shard' = [shard EXCEPT ![s] = Certified([@ EXCEPT !.db = db], certify)]
            /\ acked' = IF hold[s][1] = "write" THEN acked \cup {s} ELSE acked
    /\ UNCHANGED <<control, row, visit, faults>>

\* The session restarts: what was armed takes effect and the barrier is gone.
Restarted(s, sh) ==
    CASE sh.armed = "target" -> [sh EXCEPT !.db = sh.target, !.last = sh.target, !.mark = "none", !.armed = "none"]
      [] sh.armed = "undo" -> [sh EXCEPT !.db = sh.head, !.mark = "staging", !.armed = "none"]
      [] OTHER -> sh
RestartShard(s) ==
    /\ shard[s].armed # "none" \/ hold[s] # Free
    /\ faults < MaxFaults /\ faults' = faults + 1
    /\ shard' = [shard EXCEPT ![s] = Restarted(s, @)]
    /\ hold' = [hold EXCEPT ![s] = Free]
    /\ UNCHANGED <<control, acked, row, visit>>

----------------------------------------------------------------------------
(* Coordinators. *)

\* /begin of a new transaction enters the inventory first.
RegisterNew(t) ==
    /\ gate = "open" /\ row[t].state = "none" /\ visit[t] = Idle
    /\ registry' = registry \cup {t}
    /\ visit' = [visit EXCEPT ![t] = [step |-> "registered", by |-> "request"]]
    /\ UNCHANGED <<op, gate, part, undo, work, losses, ended, cutoff, catalog, stray, restores,
                   shard, hold, acked, row, faults>>

\* Mutants: work that was undecided at the cutoff is kept; work that was
\* decided by it is not.
RequiresDiscardOfDecided(t, decided) == row[t].state = "committed" /\ t \notin decided
RequiresDiscardOfAll(t, decided) == row[t].state \notin {"none", "aborted"}

RequiresDiscard(t, decided) == row[t].state \notin {"none", "aborted"} /\ t \notin decided

\* The completed operations whose inventory missed the transaction, or that
\* discarded it.
Missed(t) == {i \in DOMAIN ended : t \in ended[i].existed /\ ended[i].work[t] \in {"none", "discarded"}}
MustDiscard(t) == Missed(t) # {} /\ RequiresDiscard(t, ended[First(Missed(t))].decided)

\* A coordinator with a row registers, from /begin or its alarm, while an
\* operation holds the gate: it is inventoried, and its losses are still to
\* be read.  Releasing participants closes the inventory.
RegisterLate(t, by) ==
    /\ gate # "open" /\ row[t].state # "none" /\ row[t].discard = 0 /\ visit[t] = Idle
    /\ "releasing_participants" \notin {op.stage, op.resume}
    /\ registry' = registry \cup {t}
    /\ work' = [work EXCEPT ![t] = IF @ = "none" THEN "pending_loss" ELSE @]
    /\ op' = [op EXCEPT
         !.stage = IF work[t] = "none" /\ @ \in Restoring THEN "materializing_loss" ELSE @,
         !.resume = IF work[t] = "none" /\ op.stage = "manual_repair_required" /\ @ \notin RollingBack
                    THEN "materializing_loss" ELSE @]
    /\ visit' = [visit EXCEPT ![t] = [step |-> "late", by |-> by]]
    /\ UNCHANGED <<gate, part, undo, losses, ended, cutoff, catalog, stray, restores,
                   shard, hold, acked, row, faults>>

\* With the gate open, a row that a completed operation rewound is discarded.
RegisterOpen(t, by) ==
    /\ gate = "open" /\ row[t].state # "none" /\ row[t].discard = 0 /\ visit[t] = Idle
    /\ registry' = registry \cup {t}
    /\ visit' = [visit EXCEPT ![t] =
         [step |-> IF MustDiscard(t) THEN "cleanup" ELSE "registered", by |-> by]]
    /\ UNCHANGED <<op, gate, part, undo, work, losses, ended, cutoff, catalog, stray, restores,
                   shard, hold, acked, row, faults>>

\* assertRestoreGateOpen, asked anew before each decision: the answer is used
\* in a later step.
AskGate(t) ==
    /\ visit[t].step \in {"registered", "late"}
    /\ visit' = [visit EXCEPT ![t] = IF gate = "open" THEN [@ EXCEPT !.step = "permit"] ELSE Idle]
    /\ stray' = (stray \/ (visit[t].step = "late" /\ gate = "open" /\ MustDiscard(t)))
    /\ UNCHANGED <<op, gate, part, undo, work, losses, registry, ended, cutoff, catalog, restores,
                   shard, hold, acked, row, faults>>

\* The permitted step of a transaction that is not discarded; /begin goes on
\* to ask again.
Permitted(t, from, to, next) ==
    /\ visit[t].step = "permit" /\ row[t].state \in from /\ row[t].discard = 0
    /\ row' = [row EXCEPT ![t].state = to]
    /\ visit' = [visit EXCEPT ![t] = next]
    /\ UNCHANGED <<control, shard, hold, acked, faults>>

BeginRow(t) == Permitted(t, {"none"}, "open", [step |-> "registered", by |-> "request"])
DecideCommit(t) == Permitted(t, {"prepared"}, "committed", Idle)
DecideAbort(t) == Permitted(t, {"open", "prepared"}, "aborted", Idle)

\* Every vote is in.
Vote(t) ==
    /\ row[t].state = "open" /\ row[t].discard = 0 /\ visit[t] # Idle
    /\ \A s \in Shards : shard[s].db.tx[t] = "prepared"
    /\ row' = [row EXCEPT ![t].state = "prepared"]
    /\ UNCHANGED <<control, shard, hold, acked, visit, faults>>

\* The participants are aborted (Admit, Mutate); the discard becomes durable.
DiscardMissed(t) ==
    /\ visit[t].step = "cleanup" /\ \A s \in Shards : shard[s].db.tx[t] \notin {"none", "prepared"}
    /\ row' = [row EXCEPT ![t].discard = ended[First(Missed(t))].id]
    /\ visit' = [visit EXCEPT ![t] = Idle]
    /\ UNCHANGED <<control, shard, hold, acked, faults>>

\* The request or alarm fails or its object restarts.
Leave(t) ==
    /\ visit[t] # Idle
    /\ visit' = [visit EXCEPT ![t] = Idle]
    /\ UNCHANGED <<control, shard, hold, acked, row, faults>>

\* awaitMutationDrain waits for alarms; handle() leaves the mutation before
\* the handler it returns has run, so it does not wait for requests.
Drained(t) == visit[t].by # "alarm"

----------------------------------------------------------------------------
(* Preview. *)

\* The instant that the next preview names as its cutoff.
PassCutoff ==
    /\ op.stage \in Over /\ restores < MaxRestores /\ ~cutoff.set
    /\ cutoff' = [set |-> TRUE, decided |-> {t \in Txs : row[t].state = "committed"}]
    /\ shard' = [s \in Shards |-> [shard[s] EXCEPT !.target = shard[s].last]]
    /\ UNCHANGED <<op, gate, part, undo, work, losses, registry, ended, catalog, stray, restores,
                   hold, acked, row, visit, faults>>

Preview ==
    /\ op.stage \in Over /\ restores < MaxRestores /\ cutoff.set
    /\ restores' = restores + 1
    /\ op' = [stage |-> "closing_manifest", resume |-> "none", blocker |-> "none", plan |-> {},
              replayed |-> {}, existed |-> {}, doomed |-> FALSE]
    /\ part' = [s \in Shards |-> "none"] /\ undo' = {} /\ work' = NoWork
    /\ UNCHANGED <<gate, losses, registry, ended, cutoff, catalog, stray, actors, faults>>

\* /restore-proof: what the catalogs hold now is the topology of the plan.
PinnedTopology == [catalog EXCEPT !.moved = FALSE]

\* /restore-fence of the catalogs.
FencedTopology(closed) == [catalog EXCEPT !.fenced = closed]

\* The manifest is sealed through the cutoff and the topology is pinned.
CloseManifest ==
    /\ op.stage = "closing_manifest"
    /\ Goto("enumerating_manifest")
    /\ part' = [s \in Shards |-> "pending_preview"]
    /\ catalog' = PinnedTopology
    /\ UNCHANGED <<gate, undo, work, losses, registry, ended, cutoff, stray, restores, actors, faults>>

DiscardedBefore == {t \in Txs : \E i \in DOMAIN ended : ended[i].work[t] = "discarded"}
EnumerateManifest ==
    /\ op.stage = "enumerating_manifest"
    /\ op' = [op EXCEPT !.stage = "materializing_envelopes", !.plan = cutoff.decided \ DiscardedBefore]
    /\ UNCHANGED <<gate, part, undo, work, losses, registry, ended, cutoff, catalog, stray, restores,
                   actors, faults>>

MaterializeEnvelopes ==
    /\ op.stage = "materializing_envelopes"
    /\ Goto("previewing_participants")
    /\ UNCHANGED <<gate, part, undo, work, losses, registry, ended, cutoff, catalog, stray, restores,
                   actors, faults>>

PreviewParticipant(s) ==
    /\ op.stage = "previewing_participants" /\ Next1(s, {"pending_preview"}) /\ hold[s] = Free
    /\ part' = [part EXCEPT ![s] = "previewed"]
    /\ UNCHANGED <<op, gate, undo, work, losses, registry, ended, cutoff, catalog, stray, restores,
                   actors, faults>>

FinalizePlan ==
    /\ op.stage = "previewing_participants" /\ With({"pending_preview"}) = {}
    /\ Goto("previewed")
    /\ UNCHANGED <<gate, part, undo, work, losses, registry, ended, cutoff, catalog, stray, restores,
                   actors, faults>>

\* A topology operation, until the catalogs are fenced.
MoveTopology ==
    /\ op.stage = "previewed" /\ ~catalog.fenced /\ ~catalog.moved
    /\ catalog' = [catalog EXCEPT !.moved = TRUE]
    /\ UNCHANGED <<op, gate, part, undo, work, losses, registry, ended, cutoff, stray, restores,
                   actors, faults>>

----------------------------------------------------------------------------
(* Execution up to the first rewound shard. *)

Execute ==
    /\ op.stage = "previewed" /\ gate = "open"
    /\ gate' = "fencing"
    /\ op' = [op EXCEPT !.stage = "fencing_catalogs", !.existed = {t \in Txs : row[t].state # "none"}]
    /\ work' = [t \in Txs |-> IF t \in registry THEN "pending_loss" ELSE "none"]
    /\ UNCHANGED <<part, undo, losses, registry, ended, cutoff, catalog, stray, restores, actors, faults>>

FenceCatalogs ==
    /\ op.stage = "fencing_catalogs" /\ ~catalog.moved
    /\ catalog' = FencedTopology(TRUE)
    /\ Goto("fencing_participants")
    /\ UNCHANGED <<gate, part, undo, work, losses, registry, ended, cutoff, stray, restores, actors, faults>>

\* /restore-fence, /pitr-release: the local marker.
LocalFence(sh, mark) == [sh EXCEPT !.mark = mark]

\* /restore-fence waits for the shard's barrier.
FenceParticipant(s, ok) ==
    /\ op.stage = "fencing_participants" /\ Next1(s, {"previewed"}) /\ hold[s] = Free
    /\ Answered(ok)
    /\ shard' = [shard EXCEPT ![s] = LocalFence(@, "install")]
    /\ part' = IF ok THEN [part EXCEPT ![s] = "fenced"] ELSE part
    /\ UNCHANGED <<op, gate, undo, work, losses, registry, ended, cutoff, catalog, stray, restores,
                   hold, acked, row, visit>>

\* All are fenced: in time, or after execute_before.
FencingEnds(late) ==
    /\ op.stage = "fencing_participants" /\ With({"previewed"}) = {} /\ ~op.doomed
    /\ op' = IF late THEN [op EXCEPT !.doomed = TRUE] ELSE [op EXCEPT !.stage = "revalidating_participants"]
    /\ UNCHANGED <<gate, part, undo, work, losses, registry, ended, cutoff, catalog, stray, restores,
                   actors, faults>>

RevalidateParticipant(s) ==
    /\ op.stage = "revalidating_participants" /\ Next1(s, {"fenced"}) /\ hold[s] = Free
    /\ part' = [part EXCEPT ![s] = "ready"]
    /\ UNCHANGED <<op, gate, undo, work, losses, registry, ended, cutoff, catalog, stray, restores,
                   actors, faults>>

RevalidationEnds ==
    /\ op.stage = "revalidating_participants" /\ With({"fenced"}) = {}
    /\ Goto("materializing_loss") /\ gate' = "restoring"
    /\ UNCHANGED <<part, undo, work, losses, registry, ended, cutoff, catalog, stray, restores,
                   actors, faults>>

\* The plan is stale: the shards up to "upto" release their fences; when all
\* did, and the catalogs, the gate opens; else the operation is parked.
FailBeforeRestore(upto) ==
    /\ \/ op.stage = "fencing_catalogs" /\ catalog.moved
       \/ op.stage = "fencing_participants" /\ op.doomed
    /\ Answered(upto = Cardinality(Shards))
    /\ shard' = [s \in Shards |-> IF s <= upto THEN LocalFence(shard[s], "none") ELSE shard[s]]
    /\ IF upto = Cardinality(Shards)
       THEN /\ Goto("failed") /\ gate' = "open"
            /\ catalog' = FencedTopology(FALSE)
       ELSE /\ op' = [op EXCEPT !.stage = "manual_repair_required", !.resume = op.stage,
                                !.blocker = "retryable"]
            /\ gate' = "manual_repair_required" /\ UNCHANGED catalog
    /\ UNCHANGED <<part, undo, work, losses, registry, ended, cutoff, stray, restores,
                   hold, acked, row, visit>>

\* /restore-loss-page: what the journal of direct writes has after the
\* checkpoint, up to the fence.
Lost(sh) == sh.db.w /\ ~sh.target.w

\* A fenced shard reports its direct writes.
MaterializeShardLoss(s) ==
    /\ op.stage = "materializing_loss" /\ Next1(s, {"ready"}) /\ hold[s] = Free
    /\ shard[s].mark # "none"
    /\ losses' = IF Lost(shard[s]) THEN losses \cup {s} ELSE losses
    /\ part' = [part EXCEPT ![s] = "loss_materialized"]
    /\ UNCHANGED <<op, gate, undo, work, registry, ended, cutoff, catalog, stray, restores,
                   actors, faults>>

\* A coordinator answers, once its alarm is out, whether its transaction is
\* part of the restored snapshot.
MaterializeCoordinatorLoss(t) ==
    /\ op.stage = "materializing_loss" /\ With({"ready"}) = {}
    /\ work[t] = "pending_loss" /\ Drained(t)
    /\ losses' = IF RequiresDiscard(t, cutoff.decided) THEN losses \cup {t} ELSE losses
    /\ work' = [work EXCEPT ![t] = IF RequiresDiscard(t, cutoff.decided) THEN "discard_required" ELSE "retained"]
    /\ UNCHANGED <<op, gate, part, undo, registry, ended, cutoff, catalog, stray, restores,
                   actors, faults>>

LossMaterialized ==
    /\ op.stage = "materializing_loss" /\ With({"ready"}) = {}
    /\ \A t \in Txs : work[t] # "pending_loss"
    /\ Goto("restoring_participants")
    /\ UNCHANGED <<gate, part, undo, work, losses, registry, ended, cutoff, catalog, stray, restores,
                   actors, faults>>

----------------------------------------------------------------------------
(* Shards are rewound, transactions replayed, coordinators discarded. *)

Park(blocker) ==
    /\ op' = [op EXCEPT !.stage = "manual_repair_required", !.resume = op.stage, !.blocker = blocker]
    /\ gate' = "manual_repair_required"

NotRestored == {s \in Shards : part[s] \notin {"restored", "verified", "released"}}
Restores(s, status) == /\ op.stage = "restoring_participants" /\ NotRestored # {}
                       /\ s = First(NotRestored) /\ part[s] = status

\* stagePitrBookmark: arming again, or without a local marker, is allowed
\* only in the gate's phase for it; otherwise the call is a conflict.
MayArm(s, marks, phase) == shard[s].mark \in marks => gate = phase

\* /pitr-stage, /pitr-undo.  "lost": done, the answer is lost; "unsure":
\* armed, then the second look at the gate fails.  Arming the target names
\* the head of that moment as the point an undo returns to.
Staged(s, marker, bookmark, answer) ==
    IF shard[s].mark = marker.done THEN UNCHANGED shard
    ELSE shard' = [shard EXCEPT ![s].armed = bookmark,
                                ![s].head = IF bookmark = "target" THEN shard[s].db ELSE @,
                                ![s].mark = IF answer = "unsure" THEN marker.begun ELSE marker.done]
Forward == [begun |-> "staging", done |-> "staged"]
Backward == [begun |-> "undo-staging", done |-> "undo-staged"]

StageParticipant(s, answer) ==
    /\ Restores(s, "loss_materialized") /\ hold[s] = Free
    /\ Answered(answer = "ok")
    /\ IF MayArm(s, {"none", "staging"}, "restoring")
       THEN /\ Staged(s, Forward, "target", answer)
            /\ part' = IF answer = "ok" THEN [part EXCEPT ![s] = "staged"] ELSE part
            /\ undo' = IF answer = "ok" THEN undo \cup {s} ELSE undo
            /\ stray' = (stray \/ shard[s].mark = "none")
            /\ UNCHANGED <<op, gate>>
       ELSE answer = "ok" /\ Park("conflict") /\ UNCHANGED <<shard, part, undo, stray>>
    /\ UNCHANGED <<work, losses, registry, ended, cutoff, catalog, restores, hold, acked, row, visit>>

\* /pitr-apply aborts the session; the call may not arrive.
Applied1(s, mark, ok) ==
    shard' = IF ok /\ shard[s].mark = mark
             THEN [shard EXCEPT ![s] = Restarted(s, [@ EXCEPT !.mark = "applying"])] ELSE shard

ActivateParticipant(s, ok) ==
    /\ Restores(s, "staged") /\ hold[s] = Free /\ Answered(ok)
    /\ part' = [part EXCEPT ![s] = "activation_requested"]
    /\ Applied1(s, "staged", ok)
    /\ UNCHANGED <<op, gate, undo, work, losses, registry, ended, cutoff, catalog, stray, restores,
                   hold, acked, row, visit>>

\* /pitr-verify: no marker means that the restored session runs; an undone one
\* has it again as it was when the target was armed.
Verified(sh) == sh.mark = "none"
VerifiedUndone(sh) == sh.mark \notin {"undo-staging", "undo-staged"}

\* A marker that is still staged is applied again.
VerifyActivation(s, ok) ==
    /\ Restores(s, "activation_requested") /\ Answered(ok)
    /\ IF Verified(shard[s])
       THEN ok /\ part' = [part EXCEPT ![s] = "restored"] /\ UNCHANGED shard
       ELSE UNCHANGED part /\ Applied1(s, "staged", ok)
    /\ UNCHANGED <<op, gate, undo, work, losses, registry, ended, cutoff, catalog, stray, restores,
                   hold, acked, row, visit>>

ParticipantsRestored ==
    /\ op.stage = "restoring_participants" /\ NotRestored = {}
    /\ Goto("reconciling") /\ gate' = "reconciling"
    /\ UNCHANGED <<part, undo, work, losses, registry, ended, cutoff, catalog, stray, restores,
                   actors, faults>>

\* The messages of a redo envelope: prepare if unknown, recover to commit.
Replayed(sh, t) == [sh EXCEPT !.db.tx[t] = "committed"]

\* Mutant: the transaction counts as replayed though some shards failed.
ReconcileSome(t, upto) ==
    /\ op.stage = "reconciling" /\ t \in op.plan \ op.replayed
    /\ \A s \in Shards : hold[s] = Free
    /\ Answered(upto = Cardinality(Shards))
    /\ \A s \in Shards : shard[s].db.tx[t] # "aborted"
    /\ shard' = [s \in Shards |-> IF s <= upto THEN Replayed(shard[s], t) ELSE shard[s]]
    /\ op' = [op EXCEPT !.replayed = @ \cup {t}]
    /\ UNCHANGED <<gate, part, undo, work, losses, registry, ended, cutoff, catalog, stray, restores,
                   hold, acked, row, visit>>

\* A shard that does not know the transaction prepares it again from the
\* redo envelope, and it commits; the tick may stop after some shards.
ReconcileTransaction(t, upto) ==
    LET all == upto = Cardinality(Shards) IN
    /\ op.stage = "reconciling" /\ t \in op.plan \ op.replayed
    /\ \A s \in Shards : hold[s] = Free
    /\ Answered(all)
    /\ \A s \in Shards : shard[s].db.tx[t] # "aborted"
    /\ shard' = [s \in Shards |-> IF s <= upto THEN Replayed(shard[s], t) ELSE shard[s]]
    /\ op' = IF all THEN [op EXCEPT !.replayed = @ \cup {t}] ELSE op
    /\ UNCHANGED <<gate, part, undo, work, losses, registry, ended, cutoff, catalog, stray, restores,
                   hold, acked, row, visit>>

TransactionsReconciled ==
    /\ op.stage = "reconciling" /\ op.plan = op.replayed
    /\ Goto("verifying_participants") /\ gate' = "verifying"
    /\ UNCHANGED <<part, undo, work, losses, registry, ended, cutoff, catalog, stray, restores,
                   actors, faults>>

VerifyParticipant(s) ==
    /\ op.stage = "verifying_participants" /\ Next1(s, {"restored"})
    /\ part' = [part EXCEPT ![s] = "verified"]
    /\ UNCHANGED <<op, gate, undo, work, losses, registry, ended, cutoff, catalog, stray, restores,
                   actors, faults>>

ParticipantsVerified ==
    /\ op.stage = "verifying_participants" /\ With({"restored"}) = {}
    /\ Goto("discarding_coordinators")
    /\ UNCHANGED <<gate, part, undo, work, losses, registry, ended, cutoff, catalog, stray, restores,
                   actors, faults>>

\* abortParticipantsForRestore: an intent is aborted, an applied one stays.
AbortedForRestore(sh, t) == [sh EXCEPT !.db.tx[t] = IF @ = "committed" THEN @ ELSE "aborted"]

\* /restore-discard aborts the participants and makes the discard durable;
\* one made by another operation is a conflict, found after the aborts.
DiscardCoordinator(t, ok) ==
    LET earlier == row[t].discard \notin {0, restores} IN
    /\ op.stage = "discarding_coordinators" /\ work[t] = "discard_required" /\ Drained(t)
    /\ \A s \in Shards : hold[s] = Free
    /\ Answered(ok)
    /\ shard' = [s \in Shards |-> AbortedForRestore(shard[s], t)]
    /\ row' = IF earlier THEN row ELSE [row EXCEPT ![t].discard = restores]
    /\ IF earlier THEN ok /\ Park("conflict") /\ UNCHANGED work
       ELSE /\ work' = IF ok THEN [work EXCEPT ![t] = "discarded"] ELSE work
            /\ UNCHANGED <<op, gate>>
    /\ UNCHANGED <<part, undo, losses, registry, ended, cutoff, catalog, stray, restores,
                   hold, acked, visit>>

CoordinatorsDiscarded ==
    /\ op.stage = "discarding_coordinators" /\ \A t \in Txs : work[t] # "discard_required"
    /\ Goto("releasing_participants")
    /\ UNCHANGED <<gate, part, undo, work, losses, registry, ended, cutoff, catalog, stray, restores,
                   actors, faults>>

\* /pitr-release
ReleaseParticipant(s, ok) ==
    /\ op.stage = "releasing_participants" /\ Next1(s, {"verified"}) /\ hold[s] = Free
    /\ Answered(ok)
    /\ shard' = [shard EXCEPT ![s] = LocalFence(@, "none")]
    /\ part' = IF ok THEN [part EXCEPT ![s] = "released"] ELSE part
    /\ UNCHANGED <<op, gate, undo, work, losses, registry, ended, cutoff, catalog, stray, restores,
                   hold, acked, row, visit>>

\* Nothing is left: the catalogs are released and the gate opens.
CompleteRestore ==
    /\ op.stage = "releasing_participants" /\ part = [s \in Shards |-> "released"]
    /\ op.replayed = op.plan /\ \A t \in Txs : work[t] \in {"none", "retained", "discarded"}
    /\ Goto("complete") /\ gate' = "open"
    /\ catalog' = FencedTopology(FALSE)
    /\ cutoff' = [cutoff EXCEPT !.set = FALSE]
    /\ ended' = Append(ended, [id |-> restores, work |-> work, existed |-> op.existed, decided |-> cutoff.decided])
    /\ UNCHANGED <<part, undo, work, losses, registry, stray, restores, actors, faults>>

----------------------------------------------------------------------------
(* Interruption, reconcile and rollback. *)

\* Retries run out: parked under the gate, failed before it is closed.
RetriesRunOut ==
    /\ op.stage \in Working /\ Answered(FALSE)
    /\ IF gate = "open" THEN Goto("failed") /\ UNCHANGED gate ELSE Park("retryable")
    /\ UNCHANGED <<part, undo, work, losses, registry, ended, cutoff, catalog, stray, restores, actors>>

\* handleReconcile, and handleRollback on a rollback that was parked: the
\* stage resumes; the gate's phase stays as it was.
Resume ==
    /\ op.stage = "manual_repair_required" /\ op.blocker = "retryable"
    /\ op' = [op EXCEPT !.stage = op.resume, !.resume = "none", !.blocker = "none"]
    /\ UNCHANGED <<gate, part, undo, work, losses, registry, ended, cutoff, catalog, stray, restores,
                   actors, faults>>

\* Those the operation discarded without learning it.
Forgotten == {t \in Txs : row[t].discard = restores /\ work[t] # "discarded"}

\* Mutant: a shard that is only staged is left.
RollbackRestored ==
    /\ gate # "open" /\ op.stage \notin RollingBack /\ op.resume \notin RollingBack
    /\ With({"released"}) = {} /\ undo # {}
    /\ \A t \in Txs : work[t] # "discarded"
    /\ part' = [s \in Shards |-> IF s \in undo /\ part[s] # "staged" THEN "rollback_pending" ELSE "rollback_not_needed"]
    /\ op' = [op EXCEPT !.stage = "rollback_participants", !.resume = "none", !.blocker = "none"]
    /\ gate' = "rolling_back"
    /\ stray' = (stray \/ (\E s \in Shards : s \notin undo /\ shard[s].mark # "install") \/ Forgotten # {})
    /\ UNCHANGED <<undo, work, losses, registry, ended, cutoff, catalog, restores, actors, faults>>

Rollback ==
    /\ gate # "open" /\ op.stage \notin RollingBack /\ op.resume \notin RollingBack
    /\ With({"released"}) = {} /\ undo # {}
    /\ \A t \in Txs : work[t] # "discarded"
    /\ part' = [s \in Shards |-> IF s \in undo THEN "rollback_pending" ELSE "rollback_not_needed"]
    /\ op' = [op EXCEPT !.stage = "rollback_participants", !.resume = "none", !.blocker = "none"]
    /\ gate' = "rolling_back"
    /\ stray' = (stray \/ (\E s \in Shards : s \notin undo /\ shard[s].mark # "install") \/ Forgotten # {})
    /\ UNCHANGED <<undo, work, losses, registry, ended, cutoff, catalog, restores, actors, faults>>

RollbackNext == {"rollback_pending", "rollback_staged", "rollback_activation_requested"}
Undoes(s, status) == /\ op.stage = "rollback_participants" /\ Next1(s, RollbackNext)
                     /\ part[s] = status

UndoParticipant(s, answer) ==
    /\ Undoes(s, "rollback_pending") /\ hold[s] = Free
    /\ Answered(answer = "ok")
    /\ IF MayArm(s, {"none", "undo-staging"}, "rolling_back")
       THEN /\ Staged(s, Backward, "undo", answer)
            /\ part' = IF answer = "ok" THEN [part EXCEPT ![s] = "rollback_staged"] ELSE part
            /\ UNCHANGED <<op, gate>>
       ELSE answer = "ok" /\ Park("conflict") /\ UNCHANGED <<shard, part>>
    /\ UNCHANGED <<undo, work, losses, registry, ended, cutoff, catalog, stray, restores, hold, acked, row, visit>>

ActivateUndo(s, ok) ==
    /\ Undoes(s, "rollback_staged") /\ hold[s] = Free /\ Answered(ok)
    /\ part' = [part EXCEPT ![s] = "rollback_activation_requested"]
    /\ Applied1(s, "undo-staged", ok)
    /\ UNCHANGED <<op, gate, undo, work, losses, registry, ended, cutoff, catalog, stray, restores,
                   hold, acked, row, visit>>

VerifyUndo(s, ok) ==
    /\ Undoes(s, "rollback_activation_requested") /\ Answered(ok)
    /\ IF VerifiedUndone(shard[s])
       THEN ok /\ part' = [part EXCEPT ![s] = "rollback_verified"] /\ UNCHANGED shard
       ELSE UNCHANGED part /\ Applied1(s, "undo-staged", ok)
    /\ UNCHANGED <<op, gate, undo, work, losses, registry, ended, cutoff, catalog, stray, restores,
                   hold, acked, row, visit>>

ParticipantsUndone ==
    /\ op.stage = "rollback_participants" /\ With(RollbackNext) = {}
    /\ Goto("rollback_releasing_participants")
    /\ UNCHANGED <<gate, part, undo, work, losses, registry, ended, cutoff, catalog, stray, restores,
                   actors, faults>>

ReleaseUndone(s, ok) ==
    /\ op.stage = "rollback_releasing_participants" /\ hold[s] = Free
    /\ Next1(s, {"rollback_verified", "rollback_not_needed"})
    /\ Answered(ok)
    /\ shard' = [shard EXCEPT ![s] = LocalFence(@, "none")]
    /\ part' = IF ok THEN [part EXCEPT ![s] = "rollback_released"] ELSE part
    /\ UNCHANGED <<op, gate, undo, work, losses, registry, ended, cutoff, catalog, stray, restores,
                   hold, acked, row, visit>>

\* Mutant: the gate stays closed.
CompleteRollbackFenced ==
    /\ op.stage = "rollback_releasing_participants" /\ part = [s \in Shards |-> "rollback_released"]
    /\ Goto("rolled_back") /\ UNCHANGED gate
    /\ catalog' = FencedTopology(FALSE)
    /\ UNCHANGED <<part, undo, work, losses, registry, ended, cutoff, stray, restores, actors, faults>>

CompleteRollback ==
    /\ op.stage = "rollback_releasing_participants" /\ part = [s \in Shards |-> "rollback_released"]
    /\ Goto("rolled_back") /\ gate' = "open"
    /\ catalog' = FencedTopology(FALSE)
    /\ UNCHANGED <<part, undo, work, losses, registry, ended, cutoff, stray, restores, actors, faults>>

----------------------------------------------------------------------------
Prefixes == 0 .. Cardinality(Shards)

ShardNext == \E s \in Shards :
    \/ Admit(s, "write", "none")
    \/ \E what \in {"prepare", "commit", "abort"}, t \in Txs : Admit(s, what, t)
    \/ \E certify \in BOOLEAN : Mutate(s, certify)
    \/ RestartShard(s)

CoordinatorNext == \E t \in Txs :
    \/ RegisterNew(t) \/ AskGate(t) \/ BeginRow(t) \/ Vote(t)
    \/ \E by \in {"request", "alarm"} : RegisterLate(t, by) \/ RegisterOpen(t, by)
    \/ DecideCommit(t) \/ DecideAbort(t) \/ DiscardMissed(t) \/ Leave(t)

PreviewNext ==
    \/ PassCutoff \/ Preview \/ CloseManifest \/ EnumerateManifest \/ MaterializeEnvelopes
    \/ \E s \in Shards : PreviewParticipant(s)
    \/ FinalizePlan \/ MoveTopology \/ Execute

RestoreNext ==
    \/ FenceCatalogs \/ RevalidationEnds \/ LossMaterialized \/ ParticipantsRestored
    \/ TransactionsReconciled \/ ParticipantsVerified \/ CoordinatorsDiscarded \/ CompleteRestore
    \/ \E late \in BOOLEAN : FencingEnds(late)
    \/ \E s \in Shards : RevalidateParticipant(s) \/ MaterializeShardLoss(s) \/ VerifyParticipant(s)
    \/ \E s \in Shards, ok \in BOOLEAN :
          FenceParticipant(s, ok) \/ ActivateParticipant(s, ok) \/ VerifyActivation(s, ok) \/ ReleaseParticipant(s, ok)
    \/ \E s \in Shards, answer \in {"ok", "lost", "unsure"} : StageParticipant(s, answer)
    \/ \E upto \in Prefixes : FailBeforeRestore(upto)
    \/ \E t \in Txs, upto \in Prefixes : ReconcileTransaction(t, upto)
    \/ \E t \in Txs : MaterializeCoordinatorLoss(t)
    \/ \E t \in Txs, ok \in BOOLEAN : DiscardCoordinator(t, ok)

RollbackNext1 ==
    \/ RetriesRunOut \/ Resume \/ Rollback \/ ParticipantsUndone \/ CompleteRollback
    \/ \E s \in Shards, answer \in {"ok", "lost", "unsure"} : UndoParticipant(s, answer)
    \/ \E s \in Shards, ok \in BOOLEAN : ActivateUndo(s, ok) \/ VerifyUndo(s, ok) \/ ReleaseUndone(s, ok)

Next == ShardNext \/ CoordinatorNext \/ PreviewNext \/ RestoreNext \/ RollbackNext1

Spec == Init /\ [][Next]_vars

----------------------------------------------------------------------------
TxStatus == {"none", "prepared", "committed", "aborted"}
Databases == [w : BOOLEAN, tx : [Txs -> TxStatus]]
Marks == {"none", "install", "staging", "staged", "applying", "undo-staging", "undo-staged"}

\* Every variable keeps its shape; an operation owns the gate from execution
\* to its end, and whoever holds a barrier was let in by an open gate.
RestoreTypeOK ==
    /\ op.stage \in Over \cup Working \cup {"previewed", "manual_repair_required"}
    /\ op.resume \in {"none"} \cup Working /\ op.plan \subseteq Txs /\ op.replayed \subseteq op.plan
    /\ (gate = "open") <=> (op.stage \in Over \cup Previewing \cup {"previewed"})
    /\ undo \subseteq Shards /\ losses \subseteq Shards \cup Txs /\ registry \subseteq Txs
    /\ work \in [Txs -> {"none", "pending_loss", "discard_required", "retained", "discarded"}]
    /\ \A s \in Shards : /\ {shard[s].db, shard[s].last, shard[s].target, shard[s].head} \subseteq Databases
                         /\ shard[s].mark \in Marks /\ shard[s].armed \in {"none", "target", "undo"}
    /\ \A t \in Txs : row[t].state \in {"none", "open"} \cup TxStatus /\ row[t].discard \in Nat
    /\ faults \in 0 .. MaxFaults /\ restores \in 0 .. MaxRestores

\* No fleet is opened half rewound (src/restore.ts, completeRestore, the end
\* of a rollback, failBeforeRestore): whenever the gate is open no shard is
\* armed to rewind at its next restart, no shard keeps a fence, and the
\* shards are all rewound (complete) or none of them is: after a failed or
\* rolled-back operation every acknowledged write is still there, but for
\* those a completed one reported.  What a lost answer hid from a rollback is
\* excused (stray).
FleetOpensWhole ==
    gate = "open" /\ ~stray =>
      \A s \in Shards :
        /\ shard[s].armed = "none" /\ shard[s].mark = "none"
        /\ s \in acked => shard[s].db.w \/ (ended # <<>> /\ s \in losses)

\* The report is complete (report.discarded_write_report_complete): when a
\* restore ends, each acknowledged write that is gone is among its loss
\* entries, and so is each committed transaction that is gone from a shard.
\* A write that a shard lost by itself, armed since a rollback that did not
\* know of it, is excused (stray).
LossesAreReported ==
    op.stage = "complete" =>
      /\ ~stray => \A s \in acked : shard[s].db.w \/ s \in losses
      /\ \A t \in op.plan, s \in Shards : shard[s].db.tx[t] = "committed"

\* Transactions stay atomic across restores: with the gate open none is
\* committed at one shard and aborted at another, or committed at a shard
\* without a durable commit decision that was not discarded.
AtomicAcrossRestores ==
    gate = "open" /\ ~stray =>
      \A t \in Txs, a \in Shards : shard[a].db.tx[t] = "committed" =>
        /\ row[t].state = "committed" /\ row[t].discard = 0
        /\ \A b \in Shards : shard[b].db.tx[t] # "aborted"

\* A rewound transaction never comes back (handleRegisterCoordinator,
\* /restore-discard): once a restore completed, no transaction that existed
\* when it closed the gate and was not decided by its cutoff is committed at
\* any shard, whether its coordinator was inventoried in time, registered
\* while shards were already rewound, or slept through the whole restore.
RewoundStaysRewound ==
    ~stray => \A i \in DOMAIN ended : \A t \in ended[i].existed \ ended[i].decided, s \in Shards :
      shard[s].db.tx[t] # "committed"

\* What the runbook says of rollback: it is accepted only when "no post-cutoff
\* coordinator has crossed the irreversible discard boundary".
RollbackPrecedesDiscard == op.stage \in RollingBack => Forgotten = {}

=============================================================================
