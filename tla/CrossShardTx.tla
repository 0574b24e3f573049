----------------------------- MODULE CrossShardTx -----------------------------
(***************************************************************************)
(* One cross-shard transaction: its CoordinatorDO (src/coordinator.ts),    *)
(* the ShardDOs it writes (TxParticipant) and its row in the journal       *)
(* manifest (ManifestRow), over a network that delays, repeats and loses.  *)
(*                                                                         *)
(* The coordinator is a Durable Object: storage transactions are atomic,   *)
(* but every await of a call or of a hash lets other requests and the      *)
(* alarm run.  A fiber is one request or alarm in progress; the actions    *)
(* cut its code at those awaits.  pc says what the fiber waits for and     *)
(* seen which row state it read before waiting.  A restart of the object   *)
(* loses every fiber and keeps the durable state.                          *)
(*                                                                         *)
(* Modelled: state-model version 2 transactions of one content.  A         *)
(* message, once sent, stays in msgs and may be executed at any later      *)
(* time, any number of times: it stands for the delayed original as well   *)
(* as for the retries.  A gate that precedes a call is passed when the     *)
(* call is sent; denying it is GateDenied.                                 *)
(***************************************************************************)
EXTENDS TxStates, TxParticipant, ManifestRow, FiniteSets

CONSTANTS Fibers, MaxResolutions

VARIABLES
  \* durable: the transactions row, its participants, recovery_queue, alarm
  st,        \* transactions.status
  decision,  \* transactions.decision
  finReq,    \* manifest_finalize_request_json is stored
  canReq,    \* manifest_cancel_request_json is stored
  parked,    \* last_error is a quarantine diagnosis of the cancellation
  phase,     \* transaction_participants.phase_status
  queue,     \* recovery_queue.action, "none" without a row
  armed,     \* an alarm of the object is scheduled
  \* volatile: lost by a restart
  pc, seen, acks, reply,
  excl,      \* recoveryInFlight: the fiber that owns it, if any
  alarmer,   \* the fiber that runs alarm(), if any
  act,       \* work.action, as the alarm read it
  fresh,     \* the queue row is still the one the alarm read
  \* the network
  msgs, resolveReqs

decisionVars == <<st, decision, finReq, canReq, parked, phase>>
recoveryVars == <<queue, fresh, armed>>
fiberVars == <<pc, seen, acks, reply, excl, alarmer, act>>
networkVars == <<msgs, resolveReqs>>
coordinatorVars == <<decisionVars, recoveryVars, fiberVars, networkVars>>
vars == <<coordinatorVars, participantVars, manifestVars>>

\* What a step of the coordinator leaves alone.
OthersUnchanged == UNCHANGED <<participantVars, manifestVars>>

RecoveryAction ==
  {"none", "reserve", "abort", "cancel", "finalize", "commit", "release"}

Message == {"reserve", "prepare", "abort", "cancel", "finalize", "commit",
            "release"}

\* A snapshot of the row: its state, with the park of a cancellation.
Snapshot == TxState \cup {"cancel_parked"}

CancelPending == {"aborted_pending_manifest_cancel", "cancel_parked"}

Label ==
  {"idle", "begin", "alarm", "join",
   "reserve", "prepare", "decide_gate", "decide", "finalize",
   "commit_gate", "commit", "release",
   "abort_gate", "abort_decide", "undo_gate", "undo",
   "cancel_gate", "cancel_reserve", "cancel",
   "resolve_finalized", "resolve_cancelled"}

TypeOK ==
  /\ st \in TxState
  /\ decision \in Decision
  /\ finReq \in BOOLEAN /\ canReq \in BOOLEAN /\ parked \in BOOLEAN
  /\ phase \in [Shards -> {"pending", "prepared", "committed"}]
  /\ queue \in RecoveryAction /\ act \in RecoveryAction
  /\ armed \in BOOLEAN /\ fresh \in BOOLEAN
  /\ pc \in [Fibers -> Label]
  /\ seen \in [Fibers -> Snapshot]
  /\ acks \in [Fibers -> SUBSET Shards]
  /\ reply \in [Fibers -> ManifestReply]
  /\ excl \subseteq Fibers /\ alarmer \subseteq Fibers
  /\ msgs \subseteq Message
  /\ resolveReqs \subseteq ResolutionRequest
  /\ ParticipantTypeOK
  /\ ManifestTypeOK

Init ==
  /\ st = "new" /\ decision = "undecided"
  /\ finReq = FALSE /\ canReq = FALSE /\ parked = FALSE
  /\ phase = [s \in Shards |-> "pending"]
  /\ queue = "none" /\ fresh = FALSE /\ armed = FALSE /\ act = "none"
  /\ pc = [f \in Fibers |-> "idle"]
  /\ seen = [f \in Fibers |-> "new"]
  /\ acks = [f \in Fibers |-> {}]
  /\ reply = [f \in Fibers |-> "none"]
  /\ excl = {} /\ alarmer = {}
  /\ msgs = {} /\ resolveReqs = {}
  /\ ParticipantInit
  /\ ManifestInit

-----------------------------------------------------------------------------
\* queueRecovery and the deletion of its row.
Queue(action) == queue' = action /\ fresh' = FALSE
KeepQueue == UNCHANGED <<queue, fresh>>

\* Mutant: the row without an alarm for it.
Reschedule_Unarmed(action) == Queue(action) /\ UNCHANGED armed

\* reschedule: the row and an alarm for it.
Reschedule(action) == Queue(action) /\ armed' = TRUE

\* ensureAlarmScheduled.
Arm == armed' = TRUE

\* loadTx.
Row ==
  IF st = "aborted_pending_manifest_cancel" /\ parked
  THEN "cancel_parked" ELSE st

\* Fiber f waits at label, with the row state it will compare later, if any,
\* for the answers to what it sent.
Await(f, label, snapshot, sent, requests) ==
  /\ pc' = [pc EXCEPT ![f] = label]
  /\ seen' = [seen EXCEPT ![f] = snapshot]
  /\ acks' = [acks EXCEPT ![f] = {}]
  /\ reply' = [reply EXCEPT ![f] = "none"]
  /\ msgs' = msgs \cup sent
  /\ resolveReqs' = resolveReqs \cup requests
  /\ UNCHANGED <<alarmer, act>>
  /\ OthersUnchanged

Goto(f, label, snapshot) ==
  Await(f, label, snapshot, {}, {}) /\ UNCHANGED excl

Call(f, label, message) ==
  Await(f, label, "new", {message}, {}) /\ UNCHANGED excl

\* runRecoveryExclusive: own the recovery of the transaction or wait for the
\* fiber that does.
Exclusively(f, label, snapshot) ==
  IF excl = {}
  THEN Await(f, label, snapshot, {}, {}) /\ excl' = {f}
  ELSE Goto(f, "join", "new")

\* The fibers that finish when f does: f, and those that joined its work.
Finishing(f) ==
  {f} \cup {g \in Fibers : f \in excl /\ pc[g] = "join"}

Return(f) ==
  /\ pc' = [g \in Fibers |-> IF g \in Finishing(f) THEN "idle" ELSE pc[g]]
  /\ seen' = [g \in Fibers |-> IF g \in Finishing(f) THEN "new" ELSE seen[g]]
  /\ acks' = [g \in Fibers |-> IF g \in Finishing(f) THEN {} ELSE acks[g]]
  /\ reply' =
       [g \in Fibers |-> IF g \in Finishing(f) THEN "none" ELSE reply[g]]
  /\ excl' = excl \ Finishing(f)
  /\ alarmer' = alarmer \ Finishing(f)
  /\ act' = IF alarmer \cap Finishing(f) = {} THEN act ELSE "none"
  /\ UNCHANGED networkVars
  /\ OthersUnchanged

\* An error that leaves f.  The alarm catches it and reschedules the action
\* it read, whatever the queue holds by now; a request reports it.
Throw(f) ==
  /\ Return(f)
  /\ IF alarmer \cap Finishing(f) # {}
     THEN Reschedule(act)
     ELSE KeepQueue /\ UNCHANGED armed
  /\ UNCHANGED decisionVars

\* resume(row): continue from the state of a row that was loaded earlier.
Resume(f, row) ==
  \/ row = "manifest_reserving" /\ Call(f, "reserve", "reserve")
  \/ row = "preparing" /\ Call(f, "prepare", "prepare")
  \/ row = "prepared" /\ Goto(f, "decide_gate", "new")
  \/ /\ row \in CommitDecidedOrLater \ CommitAuthorized
     /\ Await(f, "finalize", row, {"finalize"}, {}) /\ UNCHANGED excl
  \/ row \in {"abort_decided", "aborting"} /\ Goto(f, "undo_gate", row)
  \/ row \in CancelPending /\ Exclusively(f, "cancel_gate", row)
  \/ /\ row \in CommitAuthorized \ {"committed"}
     /\ Exclusively(f, "commit_gate", row)
  \/ row \in {"new", "aborted", "committed", "quarantined"} /\ Return(f)

\* resumeRecoveryOnce: f already owns the recovery, which is not reentrant.
ResumeRecoveryOnce(f, row) ==
  \/ row \in CancelPending /\ Goto(f, "cancel_gate", row)
  \/ row \in CommitAuthorized /\ Goto(f, "commit_gate", row)
  \/ row \notin CancelPending \cup CommitAuthorized /\ Resume(f, row)

-----------------------------------------------------------------------------
(* Starting a fiber: /begin, the alarm, /force-abort.                      *)

\* handleBegin reads the row, then registers the coordinator (and, for a new
\* transaction, asks for its manifest route).
Begin(f) ==
  /\ pc[f] = "idle"
  /\ Goto(f, "begin", Row)
  /\ UNCHANGED <<decisionVars, recoveryVars>>

\* A new transaction is stored with its reservation as forward work; a
\* concurrent /begin that stored it first is resumed.
Admit(f) ==
  /\ pc[f] = "begin"
  /\ seen[f] = "new"
  /\ Arm
  /\ IF st = "new"
     THEN /\ st' = "manifest_reserving"
          /\ Queue("reserve")
          /\ UNCHANGED <<decision, finReq, canReq, parked, phase>>
          /\ Resume(f, "manifest_reserving")
     ELSE Resume(f, Row) /\ KeepQueue /\ UNCHANGED decisionVars

BeginExisting(f) ==
  /\ pc[f] = "begin"
  /\ seen[f] # "new"
  /\ Resume(f, seen[f])
  /\ UNCHANGED <<decisionVars, recoveryVars>>

\* alarm() consumes the scheduled alarm and reads the queue and the row.
AlarmFire(f) ==
  /\ armed
  /\ alarmer = {}
  /\ pc[f] = "idle"
  /\ armed' = FALSE
  /\ UNCHANGED <<decisionVars, queue>>
  /\ UNCHANGED networkVars /\ OthersUnchanged
  /\ IF queue = "none"
     THEN UNCHANGED <<fiberVars, fresh>>
     ELSE /\ pc' = [pc EXCEPT ![f] = "alarm"]
          /\ seen' = [seen EXCEPT ![f] = Row]
          /\ alarmer' = {f}
          /\ act' = queue
          /\ fresh' = TRUE
          /\ UNCHANGED <<acks, reply, excl>>

\* After the registration and the gate: the work is replayed only if its
\* queue row is the one the alarm read; if it was rewritten, the alarm is
\* scheduled for the new one.  Only a committed row may be released.
AlarmWork(f) ==
  /\ pc[f] = "alarm"
  /\ UNCHANGED <<decisionVars, queue>>
  /\ fresh' = FALSE
  /\ \/ queue = "none" /\ Return(f) /\ UNCHANGED armed
     \/ queue # "none" /\ ~fresh /\ Return(f) /\ Arm
     \/ /\ queue # "none" /\ fresh
        /\ IF act # "release"
           THEN Resume(f, seen[f]) /\ UNCHANGED armed
           ELSE IF seen[f] = "committed"
           THEN Call(f, "release", "release") /\ UNCHANGED armed
           ELSE Throw(f)

\* The gate is closed, the registry does not answer, or the work is not due.
AlarmDeferred(f) ==
  /\ pc[f] = "alarm"
  /\ Arm
  /\ Return(f)
  /\ UNCHANGED <<decisionVars, queue, fresh>>

\* handleForceAbort: nothing after a commit decision, quarantine or abort.
ForceAbort(f) ==
  /\ pc[f] = "idle"
  /\ \/ /\ st \in {"manifest_reserving", "preparing", "prepared"}
        /\ Goto(f, "abort_gate", "new")
     \/ /\ st \in AbortDecidedOrLater \ {"aborted"}
        /\ Resume(f, Row)
  /\ UNCHANGED <<decisionVars, recoveryVars>>

\* assertRestoreGateOpen throws: a fleet restore holds the gate, or the gate
\* cannot be read.
GatedLabel ==
  {"begin", "reserve", "decide_gate", "finalize", "commit_gate", "release",
   "abort_gate", "undo_gate", "cancel_gate"}

GateDenied(f) == pc[f] \in GatedLabel /\ Throw(f)

-----------------------------------------------------------------------------
(* Reservation and prepare.                                                *)

\* reconcileReservation, after the reserve call.
Reserved(f) ==
  /\ pc[f] = "reserve"
  /\ st = "manifest_reserving"
  /\ UNCHANGED <<finReq, canReq, parked, phase>>
  /\ \/ /\ reply[f] = "none"
        /\ Reschedule("reserve")
        /\ Return(f)
        /\ UNCHANGED <<st, decision>>
     \/ /\ reply[f] = "ok"
        /\ st' = "preparing"
        /\ Queue("none")
        /\ Resume(f, "preparing")
        /\ UNCHANGED <<decision, armed>>
     \/ /\ reply[f] = "refused"
        /\ st' = "aborted" /\ decision' = "abort"
        /\ Queue("none")
        /\ Return(f)
        /\ UNCHANGED armed
     \/ /\ reply[f] = "quarantined"
        /\ Goto(f, "abort_gate", "new")
        /\ KeepQueue
        /\ UNCHANGED <<st, decision, armed>>

ReservedLate(f) ==
  /\ pc[f] = "reserve"
  /\ st # "manifest_reserving"
  /\ Resume(f, Row)
  /\ UNCHANGED <<decisionVars, recoveryVars>>

\* Mutant: the votes are not counted.
PrepareSucceeds_AnyVote(f) ==
  /\ pc[f] = "prepare"
  /\ st = "preparing" /\ st' = "prepared"
  /\ phase' = [s \in Shards |-> "prepared"]
  /\ Resume(f, "prepared")
  /\ UNCHANGED <<decision, finReq, canReq, parked, recoveryVars>>

\* prepare, with every vote: a lost race is tolerated and the latest row is
\* resumed either way.
PrepareSucceeds(f) ==
  /\ pc[f] = "prepare"
  /\ acks[f] = Shards
  /\ IF st = "preparing"
     THEN /\ st' = "prepared"
          /\ phase' = [s \in Shards |-> "prepared"]
          /\ Resume(f, "prepared")
     ELSE Resume(f, Row) /\ UNCHANGED <<st, phase>>
  /\ UNCHANGED <<decision, finReq, canReq, parked, recoveryVars>>

\* A refused or unanswered prepare aborts unless the commit is decided.
PrepareFails(f) ==
  /\ pc[f] = "prepare"
  /\ acks[f] # Shards
  /\ IF st \in CommitDecidedOrLater
     THEN Resume(f, Row)
     ELSE Goto(f, "abort_gate", "new")
  /\ UNCHANGED <<decisionVars, recoveryVars>>

-----------------------------------------------------------------------------
(* The commit decision and its delivery.                                   *)

\* persistCommitDecision arms the alarm after the gate and before it hashes
\* the redo envelope and the finalize intent.
DecideArm(f) ==
  /\ pc[f] = "decide_gate"
  /\ Arm
  /\ Goto(f, "decide", "new")
  /\ KeepQueue /\ UNCHANGED decisionVars

\* persistCommitDeciding: the decision, its immutable finalize request and
\* the forward work are one transaction.
Decide(f) ==
  /\ pc[f] = "decide"
  /\ st = "prepared"
  /\ st' = "commit_deciding" /\ decision' = "commit" /\ finReq' = TRUE
  /\ Queue("finalize")
  /\ Resume(f, "commit_deciding")
  /\ UNCHANGED <<canReq, parked, phase, armed>>

DecideLate(f) ==
  /\ pc[f] = "decide"
  /\ st # "prepared"
  /\ IF st \in CommitDecidedOrLater
     THEN Resume(f, Row) /\ UNCHANGED <<decisionVars, recoveryVars>>
     ELSE Throw(f)

\* reconcileFinalize, after the finalize call, on the state it started from.
Finalized(f) ==
  /\ pc[f] = "finalize"
  /\ st = seen[f]
  /\ UNCHANGED <<finReq, canReq, parked, phase>>
  /\ \/ /\ reply[f] = "none"
        /\ st' = "commit_pending_manifest"
        /\ Reschedule("finalize")
        /\ Return(f)
        /\ UNCHANGED decision
     \/ /\ reply[f] \in {"conflict", "quarantined"}
        /\ st' = "quarantined" /\ decision' = "quarantined"
        /\ Queue("none")
        /\ Return(f)
        /\ UNCHANGED armed
     \/ /\ reply[f] = "ok"
        /\ st' = "manifest_registered"
        /\ Queue("commit")
        /\ Exclusively(f, "commit_gate", "manifest_registered")
        /\ UNCHANGED <<decision, armed>>

FinalizedLate(f) ==
  /\ pc[f] = "finalize"
  /\ st # seen[f]
  /\ Resume(f, Row)
  /\ UNCHANGED <<decisionVars, recoveryVars>>

\* reconcileCommitOnce, up to the /commit calls.
SendCommit(f) ==
  /\ pc[f] = "commit_gate"
  /\ UNCHANGED <<decision, finReq, canReq, parked, phase, recoveryVars>>
  /\ \/ /\ seen[f] = "manifest_registered"
        /\ IF st = "manifest_registered"
           THEN st' = "committing" /\ Call(f, "commit", "commit")
           ELSE Goto(f, "commit_gate", Row) /\ UNCHANGED st
     \/ /\ seen[f] \in {"committing", "committed_pending_ack"}
        /\ Call(f, "commit", "commit")
        /\ UNCHANGED st
     \/ /\ seen[f] = "committed"
        /\ Return(f)
        /\ UNCHANGED st
     \/ /\ seen[f] \notin CommitAuthorized
        /\ ResumeRecoveryOnce(f, seen[f])
        /\ UNCHANGED st

\* reconcileCommitOnce, after the /commit calls, on the latest row.
CommitAcknowledged(f) ==
  /\ pc[f] = "commit"
  /\ acks[f] = Shards
  /\ Arm
  /\ IF st \in {"committing", "committed_pending_ack"}
     THEN /\ st' = "committed"
          /\ phase' = [s \in Shards |-> "committed"]
          /\ Queue("release")
          /\ Return(f)
     ELSE /\ IF st = "committed"
             THEN Return(f) ELSE ResumeRecoveryOnce(f, Row)
          /\ KeepQueue /\ UNCHANGED <<st, phase>>
  /\ UNCHANGED <<decision, finReq, canReq, parked>>

\* Mutant: a partial round records every participant.
CommitUnacknowledged_RecordsAll(f) ==
  /\ pc[f] = "commit"
  /\ acks[f] # Shards
  /\ st \in {"committing", "committed_pending_ack"}
  /\ st' = "committed_pending_ack"
  /\ phase' = [s \in Shards |-> "committed"]
  /\ Reschedule("commit")
  /\ Return(f)
  /\ UNCHANGED <<decision, finReq, canReq, parked>>

CommitUnacknowledged(f) ==
  /\ pc[f] = "commit"
  /\ acks[f] # Shards
  /\ IF st \in {"committing", "committed_pending_ack"}
     THEN /\ st' = "committed_pending_ack"
          /\ phase' = [s \in Shards |->
                         IF s \in acks[f] THEN "committed" ELSE phase[s]]
          /\ Reschedule("commit")
          /\ Return(f)
     ELSE /\ IF st = "committed"
             THEN Return(f) ELSE ResumeRecoveryOnce(f, Row)
          /\ UNCHANGED <<st, phase, recoveryVars>>
  /\ UNCHANGED <<decision, finReq, canReq, parked>>

\* reconcileManifestReleaseOnce, after the release call.
Released(f) ==
  /\ pc[f] = "release"
  /\ IF reply[f] = "ok"
     THEN Queue("none") /\ UNCHANGED armed
     ELSE Reschedule("release")
  /\ Return(f)
  /\ UNCHANGED decisionVars

-----------------------------------------------------------------------------
(* The abort decision and its delivery.                                    *)

\* persistAbortDecision arms the alarm after the gate and before it hashes
\* the cancel intent.
AbortArm(f) ==
  /\ pc[f] = "abort_gate"
  /\ Arm
  /\ Goto(f, "abort_decide", "new")
  /\ KeepQueue /\ UNCHANGED decisionVars

\* Mutants: the cancel request is not stored; no forward work is queued; the
\* decision is written in the vocabulary of the status.
AbortFrom(states, f) ==
  /\ pc[f] = "abort_decide"
  /\ st \in states /\ st' = "abort_decided"
  /\ Resume(f, "abort_decided")
  /\ UNCHANGED <<finReq, parked, phase, armed>>

DecideAbort_NoRequest(f) ==
  /\ AbortFrom({"manifest_reserving", "preparing", "prepared"}, f)
  /\ decision' = "abort" /\ Queue("abort") /\ UNCHANGED canReq

DecideAbort_NoWork(f) ==
  /\ AbortFrom({"manifest_reserving", "preparing", "prepared"}, f)
  /\ decision' = "abort" /\ canReq' = TRUE /\ KeepQueue

DecideAbort_Status(f) ==
  /\ AbortFrom({"manifest_reserving", "preparing", "prepared"}, f)
  /\ decision' = "aborted" /\ canReq' = TRUE /\ Queue("abort")

DecideAbort(f) ==
  /\ pc[f] = "abort_decide"
  /\ st \in {"manifest_reserving", "preparing", "prepared"}
  /\ st' = "abort_decided" /\ decision' = "abort" /\ canReq' = TRUE
  /\ Queue("abort")
  /\ Resume(f, "abort_decided")
  /\ UNCHANGED <<finReq, parked, phase, armed>>

DecideAbortLate(f) ==
  /\ pc[f] = "abort_decide"
  /\ st \notin {"manifest_reserving", "preparing", "prepared"}
  /\ IF st \in AbortDecidedOrLater
     THEN Goto(f, "undo_gate", Row) /\ UNCHANGED <<decisionVars, recoveryVars>>
     ELSE Throw(f)

\* reconcileAbort, up to the /abort calls.
SendAbort(f) ==
  /\ pc[f] = "undo_gate"
  /\ UNCHANGED <<decision, finReq, canReq, parked, phase, recoveryVars>>
  /\ \/ /\ seen[f] = "abort_decided"
        /\ IF st = "abort_decided"
           THEN st' = "aborting" /\ Call(f, "undo", "abort")
           ELSE Resume(f, Row) /\ UNCHANGED st
     \/ /\ seen[f] = "aborting"
        /\ Call(f, "undo", "abort")
        /\ UNCHANGED st
     \/ /\ seen[f] \notin {"abort_decided", "aborting"}
        /\ Resume(f, seen[f])
        /\ UNCHANGED st

\* Mutant: the row is not compared.
AbortAcknowledged_NoCas(f) ==
  /\ pc[f] = "undo" /\ acks[f] = Shards
  /\ st' = "aborted_pending_manifest_cancel"
  /\ Queue("cancel")
  /\ Exclusively(f, "cancel_gate", "aborted_pending_manifest_cancel")
  /\ UNCHANGED <<decision, finReq, canReq, parked, phase, armed>>

\* reconcileAbort, after the /abort calls.
AbortAcknowledged(f) ==
  /\ pc[f] = "undo"
  /\ acks[f] = Shards
  /\ IF st = "aborting"
     THEN /\ st' = "aborted_pending_manifest_cancel"
          /\ Queue("cancel")
          /\ Exclusively(f, "cancel_gate", "aborted_pending_manifest_cancel")
     ELSE Resume(f, Row) /\ KeepQueue /\ UNCHANGED st
  /\ UNCHANGED <<decision, finReq, canReq, parked, phase, armed>>

\* The reschedule is unconditional: it does not look at the latest row.
AbortUnacknowledged(f) ==
  /\ pc[f] = "undo"
  /\ acks[f] # Shards
  /\ Reschedule("abort")
  /\ Return(f)
  /\ UNCHANGED decisionVars

\* Mutant: the reservation is not replayed before it is cancelled.
SendReserveAgain_CancelOnly(f) ==
  /\ pc[f] = "cancel_gate"
  /\ IF queue = "none" /\ seen[f] = "cancel_parked"
     THEN Return(f)
     ELSE Call(f, "cancel", "cancel")
  /\ UNCHANGED <<decisionVars, recoveryVars>>

\* reconcileCancelOnce replays the reservation first, so that cancelling is
\* well-defined when the first reserve never reached the bucket.
SendReserveAgain(f) ==
  /\ pc[f] = "cancel_gate"
  /\ IF queue = "none" /\ seen[f] = "cancel_parked"
     THEN Return(f)
     ELSE Call(f, "cancel_reserve", "reserve")
  /\ UNCHANGED <<decisionVars, recoveryVars>>

\* The outcomes common to the two calls of reconcileCancelOnce.
CancelUnavailable(f) ==
  /\ reply[f] = "none"
  /\ Reschedule("cancel")
  /\ Return(f)
  /\ UNCHANGED <<st, decision, parked>>

ParkCancel(f) ==
  /\ reply[f] = "quarantined"
  /\ parked' = TRUE
  /\ Queue("none")
  /\ Return(f)
  /\ UNCHANGED <<st, decision, armed>>

FinishAbort(f) ==
  /\ st' = "aborted"
  /\ Queue("none")
  /\ Return(f)
  /\ UNCHANGED <<decision, parked, armed>>

ReservedAgain(f) ==
  /\ pc[f] = "cancel_reserve"
  /\ st = "aborted_pending_manifest_cancel"
  /\ UNCHANGED <<finReq, canReq, phase>>
  /\ \/ CancelUnavailable(f)
     \/ ParkCancel(f)
     \/ reply[f] = "refused" /\ FinishAbort(f)
     \/ /\ reply[f] = "ok"
        /\ Call(f, "cancel", "cancel")
        /\ KeepQueue /\ UNCHANGED <<st, decision, parked, armed>>

Cancelled(f) ==
  /\ pc[f] = "cancel"
  /\ st = "aborted_pending_manifest_cancel"
  /\ UNCHANGED <<finReq, canReq, phase>>
  /\ \/ CancelUnavailable(f)
     \/ ParkCancel(f)
     \/ reply[f] = "ok" /\ FinishAbort(f)
     \/ /\ reply[f] = "conflict"
        /\ st' = "quarantined" /\ decision' = "quarantined"
        /\ Queue("none")
        /\ Return(f)
        /\ UNCHANGED <<parked, armed>>

CancelLate(f) ==
  /\ pc[f] \in {"cancel_reserve", "cancel"}
  /\ st # "aborted_pending_manifest_cancel"
  /\ ResumeRecoveryOnce(f, Row)
  /\ UNCHANGED <<decisionVars, recoveryVars>>

-----------------------------------------------------------------------------
(* Audited quarantine resolution.                                          *)

ResolveLabel(resolution) ==
  IF resolution = "FINALIZED" THEN "resolve_finalized" ELSE "resolve_cancelled"

\* handleResolveManifestQuarantine needs the stored request of the selected
\* terminal and attests the row it read; the evidence is one of the candidates
\* that /tx-status listed, the record only where there is one.  The operator starts it on a
\* transaction whose manifest row has been in quarantine, with at most
\* MaxResolutions different requests.
Resolve(f, resolution, selected) ==
  LET request == [resolution |-> resolution, selected |-> selected,
                  attested |-> st]
  IN
  /\ pc[f] = "idle"
  /\ mq # "NONE"
  /\ IF resolution = "FINALIZED" THEN finReq ELSE canReq
  /\ selected = "record" => mrow = "FINALIZED" /\ resolution = "FINALIZED"
  /\ Cardinality(resolveReqs \cup {request}) <= MaxResolutions
  /\ Await(f, ResolveLabel(resolution), st, {}, {request})
  /\ UNCHANGED excl
  /\ UNCHANGED <<decisionVars, recoveryVars>>

\* The answer is applied only to the state that was attested.
ResolvedFinalized(f) ==
  /\ pc[f] = "resolve_finalized"
  /\ reply[f] = "ok"
  /\ st = seen[f]
  /\ decision' = "commit" /\ parked' = FALSE
  /\ IF st \in CommitAuthorized
     THEN /\ IF st = "committed"
             THEN Return(f) ELSE Exclusively(f, "commit_gate", st)
          /\ KeepQueue /\ UNCHANGED st
     ELSE /\ st' = "manifest_registered"
          /\ Queue("commit")
          /\ Exclusively(f, "commit_gate", "manifest_registered")
  /\ UNCHANGED <<finReq, canReq, phase, armed>>

ResolvedCancelled(f) ==
  /\ pc[f] = "resolve_cancelled"
  /\ reply[f] = "ok"
  /\ st = seen[f]
  /\ decision' = "abort" /\ parked' = FALSE
  /\ IF st \in {"abort_decided", "aborting"}
     THEN /\ Queue("abort")
          /\ Resume(f, st)
          /\ UNCHANGED st
     ELSE /\ st' = "aborted"
          /\ Queue("none")
          /\ Return(f)
  /\ UNCHANGED <<finReq, canReq, phase, armed>>

\* The service is unavailable or refuses, or the row moved meanwhile.
ResolveFails(f) ==
  /\ pc[f] \in {"resolve_finalized", "resolve_cancelled"}
  /\ reply[f] # "ok" \/ st # seen[f]
  /\ Return(f)
  /\ UNCHANGED <<decisionVars, recoveryVars>>

-----------------------------------------------------------------------------
(* The network and the restarts.                                           *)

\* A participant's acknowledgement reaches a fiber that waits for it, or is
\* lost: the request was a late one, or its answer is.
Acknowledge(label, s) ==
  \/ UNCHANGED acks
  \/ \E f \in Fibers :
       pc[f] = label /\ acks' = [acks EXCEPT ![f] = @ \cup {s}]

\* The answer of the manifest, likewise.
Answer(labels, r) ==
  \/ UNCHANGED reply
  \/ \E f \in Fibers :
       /\ pc[f] \in labels /\ reply[f] = "none"
       /\ reply' = [reply EXCEPT ![f] = r]

unchangedByShards ==
  <<decisionVars, recoveryVars, pc, seen, reply, excl, alarmer, act,
    networkVars, manifestVars>>

PrepareArrives(s) ==
  /\ "prepare" \in msgs
  /\ HandlePrepare(s)
  /\ Acknowledge("prepare", s)
  /\ UNCHANGED unchangedByShards

CommitArrives(s) ==
  /\ "commit" \in msgs
  /\ \/ HandleCommit(s) /\ Acknowledge("commit", s)
     \/ HandleCommitApplyThrows(s) /\ UNCHANGED acks
  /\ UNCHANGED unchangedByShards

AbortArrives(s) ==
  /\ "abort" \in msgs
  /\ HandleAbort(s)
  /\ Acknowledge("undo", s)
  /\ UNCHANGED unchangedByShards

\* Mutants: a durable commit decision is taken for the authority to commit;
\* only the terminal state is; whatever is not an abort is a commit.
StatusAnswer_Decision ==
  IF st \in CommitDecidedOrLater THEN "committed"
  ELSE IF st \in {"abort_decided", "aborting", "aborted"} THEN "aborted"
  ELSE "pending"

StatusAnswer_Terminal ==
  IF st \in {"committed", "aborted"} THEN st ELSE "pending"

StatusAnswer_NeverPending ==
  IF st \in {"abort_decided", "aborting", "aborted"} THEN "aborted"
  ELSE "committed"

\* handleTxStatus, as queryCoordinatorDecision reads it.
StatusAnswer ==
  IF st \in CommitAuthorized THEN "committed"
  ELSE IF st \in {"abort_decided", "aborting", "aborted"} THEN "aborted"
  ELSE "pending"

\* The alarm of a shard asks the coordinator about an old prepared intent.
Sweep(s) ==
  /\ \/ StatusAnswer # "pending" /\ SweepAsk(s, StatusAnswer)
     \/ SweepCommit(s)
     \/ SweepAbort(s)
     \/ SweepFails(s)
  /\ UNCHANGED <<acks, unchangedByShards>>

unchangedByManifest ==
  <<decisionVars, recoveryVars, pc, seen, acks, excl, alarmer, act,
    networkVars, participantVars>>

ManifestAnswers ==
  /\ \E r \in ManifestReply \ {"none"} :
       \/ /\ "reserve" \in msgs /\ Reserve(r)
          /\ Answer({"reserve", "cancel_reserve"}, r)
       \/ /\ "finalize" \in msgs /\ Finalize(r)
          /\ Answer({"finalize"}, r)
       \/ /\ "cancel" \in msgs /\ Cancel(r)
          /\ Answer({"cancel"}, r)
       \/ /\ "release" \in msgs /\ ReleaseV2(r)
          /\ Answer({"release"}, r)
  /\ UNCHANGED unchangedByManifest

ManifestResolves ==
  /\ \E request \in resolveReqs, r \in {"ok", "conflict"} :
       /\ ResolveQuarantine(request, r)
       /\ \/ UNCHANGED reply
          \/ \E f \in Fibers :
               /\ pc[f] = ResolveLabel(request.resolution)
               /\ seen[f] = request.attested /\ reply[f] = "none"
               /\ reply' = [reply EXCEPT ![f] = r]
  /\ UNCHANGED unchangedByManifest

ManifestConflict ==
  /\ ReserveOtherContent
  /\ UNCHANGED <<reply, unchangedByManifest>>

\* The coordinator's object restarts: its fibers are gone.  An alarm whose
\* handler did not finish is delivered again.
Restart ==
  /\ pc' = [f \in Fibers |-> "idle"]
  /\ seen' = [f \in Fibers |-> "new"]
  /\ acks' = [f \in Fibers |-> {}]
  /\ reply' = [f \in Fibers |-> "none"]
  /\ excl' = {} /\ alarmer' = {} /\ act' = "none"
  /\ armed' = (armed \/ alarmer # {})
  /\ fresh' = FALSE
  /\ UNCHANGED <<decisionVars, queue, networkVars>>
  /\ OthersUnchanged

-----------------------------------------------------------------------------
\* A step of a request or of the alarm in the coordinator.
FiberStep(f) ==
  \/ Begin(f) \/ Admit(f) \/ BeginExisting(f)
  \/ AlarmFire(f) \/ AlarmWork(f) \/ AlarmDeferred(f)
  \/ ForceAbort(f) \/ GateDenied(f)
  \/ Reserved(f) \/ ReservedLate(f)
  \/ PrepareSucceeds(f) \/ PrepareFails(f)
  \/ DecideArm(f) \/ Decide(f) \/ DecideLate(f)
  \/ Finalized(f) \/ FinalizedLate(f)
  \/ SendCommit(f) \/ CommitAcknowledged(f) \/ CommitUnacknowledged(f)
  \/ Released(f)
  \/ AbortArm(f) \/ DecideAbort(f) \/ DecideAbortLate(f)
  \/ SendAbort(f) \/ AbortAcknowledged(f) \/ AbortUnacknowledged(f)
  \/ SendReserveAgain(f) \/ ReservedAgain(f) \/ Cancelled(f)
  \/ CancelLate(f)

ResolveStep(f) ==
  \/ \E resolution \in {"FINALIZED", "CANCELLED"}, selected \in {"intent", "record"} :
       Resolve(f, resolution, selected)
  \/ ResolvedFinalized(f) \/ ResolvedCancelled(f) \/ ResolveFails(f)

CoordinatorNext == \E f \in Fibers : FiberStep(f) \/ ResolveStep(f)

ShardNext ==
  \E s \in Shards :
    PrepareArrives(s) \/ CommitArrives(s) \/ AbortArrives(s) \/ Sweep(s)

ManifestNext == ManifestAnswers \/ ManifestResolves \/ ManifestConflict

Next == CoordinatorNext \/ ShardNext \/ ManifestNext \/ Restart

Spec == Init /\ [][Next]_vars

-----------------------------------------------------------------------------
(* Fairness: what the platform guarantees.  The alarm of an object that is *)
(* armed fires, even if requests keep arriving; a fiber that can run does; *)
(* a call that is waited for reaches its shard or the manifest; the alarm  *)
(* of a shard keeps sweeping.  No request is guaranteed to arrive.         *)

Fairness ==
  /\ \A f \in Fibers :
       /\ SF_vars(AlarmFire(f))
       /\ WF_vars(pc[f] # "idle" /\ (FiberStep(f) \/ ResolveStep(f)))
  /\ \A s \in Shards :
       /\ WF_vars(PrepareArrives(s) /\ acks' # acks)
       /\ WF_vars(CommitArrives(s) /\ acks' # acks)
       /\ WF_vars(AbortArrives(s) /\ acks' # acks)
       /\ WF_vars(Sweep(s))
  /\ WF_vars((ManifestAnswers \/ ManifestResolves) /\ reply' # reply)

FairSpec == Spec /\ Fairness

\* The failures that must stop for progress: restarts, a closed gate, calls
\* given up before they are answered, and steps that fail on a shard.
GivesUp(f) ==
  /\ pc'[f] # pc[f]
  /\ \/ /\ pc[f] \in {"reserve", "finalize", "cancel_reserve", "cancel",
                      "release"}
        /\ reply[f] = "none"
     \/ pc[f] \in {"commit", "undo"} /\ acks[f] # Shards

Fails(s) ==
  \/ sweep[s] # "idle" /\ sweep'[s] = "idle" /\ locked'[s]
  \/ intents[s] = "prepared" /\ intents'[s] = "prepared"
       /\ tombstone'[s] # tombstone[s]

Fault ==
  \/ Restart
  \/ \E f \in Fibers : GateDenied(f) \/ AlarmDeferred(f) \/ GivesUp(f)
  \/ \E s \in Shards : Fails(s)

FaultsStop == <>[][~Fault]_vars
=============================================================================
