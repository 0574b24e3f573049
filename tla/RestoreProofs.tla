---------------------------- MODULE RestoreProofs ----------------------------
(***************************************************************************)
(* Proofs about Restore, for any shards, transactions, restores and faults. *)
(***************************************************************************)
EXTENDS Restore, FiniteSetTheorems, FunctionTheorems, SequenceTheorems, WellFoundedInduction, TLAPS

Stages == Over \cup Working \cup {"previewed", "manual_repair_required"}
OpRow == [stage : Stages, resume : {"none"} \cup Working, blocker : {"none", "retryable", "conflict"},
          plan : SUBSET Txs, replayed : SUBSET Txs, existed : SUBSET Txs, doomed : BOOLEAN]
PartStatus == {"none", "pending_preview", "previewed", "fenced", "ready", "loss_materialized", "staged",
               "activation_requested", "restored", "verified", "released", "rollback_pending",
               "rollback_staged", "rollback_activation_requested", "rollback_verified",
               "rollback_not_needed", "rollback_released"}
WorkStatus == {"none", "pending_loss", "discard_required", "retained", "discarded"}
EndedRow == [id : Nat, work : [Txs -> WorkStatus], existed : SUBSET Txs, decided : SUBSET Txs]
ShardRow == [db : Databases, last : Databases, target : Databases, mark : Marks,
             armed : {"none", "target", "undo"}, head : Databases]
Held == ({"free", "write"} \X {"none"}) \cup ({"prepare", "commit", "abort"} \X Txs)
TxRow == [state : {"none", "open"} \cup TxStatus, discard : Nat]
Visit == [step : {"none", "registered", "late", "permit", "cleanup"}, by : {"none", "request", "alarm"}]

\* The shapes of the coordinator's tables.
ControlTypes ==
  /\ op \in OpRow
  /\ part \in [Shards -> PartStatus] /\ undo \subseteq Shards
  /\ work \in [Txs -> WorkStatus] /\ losses \subseteq Shards \cup Txs /\ registry \subseteq Txs
  /\ ended \in Seq(EndedRow)
  /\ cutoff \in [set : BOOLEAN, decided : SUBSET Txs]
  /\ stray \in BOOLEAN /\ restores \in 0 .. MaxRestores

\* The shapes of what shards and coordinators keep.
ActorTypes ==
  /\ shard \in [Shards -> ShardRow] /\ hold \in [Shards -> Held] /\ acked \subseteq Shards
  /\ row \in [Txs -> TxRow] /\ visit \in [Txs -> Visit]
  /\ faults \in 0 .. MaxFaults

ClosedStages == Fencing \cup {"materializing_loss"} \cup Restoring \cup RollingBack
Losing == {"materializing_loss"} \cup Restoring
At == IF op.stage = "manual_repair_required" THEN op.resume ELSE op.stage
Closed == gate # "open"

\* The gate is closed from the fencing of the catalogs to the end, and an
\* operation that is parked knows where it goes on.
StageTrue ==
  /\ Closed <=> op.stage \notin Over \cup Previewing \cup {"previewed"}
  /\ op.stage = "manual_repair_required" => op.resume \in ClosedStages
  /\ op.stage # "manual_repair_required" => op.resume = "none"
  /\ op.stage # "none" => restores # 0

Early == {"previewed", "fenced", "ready"}
Armed == {"staged", "activation_requested"}
Back == {"restored", "verified", "released"}
Begun == {"loss_materialized"} \cup Armed \cup Back

\* What a participant can have come to by each stage.
StatusOf(at) ==
  CASE at \in {"enumerating_manifest", "materializing_envelopes"} -> {"pending_preview"}
    [] at = "previewing_participants" -> {"pending_preview", "previewed"}
    [] at \in {"previewed", "fencing_catalogs"} -> {"previewed"}
    [] at = "fencing_participants" -> {"previewed", "fenced"}
    [] at = "revalidating_participants" -> {"fenced", "ready"}
    [] at = "materializing_loss" -> Early \cup (Begun \ {"released"})
    [] at = "restoring_participants" -> (Early \cup Begun) \ {"ready", "released"}
    [] at \in {"reconciling", "verifying_participants"} -> {"restored", "verified"}
    [] at = "discarding_coordinators" -> {"verified"}
    [] at = "releasing_participants" -> {"verified", "released"}
    [] at = "complete" -> {"released"}
    [] at = "rollback_participants" -> RollbackNext \cup {"rollback_not_needed", "rollback_verified"}
    [] at = "rollback_releasing_participants" -> {"rollback_not_needed", "rollback_verified", "rollback_released"}
    [] OTHER -> PartStatus

\* A participant has an undo bookmark from its arming on.
PartTrue ==
  /\ \A s \in Shards : part[s] \in StatusOf(At)
  /\ At \in Previewing \cup {"previewed"} \cup Fencing => undo = {} /\ op.replayed = {}
  /\ At \in Losing => \A s \in Shards : s \in undo <=> part[s] \in Armed \cup Back
  /\ At \in RollingBack => \A s \in Shards :
       /\ part[s] \in RollbackNext \cup {"rollback_verified"} => s \in undo
       /\ part[s] = "rollback_not_needed" => s \notin undo

\* What a participant's status says of the marker and the provider.
MarkFits(status, mark, armed) ==
  CASE status \in Early -> mark \in {"none", "install"} /\ armed # "undo"
    [] status = "loss_materialized" -> \/ mark \in {"none", "install"} /\ armed # "undo"
                                       \/ mark \in {"staging", "staged"} /\ armed = "target"
    [] status \in Armed -> (mark = "none" /\ armed = "none") \/ (mark = "staged" /\ armed = "target")
    [] status \in Back -> mark = "none" /\ armed = "none"
    [] status = "rollback_pending" -> \/ mark \in {"none", "staging"} /\ armed = "none"
                                      \/ mark = "staged" /\ armed = "target"
                                      \/ mark \in {"undo-staging", "undo-staged"} /\ armed = "undo"
    [] status \in {"rollback_staged", "rollback_activation_requested"} ->
         (mark = "undo-staged" /\ armed = "undo") \/ (mark = "staging" /\ armed = "none")
    [] status = "rollback_verified" -> mark \in {"none", "staging"} /\ armed = "none"
    [] status = "rollback_released" -> mark = "none" /\ armed # "undo"
    [] OTHER -> armed # "undo"

MarkOK(s) ==
  /\ ~Closed => shard[s].mark = "none" /\ shard[s].armed # "undo"
  /\ Closed \/ op.stage = "complete" => MarkFits(part[s], shard[s].mark, shard[s].armed)
  /\ ~stray /\ Closed /\ part[s] = "rollback_not_needed" => shard[s].mark \in {"none", "install"}
  /\ ~stray /\ shard[s].armed = "target" => shard[s].mark \in {"staging", "staged"}
  /\ shard[s].mark \in {"staging", "staged"} /\ shard[s].armed = "target" => shard[s].head = shard[s].db
MarkTrue == \A s \in Shards : MarkOK(s)

\* A request that holds a barrier is as it was admitted, and a shard that is
\* fenced has none.
HoldOK(s) ==
  /\ Closed /\ part[s] \notin {"previewed", "rollback_not_needed"} => hold[s] = Free
  /\ shard[s].mark # "none" => hold[s] = Free
  /\ \A t \in Txs :
       /\ hold[s] = <<"prepare", t>> => shard[s].db.tx[t] = "none"
       /\ hold[s] = <<"commit", t>> => shard[s].db.tx[t] = "prepared" /\ row[t].state = "committed"
       /\ hold[s] = <<"abort", t>> => shard[s].db.tx[t] \in {"none", "prepared"}
HoldTrue == \A s \in Shards : HoldOK(s)

Committed(db) == {t \in Txs : db.tx[t] = "committed"}
Aborted(db) == {t \in Txs : db.tx[t] = "aborted"}
Decided == {t \in Txs : row[t].state = "committed"}

\* Nothing is committed that was not decided; a shard that is back has
\* nothing that its cutoff does not have.
Rewound(s) == Committed(shard[s].db) \cup Committed(shard[s].last) \subseteq cutoff.decided
RewoundOK(s) ==
  /\ Committed(shard[s].db) \cup Committed(shard[s].last) \cup Committed(shard[s].head) \subseteq Decided
  /\ Committed(shard[s].target) \subseteq cutoff.decided
  /\ Closed /\ part[s] \in Armed /\ shard[s].mark = "none" => Rewound(s)
  /\ Closed /\ part[s] \in Back => Rewound(s)
DecidedTrue ==
  /\ cutoff.decided \subseteq Decided /\ Decided \subseteq registry /\ op.plan \subseteq cutoff.decided
  /\ \A s \in Shards : RewoundOK(s)

\* What the inventory says of each coordinator.
WorkTrue ==
  /\ \A t \in Txs : visit[t].step \in {"registered", "late", "permit"} => t \in registry
  /\ \A t \in Txs : visit[t].step = "cleanup" => Missed(t) # {}
  /\ Closed => \A t \in registry : work[t] # "none"
  /\ Closed => \A t \in Txs :
       /\ work[t] \in {"discard_required", "discarded"} => t \notin cutoff.decided
       /\ work[t] = "discarded" => row[t].discard # 0
       /\ work[t] = "retained" /\ t \in op.existed => row[t].state = "aborted" \/ t \in cutoff.decided
  /\ \A t \in op.existed : row[t].state # "none"

\* The same of the operations that have ended.
EndedOK(i) == \A t \in Txs :
  /\ t \in ended[i].existed => row[t].state # "none"
  /\ ended[i].id # 0
  /\ ended[i].work[t] \in {"none", "retained", "discarded"}
  /\ ended[i].work[t] = "discarded" => row[t].discard # 0
  /\ ended[i].work[t] \in {"none", "discarded"} => t \notin ended[i].decided
  /\ ended[i].work[t] = "retained" /\ t \in ended[i].existed => row[t].state = "aborted" \/ t \in ended[i].decided
  /\ ~stray /\ t \in ended[i].existed /\ ended[i].work[t] = "none" => row[t].state # "committed"
EndedTrue == \A i \in DOMAIN ended : EndedOK(i)

\* A transaction that can no longer commit at any shard.
Doomed(t) == row[t].state = "aborted" \/ row[t].discard # 0 \/ Missed(t) # {}

DoomedVisits == \A t \in Txs :
  visit[t].step \in {"registered", "permit"} /\ row[t].discard = 0 /\ row[t].state # "aborted" => Missed(t) = {}

\* A decided transaction is discarded by a restore, ended or in progress.
DoomedRows == \A t \in Decided : row[t].discard # 0 =>
  \/ t \in DiscardedBefore
  \/ Closed /\ At \in Losing /\ row[t].discard = restores /\ work[t] \in {"discard_required", "discarded"}

DoomedPlan == op.stage \notin Over => \A t \in op.plan : ~Doomed(t)

DoomedShard(s) ==
  /\ \A X \in {shard[s].db, shard[s].last, shard[s].target, shard[s].head} : \A t \in Aborted(X) : Doomed(t)
  /\ \A X \in {shard[s].db, shard[s].last, shard[s].target} : \A t \in Committed(X) : ~Doomed(t)
  /\ \A t \in Txs : /\ hold[s] = <<"commit", t>> => ~Doomed(t)
                    /\ hold[s] = <<"abort", t>> => Doomed(t)
  /\ s \in undo => \A t \in Committed(shard[s].head) :
       /\ At \in Losing => Missed(t) = {} /\ row[t].discard \in {0, restores}
       /\ At \in RollingBack => ~Doomed(t)

DoomTrue == ~stray => DoomedVisits /\ DoomedRows /\ DoomedPlan /\ \A s \in Shards : DoomedShard(s)

\* An acknowledged write is at its shard, or was reported; one that is to be
\* rewound is in the checkpoint, or is reported.
Reported(s) == ended # <<>> /\ s \in losses
Kept(s, db) == s \in acked => db.w \/ Reported(s)
KeptOK(s) ==
  /\ (\/ ~Closed
      \/ part[s] \in Early \cup {"rollback_not_needed", "rollback_verified", "rollback_released"}
      \/ part[s] = "loss_materialized" /\ shard[s].mark # "none"
      \/ shard[s].mark = "staging" /\ shard[s].armed = "none") => Kept(s, shard[s].db)
  /\ At \in Losing \cup RollingBack /\ s \in undo => Kept(s, shard[s].head)
  /\ Closed /\ part[s] \in Begun /\ s \in acked => s \in losses \/ (shard[s].db.w /\ shard[s].target.w)
KeptTrue == ~stray => \A s \in Shards : KeptOK(s)

\* A replayed transaction is committed everywhere until the next restore.
ReplayTrue ==
  /\ op.replayed \subseteq op.plan
  /\ At \in Losing /\ op.replayed # {} => \A s \in Shards : part[s] \in Back
  /\ At \in Losing \cup {"complete"} => \A t \in op.replayed, s \in Shards : shard[s].db.tx[t] = "committed"
  /\ op.stage = "complete" => op.plan = op.replayed

RestoreInv == /\ ControlTypes /\ ActorTypes /\ StageTrue /\ PartTrue /\ MarkTrue /\ HoldTrue /\ DecidedTrue
              /\ WorkTrue /\ EndedTrue /\ DoomTrue /\ KeptTrue /\ ReplayTrue

-----------------------------------------------------------------------------
(* Types. *)

\* The bounds are natural numbers.
LEMMA BoundsAreNat == MaxRestores \in Nat /\ MaxFaults \in Nat
BY RestoreAssumption

\* Nothing of the coordinator's tables moves with a request at a shard.
LEMMA ShardFrame ==
  ASSUME ShardNext
  PROVE  UNCHANGED <<control, row, visit>>
BY DEF ShardNext, Admit, Mutate, RestartShard

\* What a step of a coordinator leaves alone.
LEMMA CoordinatorFrame ==
  ASSUME CoordinatorNext
  PROVE  UNCHANGED <<gate, part, undo, losses, ended, cutoff, catalog, restores, shard, hold, acked, faults>>
BY DEF CoordinatorNext, RegisterNew, AskGate, BeginRow, Vote, RegisterLate, RegisterOpen, DecideCommit,
       DecideAbort, DiscardMissed, Leave, Permitted, control

\* The steps of an operation start and end no request.
LEMMA OperationFrame ==
  ASSUME PreviewNext \/ RestoreNext \/ RollbackNext1
  PROVE  UNCHANGED <<hold, acked, visit, registry>>
<1>1. CASE PreviewNext
  BY <1>1 DEF PreviewNext, PassCutoff, Preview, CloseManifest, EnumerateManifest, MaterializeEnvelopes,
     PreviewParticipant, FinalizePlan, MoveTopology, Execute, actors
<1>2. CASE RestoreNext
  BY <1>2 DEF RestoreNext, FenceCatalogs, RevalidationEnds, LossMaterialized, ParticipantsRestored,
     TransactionsReconciled, ParticipantsVerified, CoordinatorsDiscarded, CompleteRestore, FencingEnds,
     RevalidateParticipant, MaterializeShardLoss, VerifyParticipant, FenceParticipant,
     ActivateParticipant, VerifyActivation, ReleaseParticipant, StageParticipant, FailBeforeRestore,
     ReconcileTransaction, MaterializeCoordinatorLoss, DiscardCoordinator, actors
<1>3. CASE RollbackNext1
  BY <1>3 DEF RollbackNext1, RetriesRunOut, Resume, Rollback, ParticipantsUndone, CompleteRollback,
     UndoParticipant, ActivateUndo, VerifyUndo, ReleaseUndone, actors
<1>4. QED
  BY <1>1, <1>2, <1>3

\* A set of naturals has a least element.
LEMMA HasLeast ==
  ASSUME NEW I \in SUBSET Nat, I # {}
  PROVE  First(I) \in I
<1> DEFINE L == {ss \in Nat \X Nat : ss[1] < ss[2]}
<1>1. IsWellFoundedOn(L, Nat)
  BY NatLessThanWellFounded DEF OpToRel
<1> HIDE DEF L
<1>2. PICK m \in I : \A y \in I : ~(<<y, m>> \in L)
  BY <1>1, WFMin
<1>3. \A y \in I : ~(y < m)
  BY <1>2 DEF L
<1>4. \A y \in I : m <= y
  BY <1>3
<1>5. QED
  BY <1>4 DEF First

\* The first shard with a status has it.
LEMMA FirstOfStatus ==
  ASSUME NEW S \in SUBSET Shards, S # {}
  PROVE  First(S) \in S
<1>1. Shards \subseteq Nat
  BY RestoreAssumption, FS_CardinalityType
<1>2. QED
  BY <1>1, HasLeast

\* The first restore that missed a transaction missed it.
LEMMA FirstOfMissed ==
  ASSUME ended \in Seq(EndedRow), NEW t, Missed(t) # {}
  PROVE  First(Missed(t)) \in Missed(t)
<1>1. Missed(t) \subseteq Nat
  BY DEF Missed
<1>2. QED
  BY <1>1, HasLeast

\* A restart keeps a shard's shape.
LEMMA RestartedRow ==
  ASSUME NEW s, NEW sh \in ShardRow
  PROVE  Restarted(s, sh) \in ShardRow
<1>1. "none" \in Marks /\ "staging" \in Marks
  BY DEF Marks
<1>2. QED
  BY <1>1 DEF Restarted, ShardRow

\* What a late registration makes of the operation.
LEMMA LateFields ==
  ASSUME op \in OpRow, NEW t \in Txs, NEW by, RegisterLate(t, by)
  PROVE  /\ op' \in OpRow
         /\ op'.stage = IF work[t] = "none" /\ op.stage \in Restoring THEN "materializing_loss" ELSE op.stage
         /\ op'.resume = IF work[t] = "none" /\ op.stage = "manual_repair_required" /\ op.resume \notin RollingBack
                         THEN "materializing_loss" ELSE op.resume
         /\ op'.plan = op.plan /\ op'.replayed = op.replayed /\ op'.existed = op.existed
<1> DEFINE stage == IF work[t] = "none" /\ op.stage \in Restoring THEN "materializing_loss" ELSE op.stage
           resume == IF work[t] = "none" /\ op.stage = "manual_repair_required" /\ op.resume \notin RollingBack
                     THEN "materializing_loss" ELSE op.resume
<1>1. op' = [op EXCEPT !.stage = stage, !.resume = resume]
  BY DEF RegisterLate, OpRow
<1>2. stage \in Stages /\ resume \in {"none"} \cup Working
  BY DEF OpRow, Stages, Working
<1> HIDE DEF stage, resume
<1>3. /\ op' \in OpRow /\ op'.stage = stage /\ op'.resume = resume
      /\ op'.plan = op.plan /\ op'.replayed = op.replayed /\ op'.existed = op.existed
  BY <1>1, <1>2 DEF OpRow
<1>4. QED
  BY <1>3 DEF stage, resume

\* Every completed operation has its record.
LEMMA EndedRows ==
  ASSUME ended \in Seq(EndedRow)
  PROVE  DOMAIN ended = 1 .. Len(ended) /\ \A i \in DOMAIN ended : ended[i] \in EndedRow
BY LenProperties, ElementOfSeq

\* A request at a shard keeps the shape of its row and of its barrier.
LEMMA ShardTypes ==
  ASSUME ControlTypes, ActorTypes, ShardNext
  PROVE  ControlTypes' /\ ActorTypes'
<1> USE BoundsAreNat
<1>1. ControlTypes'
  BY ShardFrame DEF ControlTypes, control
<1>2. UNCHANGED <<row, visit>>
  BY ShardFrame
<1>3. ASSUME NEW s \in Shards, NEW what, NEW t, Admit(s, what, t),
             <<what, t>> \in Held
      PROVE  ActorTypes'
  BY <1>3 DEF Admit, ActorTypes
<1>4. ASSUME NEW s \in Shards, NEW certify \in BOOLEAN, Mutate(s, certify)
      PROVE  ActorTypes'
  <2> DEFINE db == Applied(shard[s].db, hold[s][1], hold[s][2])
  <2>1. shard[s] \in ShardRow /\ hold[s] \in Held /\ hold[s] # Free /\ Free \in Held
    BY <1>4 DEF Mutate, ActorTypes, Free, Held
  <2>2. (hold[s][1] \in {"prepare", "commit", "abort"} /\ hold[s][2] \in Txs) \/ hold[s][1] = "write"
    BY <2>1 DEF Held, Free
  <2>3. db \in Databases
    BY <2>1, <2>2 DEF Applied, ShardRow, Databases, TxStatus
  <2>4. Certified([shard[s] EXCEPT !.db = db], certify) \in ShardRow
    BY <2>1, <2>3 DEF Certified, ShardRow
  <2>5. shard' \in [Shards -> ShardRow]
    BY <1>4, <2>4 DEF Mutate, ActorTypes
  <2>6. QED
    BY <1>2, <1>4, <2>1, <2>5 DEF Mutate, ActorTypes
<1>5. ASSUME NEW s \in Shards, RestartShard(s)
      PROVE  ActorTypes'
  <2>1. Restarted(s, shard[s]) \in ShardRow /\ Free \in Held
    BY RestartedRow DEF ActorTypes, Free, Held
  <2>2. QED
    BY <1>2, <1>5, <2>1 DEF RestartShard, ActorTypes
<1>6. QED
  BY <1>1, <1>3, <1>4, <1>5 DEF ShardNext, Held

\* A coordinator's visit keeps the shapes of rows, inventory and registry.
LEMMA CoordinatorTypes ==
  ASSUME ControlTypes, ActorTypes, WorkTrue, CoordinatorNext
  PROVE  ControlTypes' /\ ActorTypes'
<1>1. PICK t \in Txs : \/ RegisterNew(t) \/ AskGate(t) \/ BeginRow(t) \/ Vote(t)
                       \/ \E by \in {"request", "alarm"} : RegisterLate(t, by) \/ RegisterOpen(t, by)
                       \/ DecideCommit(t) \/ DecideAbort(t) \/ DiscardMissed(t) \/ Leave(t)
  BY DEF CoordinatorNext
<1>2. UNCHANGED <<part, undo, losses, ended, cutoff, restores, shard, hold, acked, faults>>
  BY CoordinatorFrame
<1>3. op' \in OpRow /\ work' \in [Txs -> WorkStatus] /\ registry' \subseteq Txs /\ stray' \in BOOLEAN
  <2>1. CASE \E by \in {"request", "alarm"} : RegisterLate(t, by)
    BY <2>1, LateFields DEF RegisterLate, ControlTypes, WorkStatus
  <2>2. CASE RegisterNew(t) \/ AskGate(t) \/ \E by \in {"request", "alarm"} : RegisterOpen(t, by)
    BY <2>2 DEF RegisterNew, AskGate, RegisterOpen, ControlTypes
  <2>3. CASE BeginRow(t) \/ Vote(t) \/ DecideCommit(t) \/ DecideAbort(t) \/ DiscardMissed(t) \/ Leave(t)
    BY <2>3 DEF BeginRow, Vote, DecideCommit, DecideAbort, DiscardMissed, Leave, Permitted, control, ControlTypes
  <2>4. QED
    BY <1>1, <2>1, <2>2, <2>3
<1>4. visit' \in [Txs -> Visit]
  BY <1>1 DEF RegisterNew, AskGate, BeginRow, Vote, RegisterLate, RegisterOpen, DecideCommit,
     DecideAbort, DiscardMissed, Leave, Permitted, ActorTypes, Visit, Idle
<1>5. row' \in [Txs -> TxRow]
  <2>1. CASE DiscardMissed(t)
    <3>1. ended \in Seq(EndedRow) /\ Missed(t) # {}
      BY <2>1 DEF DiscardMissed, WorkTrue, ControlTypes
    <3>2. First(Missed(t)) \in Missed(t)
      BY <3>1, FirstOfMissed
    <3>3. ended[First(Missed(t))] \in EndedRow
      BY <3>1, <3>2, EndedRows DEF Missed
    <3>4. QED
      BY <2>1, <3>3 DEF DiscardMissed, ActorTypes, TxRow, EndedRow
  <2>2. CASE ~DiscardMissed(t)
    BY <1>1, <2>2 DEF RegisterNew, AskGate, BeginRow, Vote, RegisterLate, RegisterOpen, DecideCommit,
       DecideAbort, Leave, Permitted, ActorTypes, TxRow, TxStatus
  <2>3. QED
    BY <2>1, <2>2
<1>6. QED
  BY <1>2, <1>3, <1>4, <1>5 DEF ControlTypes, ActorTypes

-----------------------------------------------------------------------------
(* What the steps of an operation make of a shard. *)

Elsewhere(s) == \A r \in Shards \ {s} : shard'[r] = shard[r]
Same(s) == shard'[s] = shard[s]
\* All but the database and what it has certified.
OnlyMark(s, mark) ==
  /\ shard'[s].mark = mark
  /\ shard'[s].db = shard[s].db /\ shard'[s].last = shard[s].last /\ shard'[s].target = shard[s].target
  /\ shard'[s].armed = shard[s].armed /\ shard'[s].head = shard[s].head

\* A fence changes the marker only.
LEMMA FenceEffect ==
  ASSUME shard \in [Shards -> ShardRow], NEW s \in Shards, NEW mark \in Marks,
         shard' = [shard EXCEPT ![s] = LocalFence(@, mark)]
  PROVE  shard' \in [Shards -> ShardRow] /\ Elsewhere(s) /\ OnlyMark(s, mark)
<1>1. shard[s] \in ShardRow
  OBVIOUS
<1>2. /\ LocalFence(shard[s], mark) \in ShardRow
      /\ LocalFence(shard[s], mark) = [shard[s] EXCEPT !.mark = mark]
  BY <1>1 DEF LocalFence, ShardRow
<1>3. shard'[s] = [shard[s] EXCEPT !.mark = mark]
  BY <1>2
<1>4. OnlyMark(s, mark)
  BY <1>1, <1>3 DEF OnlyMark, ShardRow
<1>5. QED
  BY <1>2, <1>4 DEF Elsewhere

\* A failed restore lifts the first fences.
LEMMA FailEffect ==
  ASSUME shard \in [Shards -> ShardRow], NEW upto \in Nat, FailBeforeRestore(upto)
  PROVE  /\ shard' \in [Shards -> ShardRow]
         /\ \A s \in Shards : OnlyMark(s, IF s <= upto THEN "none" ELSE shard[s].mark)
<1>1. shard' = [s \in Shards |-> IF s <= upto THEN LocalFence(shard[s], "none") ELSE shard[s]]
  BY DEF FailBeforeRestore
<1>2. SUFFICES ASSUME NEW s \in Shards
      PROVE  shard'[s] \in ShardRow /\ OnlyMark(s, IF s <= upto THEN "none" ELSE shard[s].mark)
  BY <1>1
<1>3. shard[s] \in ShardRow /\ "none" \in Marks
  BY DEF Marks
<1>4. CASE s <= upto
  <2>1. shard'[s] = [shard[s] EXCEPT !.mark = "none"]
    BY <1>1, <1>4 DEF LocalFence
  <2>2. QED
    BY <1>3, <1>4, <2>1 DEF OnlyMark, ShardRow
<1>5. CASE ~(s <= upto)
  BY <1>1, <1>3, <1>5 DEF OnlyMark, ShardRow
<1>6. QED
  BY <1>4, <1>5

\* An arming names the bookmark, a target's also the head.
ArmedWith(s, bookmark, mark) ==
  /\ shard'[s].armed = bookmark /\ shard'[s].mark = mark
  /\ shard'[s].db = shard[s].db /\ shard'[s].last = shard[s].last /\ shard'[s].target = shard[s].target
  /\ shard'[s].head = IF bookmark = "target" THEN shard[s].db ELSE shard[s].head

\* Staging arms the bookmark it is given, once: a shard that has the marker
\* already is left as it is.
LEMMA StagedEffect ==
  ASSUME shard \in [Shards -> ShardRow], NEW s \in Shards, NEW marker \in {Forward, Backward},
         NEW bookmark \in {"target", "undo"}, NEW answer, Staged(s, marker, bookmark, answer)
  PROVE  /\ shard' \in [Shards -> ShardRow] /\ Elsewhere(s)
         /\ shard[s].mark = marker.done => Same(s)
         /\ shard[s].mark # marker.done =>
              ArmedWith(s, bookmark, IF answer = "unsure" THEN marker.begun ELSE marker.done)
<1>1. CASE shard[s].mark = marker.done
  BY <1>1 DEF Staged, Elsewhere, Same
<1>2. CASE shard[s].mark # marker.done
  <2> DEFINE mark == IF answer = "unsure" THEN marker.begun ELSE marker.done
             head == IF bookmark = "target" THEN shard[s].db ELSE shard[s].head
  <2>1. mark \in Marks
    BY DEF Forward, Backward, Marks
  <2>2. shard[s] \in ShardRow /\ head \in Databases
    BY DEF ShardRow
  <2>3. shard' = [shard EXCEPT ![s].armed = bookmark,
                               ![s].head = IF bookmark = "target" THEN shard[s].db ELSE @, ![s].mark = mark]
    BY <1>2 DEF Staged
  <2> HIDE DEF mark
  <2>4. shard' = [shard EXCEPT ![s] = [shard[s] EXCEPT !.armed = bookmark, !.head = head, !.mark = mark]]
    BY <2>2, <2>3 DEF ShardRow
  <2> HIDE DEF head
  <2>5. [shard[s] EXCEPT !.armed = bookmark, !.head = head, !.mark = mark] \in ShardRow
    BY <2>1, <2>2 DEF ShardRow
  <2>6. shard'[s] = [shard[s] EXCEPT !.armed = bookmark, !.head = head, !.mark = mark]
    BY <2>4
  <2>7. /\ shard'[s].armed = bookmark /\ shard'[s].mark = mark /\ shard'[s].head = head
        /\ shard'[s].db = shard[s].db /\ shard'[s].last = shard[s].last /\ shard'[s].target = shard[s].target
    BY <2>2, <2>6 DEF ShardRow
  <2>8. ArmedWith(s, bookmark, mark)
    BY <2>7 DEF ArmedWith, head
  <2>9. QED
    BY <1>2, <2>4, <2>5, <2>8 DEF mark, Elsewhere
<1>3. QED
  BY <1>1, <1>2

\* A restart takes what was armed.
RewoundTo(s) ==
  /\ shard'[s].mark = "none" /\ shard'[s].armed = "none"
  /\ shard'[s].db = shard[s].target /\ shard'[s].last = shard[s].target
  /\ shard'[s].target = shard[s].target /\ shard'[s].head = shard[s].head
UndoneTo(s) ==
  /\ shard'[s].mark = "staging" /\ shard'[s].armed = "none"
  /\ shard'[s].db = shard[s].head /\ shard'[s].last = shard[s].last
  /\ shard'[s].target = shard[s].target /\ shard'[s].head = shard[s].head

\* A session that starts comes up at what the provider was armed with, or as
\* it was.
LEMMA RestartEffect ==
  ASSUME shard \in [Shards -> ShardRow], NEW s \in Shards, NEW sh \in ShardRow,
         sh.db = shard[s].db, sh.last = shard[s].last, sh.target = shard[s].target,
         sh.armed = shard[s].armed, sh.head = shard[s].head,
         shard' = [shard EXCEPT ![s] = Restarted(s, sh)]
  PROVE  /\ shard' \in [Shards -> ShardRow] /\ Elsewhere(s)
         /\ shard[s].armed = "target" => RewoundTo(s)
         /\ shard[s].armed = "undo" => UndoneTo(s)
         /\ shard[s].armed = "none" => shard'[s] = sh
<1>1. Restarted(s, sh) \in ShardRow /\ shard'[s] = Restarted(s, sh)
  BY RestartedRow
<1>2. Elsewhere(s) /\ shard' \in [Shards -> ShardRow]
  BY <1>1 DEF Elsewhere
<1>3. ASSUME shard[s].armed = "target" PROVE RewoundTo(s)
  <2>1. shard'[s] = [sh EXCEPT !.db = sh.target, !.last = sh.target, !.mark = "none", !.armed = "none"]
    BY <1>1, <1>3 DEF Restarted
  <2>2. QED
    BY <2>1 DEF RewoundTo, ShardRow
<1>4. ASSUME shard[s].armed = "undo" PROVE UndoneTo(s)
  <2>1. shard'[s] = [sh EXCEPT !.db = sh.head, !.mark = "staging", !.armed = "none"]
    BY <1>1, <1>4 DEF Restarted
  <2>2. QED
    BY <2>1 DEF UndoneTo, ShardRow
<1>5. ASSUME shard[s].armed = "none" PROVE shard'[s] = sh
  BY <1>1, <1>5 DEF Restarted
<1>6. QED
  BY <1>2, <1>3, <1>4, <1>5

\* Activation restarts a shard that has the marker asked for, and no other.
LEMMA AppliedEffect ==
  ASSUME shard \in [Shards -> ShardRow], NEW s \in Shards, NEW mark \in Marks, NEW ok, Applied1(s, mark, ok)
  PROVE  /\ shard' \in [Shards -> ShardRow] /\ Elsewhere(s)
         /\ ~ok \/ shard[s].mark # mark => Same(s)
         /\ ok /\ shard[s].mark = mark =>
              /\ shard[s].armed = "target" => RewoundTo(s)
              /\ shard[s].armed = "undo" => UndoneTo(s)
              /\ shard[s].armed = "none" => OnlyMark(s, "applying")
<1>1. CASE ok /\ shard[s].mark = mark
  <2> DEFINE sh == [shard[s] EXCEPT !.mark = "applying"]
  <2>1. shard[s] \in ShardRow /\ "applying" \in Marks
    BY DEF Marks
  <2>2. /\ sh \in ShardRow /\ sh.mark = "applying"
        /\ sh.db = shard[s].db /\ sh.last = shard[s].last /\ sh.target = shard[s].target
        /\ sh.armed = shard[s].armed /\ sh.head = shard[s].head
    BY <2>1 DEF ShardRow
  <2>3. shard' = [shard EXCEPT ![s] = Restarted(s, sh)]
    BY <1>1 DEF Applied1
  <2> HIDE DEF sh
  <2>4. QED
    BY <1>1, <2>2, <2>3, RestartEffect DEF OnlyMark
<1>2. CASE ~(ok /\ shard[s].mark = mark)
  BY <1>2 DEF Applied1, Elsewhere, Same
<1>3. QED
  BY <1>1, <1>2

\* A decision at a shard changes the state of one transaction there.
OnlyTx(s, t, status) ==
  /\ shard'[s].db.w = shard[s].db.w /\ shard'[s].db.tx[t] = status
  /\ \A u \in Txs \ {t} : shard'[s].db.tx[u] = shard[s].db.tx[u]
  /\ shard'[s].last = shard[s].last /\ shard'[s].target = shard[s].target
  /\ shard'[s].mark = shard[s].mark
  /\ shard'[s].armed = shard[s].armed /\ shard'[s].head = shard[s].head

WithTx(sh, t, status) == [sh EXCEPT !.db.tx[t] = status]

\* A transaction's status is written for that transaction alone.
LEMMA TxEffect ==
  ASSUME NEW sh \in ShardRow, NEW t \in Txs, NEW status \in TxStatus
  PROVE  LET to == WithTx(sh, t, status) IN
         /\ to \in ShardRow /\ to.db.w = sh.db.w /\ to.db.tx[t] = status
         /\ \A u \in Txs \ {t} : to.db.tx[u] = sh.db.tx[u]
         /\ to.last = sh.last /\ to.target = sh.target /\ to.mark = sh.mark
         /\ to.armed = sh.armed /\ to.head = sh.head
<1> DEFINE db == [sh.db EXCEPT !.tx = [sh.db.tx EXCEPT ![t] = status]]
           to == WithTx(sh, t, status)
<1>1. sh.db \in Databases
  BY DEF ShardRow
<1>2. db \in Databases /\ db.w = sh.db.w /\ db.tx[t] = status /\ \A u \in Txs \ {t} : db.tx[u] = sh.db.tx[u]
  BY <1>1 DEF Databases
<1>3. to = [sh EXCEPT !.db = db]
  BY <1>1 DEF ShardRow, Databases, WithTx
<1> HIDE DEF db, to
<1>4. to \in ShardRow /\ to.db = db /\ to.last = sh.last /\ to.target = sh.target /\ to.mark = sh.mark
      /\ to.armed = sh.armed /\ to.head = sh.head
  BY <1>2, <1>3 DEF ShardRow
<1>5. QED
  BY <1>2, <1>4 DEF to

\* A replay commits a transaction at the first shards.
LEMMA ReconcileEffect ==
  ASSUME shard \in [Shards -> ShardRow], NEW t \in Txs, NEW upto \in Nat, ReconcileTransaction(t, upto)
  PROVE  /\ shard' \in [Shards -> ShardRow]
         /\ \A s \in Shards : IF s <= upto THEN OnlyTx(s, t, "committed") ELSE Same(s)
<1>1. shard' = [s \in Shards |-> IF s <= upto THEN Replayed(shard[s], t) ELSE shard[s]]
  BY DEF ReconcileTransaction
<1>2. SUFFICES ASSUME NEW s \in Shards
      PROVE  shard'[s] \in ShardRow /\ IF s <= upto THEN OnlyTx(s, t, "committed") ELSE Same(s)
  BY <1>1
<1>3. shard[s] \in ShardRow /\ "committed" \in TxStatus
  BY DEF TxStatus
<1>4. CASE s <= upto
  <2>1. shard'[s] = WithTx(shard[s], t, "committed")
    BY <1>1, <1>4 DEF Replayed, WithTx
  <2>2. QED
    BY <1>3, <1>4, <2>1, TxEffect DEF OnlyTx
<1>5. CASE ~(s <= upto)
  BY <1>1, <1>3, <1>5 DEF Same
<1>6. QED
  BY <1>4, <1>5

\* A discard aborts a transaction at every shard that has not committed it.
LEMMA DiscardEffect ==
  ASSUME shard \in [Shards -> ShardRow], NEW t \in Txs, NEW ok, DiscardCoordinator(t, ok)
  PROVE  /\ shard' \in [Shards -> ShardRow]
         /\ \A s \in Shards : OnlyTx(s, t, IF shard[s].db.tx[t] = "committed" THEN "committed" ELSE "aborted")
<1>1. shard' = [s \in Shards |-> AbortedForRestore(shard[s], t)]
  BY DEF DiscardCoordinator
<1>2. SUFFICES ASSUME NEW s \in Shards
      PROVE  /\ shard'[s] \in ShardRow
             /\ OnlyTx(s, t, IF shard[s].db.tx[t] = "committed" THEN "committed" ELSE "aborted")
  BY <1>1
<1> DEFINE status == IF shard[s].db.tx[t] = "committed" THEN "committed" ELSE "aborted"
<1>3. shard[s] \in ShardRow /\ status \in TxStatus
  BY DEF TxStatus
<1>4. shard'[s] = WithTx(shard[s], t, status)
  BY <1>1, <1>3 DEF AbortedForRestore, ShardRow, Databases, WithTx
<1> HIDE DEF status
<1>5. shard'[s] \in ShardRow /\ OnlyTx(s, t, status)
  BY <1>3, <1>4, TxEffect DEF OnlyTx
<1>6. QED
  BY <1>5 DEF status

\* The checkpoints a preview names.
LEMMA CutoffEffect ==
  ASSUME shard \in [Shards -> ShardRow], PassCutoff
  PROVE  /\ shard' \in [Shards -> ShardRow]
         /\ \A s \in Shards : /\ shard'[s].target = shard[s].last
                              /\ shard'[s].db = shard[s].db /\ shard'[s].last = shard[s].last
                              /\ shard'[s].mark = shard[s].mark
                              /\ shard'[s].armed = shard[s].armed /\ shard'[s].head = shard[s].head
<1>1. shard' = [s \in Shards |-> [shard[s] EXCEPT !.target = shard[s].last]]
  BY DEF PassCutoff
<1>2. \A s \in Shards : shard[s] \in ShardRow /\ shard'[s] = [shard[s] EXCEPT !.target = shard[s].last]
  BY <1>1
<1>3. QED
  BY <1>1, <1>2 DEF ShardRow

\* What a request makes of a shard that is not fenced.
Outcome(what) == CASE what = "prepare" -> "prepared" [] what = "commit" -> "committed" [] what = "abort" -> "aborted"
Served(s) ==
  \/ /\ hold[s] = <<"write", "none">> /\ acked' = acked \cup {s}
     /\ shard'[s].db.w = TRUE /\ shard'[s].db.tx = shard[s].db.tx
  \/ \E what \in {"prepare", "commit", "abort"}, t \in Txs :
     /\ hold[s] = <<what, t>> /\ acked' = acked
     /\ shard'[s].db.w = shard[s].db.w /\ shard'[s].db.tx[t] = Outcome(what)
     /\ \A u \in Txs \ {t} : shard'[s].db.tx[u] = shard[s].db.tx[u]

\* A request that reaches a fenced shard changes nothing; any other is served.
LEMMA MutateEffect ==
  ASSUME ActorTypes, NEW s \in Shards, NEW certify \in BOOLEAN, Mutate(s, certify)
  PROVE  /\ Elsewhere(s)
         /\ shard[s].mark # "none" => Same(s) /\ acked' = acked
         /\ shard[s].mark = "none" =>
              /\ Served(s)
              /\ shard'[s].last \in {shard[s].last, shard'[s].db}
              /\ shard'[s].target = shard[s].target /\ shard'[s].mark = shard[s].mark
              /\ shard'[s].armed = shard[s].armed /\ shard'[s].head = shard[s].head
<1> USE DEF ActorTypes
<1>1. CASE shard[s].mark # "none"
  BY <1>1 DEF Mutate, Elsewhere, Same
<1>2. CASE shard[s].mark = "none"
  <2> DEFINE db == Applied(shard[s].db, hold[s][1], hold[s][2])
             sh == [shard[s] EXCEPT !.db = db]
  <2>0. shard \in [Shards -> ShardRow]
    OBVIOUS
  <2>1. /\ shard' = [shard EXCEPT ![s] = Certified([shard[s] EXCEPT !.db = db], certify)]
        /\ acked' = IF hold[s][1] = "write" THEN acked \cup {s} ELSE acked
    BY <1>2 DEF Mutate
  <2>2. shard[s] \in ShardRow /\ hold[s] \in Held /\ hold[s] # Free
    BY DEF Mutate
  <2>3. CASE hold[s] = <<"write", "none">>
    <3>1. db = [shard[s].db EXCEPT !.w = TRUE] /\ acked' = acked \cup {s}
      BY <2>1, <2>3 DEF Applied
    <3>2. db \in Databases /\ db.w = TRUE /\ db.tx = shard[s].db.tx
      BY <2>2, <3>1 DEF ShardRow, Databases
    <3> HIDE DEF db
    <3>3. /\ shard'[s].db = db /\ shard'[s].last \in {shard[s].last, db}
          /\ shard'[s].target = shard[s].target /\ shard'[s].mark = shard[s].mark
          /\ shard'[s].armed = shard[s].armed /\ shard'[s].head = shard[s].head
      BY <2>1, <2>2, <3>2 DEF Certified, ShardRow
    <3>4. QED
      BY <1>2, <2>1, <2>3, <3>1, <3>2, <3>3 DEF Served, Elsewhere
  <2>4. ASSUME NEW what \in {"prepare", "commit", "abort"}, NEW t \in Txs, hold[s] = <<what, t>>
        PROVE  /\ Served(s) /\ Elsewhere(s) /\ shard'[s].last \in {shard[s].last, shard'[s].db}
               /\ shard'[s].target = shard[s].target /\ shard'[s].mark = shard[s].mark
               /\ shard'[s].armed = shard[s].armed /\ shard'[s].head = shard[s].head
    <3>1. db = [shard[s].db EXCEPT !.tx[t] = Outcome(what)] /\ acked' = acked
      BY <2>1, <2>4 DEF Applied, Outcome
    <3>2. Outcome(what) \in TxStatus
      BY DEF Outcome, TxStatus
    <3> HIDE DEF db, ActorTypes
    <3>3. /\ db \in Databases /\ db.w = shard[s].db.w /\ db.tx[t] = Outcome(what)
          /\ \A u \in Txs \ {t} : db.tx[u] = shard[s].db.tx[u]
      BY <2>2, <3>1, <3>2 DEF ShardRow, Databases
    <3>4. /\ shard'[s].db = db /\ shard'[s].last \in {shard[s].last, db}
          /\ shard'[s].target = shard[s].target /\ shard'[s].mark = shard[s].mark
          /\ shard'[s].armed = shard[s].armed /\ shard'[s].head = shard[s].head
      BY <2>0, <2>1, <2>2, <3>3 DEF Certified, ShardRow
    <3>5. Served(s)
      BY <2>4, <3>1, <3>3, <3>4 DEF Served
    <3>6. QED
      BY <2>0, <2>1, <3>4, <3>5 DEF Elsewhere
  <2>5. hold[s] = <<"write", "none">> \/ \E what \in {"prepare", "commit", "abort"}, t \in Txs : hold[s] = <<what, t>>
    BY <2>2 DEF Held, Free
  <2> HIDE DEF ActorTypes
  <2>6. QED
    BY <1>2, <2>3, <2>4, <2>5
<1>3. QED
  BY <1>1, <1>2

-----------------------------------------------------------------------------
(* What the steps of an operation make of its row, and the types. *)

\* Everything an operation's row keeps but its stage.
SameRow == /\ op'.plan = op.plan /\ op'.replayed = op.replayed /\ op'.existed = op.existed

\* An operation that goes on changes its stage and keeps the rest of its row.
LEMMA GotoEffect ==
  ASSUME op \in OpRow, NEW stage \in Stages, Goto(stage)
  PROVE  op' \in OpRow /\ op'.stage = stage /\ op'.resume = op.resume /\ SameRow
BY DEF Goto, OpRow, SameRow

\* A parked operation remembers the stage to resume.
LEMMA ParkEffect ==
  ASSUME op \in OpRow, NEW blocker \in {"retryable", "conflict"}, op.stage \in Working, Park(blocker)
  PROVE  /\ op' \in OpRow /\ op'.stage = "manual_repair_required" /\ op'.resume = op.stage /\ SameRow
         /\ gate' = "manual_repair_required"
<1>1. "manual_repair_required" \in Stages
  BY DEF Stages
<1>2. QED
  BY <1>1 DEF Park, OpRow, SameRow

\* A retry goes on at the stage the operation was parked in.
LEMMA ResumeEffect ==
  ASSUME op \in OpRow, op.resume # "none", Resume
  PROVE  op' \in OpRow /\ op'.stage = op.resume /\ op'.resume = "none" /\ SameRow
<1>1. op.resume \in Stages
  BY DEF OpRow, Stages
<1>2. QED
  BY <1>1 DEF Resume, OpRow, SameRow

\* A rollback starts at its first stage, with nothing left to resume.
LEMMA RollbackEffect ==
  ASSUME op \in OpRow, Rollback
  PROVE  op' \in OpRow /\ op'.stage = "rollback_participants" /\ op'.resume = "none" /\ SameRow
<1>1. "rollback_participants" \in Stages
  BY DEF Stages, Working, RollingBack
<1>2. QED
  BY <1>1 DEF Rollback, OpRow, SameRow

\* A failure before the restore opens the gate if every fence was lifted,
\* and parks otherwise.
LEMMA FailBeforeOp ==
  ASSUME op \in OpRow, NEW upto, FailBeforeRestore(upto)
  PROVE  /\ op' \in OpRow /\ SameRow
         /\ IF upto = Cardinality(Shards)
            THEN op'.stage = "failed" /\ op'.resume = op.resume /\ gate' = "open"
            ELSE op'.stage = "manual_repair_required" /\ op'.resume = op.stage /\ gate' = "manual_repair_required"
<1>1. {"failed", "manual_repair_required"} \subseteq Stages /\ op.stage \in Working
  BY DEF Stages, Over, FailBeforeRestore, Working, Fencing
<1>2. CASE upto = Cardinality(Shards)
  BY <1>1, <1>2, GotoEffect DEF FailBeforeRestore
<1>3. CASE upto # Cardinality(Shards)
  <2>1. /\ op' = [op EXCEPT !.stage = "manual_repair_required", !.resume = op.stage, !.blocker = "retryable"]
        /\ gate' = "manual_repair_required"
    BY <1>3 DEF FailBeforeRestore
  <2>2. QED
    BY <1>1, <1>3, <2>1 DEF OpRow, SameRow
<1>4. QED
  BY <1>2, <1>3

\* A replay that reached every shard is recorded.
LEMMA ReconcileOp ==
  ASSUME op \in OpRow, NEW t \in Txs, NEW upto, ReconcileTransaction(t, upto)
  PROVE  /\ op' \in OpRow /\ op'.stage = op.stage /\ op'.resume = op.resume
         /\ op'.plan = op.plan /\ op'.existed = op.existed
         /\ op'.replayed = IF upto = Cardinality(Shards) THEN op.replayed \cup {t} ELSE op.replayed
BY DEF ReconcileTransaction, OpRow

\* A discard that another operation made first is a conflict.
LEMMA DiscardOp ==
  ASSUME op \in OpRow, NEW t \in Txs, NEW ok, DiscardCoordinator(t, ok)
  PROVE  /\ op' \in OpRow /\ SameRow
         /\ IF row[t].discard \notin {0, restores}
            THEN op'.stage = "manual_repair_required" /\ op'.resume = op.stage /\ gate' = "manual_repair_required"
            ELSE UNCHANGED <<op, gate>>
<1>1. op.stage = "discarding_coordinators" /\ op.stage \in Working
  BY DEF DiscardCoordinator, Working, Restoring
<1>2. CASE row[t].discard \notin {0, restores}
  <2>1. Park("conflict")
    BY <1>2 DEF DiscardCoordinator
  <2>2. QED
    BY <1>1, <1>2, <2>1, ParkEffect
<1>3. CASE row[t].discard \in {0, restores}
  BY <1>3 DEF DiscardCoordinator, SameRow
<1>4. QED
  BY <1>2, <1>3

\* The row of the operation keeps its shape.
LEMMA OperationRow ==
  ASSUME ControlTypes, StageTrue, PreviewNext \/ RestoreNext \/ RollbackNext1
  PROVE  op' \in OpRow
<1> USE DEF ControlTypes
<1>1. {"enumerating_manifest", "previewing_participants", "previewed", "fencing_participants",
       "materializing_loss", "restoring_participants", "reconciling", "verifying_participants",
       "discarding_coordinators", "releasing_participants", "complete", "failed",
       "rollback_releasing_participants", "rolled_back"} \subseteq Stages
  BY DEF Stages, Over, Working, Previewing, Fencing, Restoring, RollingBack
<1>2. ASSUME NEW stage \in Stages, Goto(stage) PROVE op' \in OpRow
  BY <1>2, GotoEffect
<1>3. CASE PreviewNext
  <2>1. CASE Preview \/ EnumerateManifest \/ Execute
    <3>1. {"closing_manifest", "materializing_envelopes", "fencing_catalogs"} \subseteq Stages
      BY DEF Stages, Working, Previewing, Fencing
    <3>2. op.stage \in Stages /\ cutoff.decided \subseteq Txs
      BY DEF OpRow
    <3>3. CASE Preview
      BY <3>1, <3>3 DEF Preview, OpRow
    <3>4. CASE EnumerateManifest
      <4>1. cutoff.decided \ DiscardedBefore \in SUBSET Txs
        BY <3>2
      <4>2. QED
        BY <3>1, <3>4, <4>1 DEF EnumerateManifest, OpRow
    <3>5. CASE Execute
      <4>1. {t \in Txs : row[t].state # "none"} \in SUBSET Txs
        OBVIOUS
      <4>2. QED
        BY <3>1, <3>5, <4>1 DEF Execute, OpRow
    <3>6. QED
      BY <2>1, <3>3, <3>4, <3>5
  <2>2. CASE CloseManifest \/ MaterializeEnvelopes \/ FinalizePlan
    BY <1>1, <1>2, <2>2 DEF CloseManifest, MaterializeEnvelopes, FinalizePlan
  <2>3. CASE PassCutoff \/ MoveTopology \/ \E s \in Shards : PreviewParticipant(s)
    BY <2>3 DEF PassCutoff, MoveTopology, PreviewParticipant
  <2>4. QED
    BY <1>3, <2>1, <2>2, <2>3 DEF PreviewNext
<1>4. CASE RestoreNext
  <2>1. CASE FenceCatalogs \/ RevalidationEnds \/ LossMaterialized \/ ParticipantsRestored
             \/ TransactionsReconciled \/ ParticipantsVerified \/ CoordinatorsDiscarded \/ CompleteRestore
    BY <1>1, <1>2, <2>1 DEF FenceCatalogs, RevalidationEnds, LossMaterialized, ParticipantsRestored,
       TransactionsReconciled, ParticipantsVerified, CoordinatorsDiscarded, CompleteRestore
  <2>2. CASE \E late \in BOOLEAN : FencingEnds(late)
    <3>1. "revalidating_participants" \in Stages
      BY DEF Stages, Working, Fencing
    <3>2. QED
      BY <2>2, <3>1 DEF FencingEnds, OpRow
  <2>3. CASE \/ \E s \in Shards : RevalidateParticipant(s) \/ MaterializeShardLoss(s) \/ VerifyParticipant(s)
             \/ \E s \in Shards, ok \in BOOLEAN : FenceParticipant(s, ok) \/ ActivateParticipant(s, ok)
                                                  \/ VerifyActivation(s, ok) \/ ReleaseParticipant(s, ok)
             \/ \E t \in Txs : MaterializeCoordinatorLoss(t)
    BY <2>3 DEF RevalidateParticipant, MaterializeShardLoss, VerifyParticipant, FenceParticipant,
       ActivateParticipant, VerifyActivation, ReleaseParticipant, MaterializeCoordinatorLoss
  <2>4. ASSUME NEW s \in Shards, NEW answer \in {"ok", "lost", "unsure"}, StageParticipant(s, answer)
        PROVE  op' \in OpRow
    <3>1. op.stage \in Working
      BY <2>4 DEF StageParticipant, Restores, Working, Restoring
    <3>2. QED
      BY <2>4, <3>1, ParkEffect DEF StageParticipant
  <2>5. CASE \E upto \in Prefixes : FailBeforeRestore(upto)
    BY <2>5, FailBeforeOp
  <2>6. CASE \E t \in Txs, upto \in Prefixes : ReconcileTransaction(t, upto)
    BY <2>6, ReconcileOp
  <2>7. CASE \E t \in Txs, ok \in BOOLEAN : DiscardCoordinator(t, ok)
    BY <2>7, DiscardOp
  <2>8. QED
    BY <1>4, <2>1, <2>2, <2>3, <2>4, <2>5, <2>6, <2>7 DEF RestoreNext
<1>5. CASE RollbackNext1
  <2>1. CASE RetriesRunOut
    BY <1>1, <1>2, <2>1, ParkEffect DEF RetriesRunOut
  <2>2. CASE Resume
    <3>1. op.resume # "none"
      BY <2>2 DEF Resume, StageTrue, ClosedStages, Fencing, Restoring, RollingBack
    <3>2. QED
      BY <2>2, <3>1, ResumeEffect
  <2>3. CASE Rollback
    BY <2>3, RollbackEffect
  <2>4. CASE ParticipantsUndone \/ CompleteRollback
    BY <1>1, <1>2, <2>4 DEF ParticipantsUndone, CompleteRollback
  <2>5. ASSUME NEW s \in Shards, NEW answer \in {"ok", "lost", "unsure"}, UndoParticipant(s, answer)
        PROVE  op' \in OpRow
    <3>1. op.stage \in Working
      BY <2>5 DEF UndoParticipant, Undoes, Working, RollingBack
    <3>2. QED
      BY <2>5, <3>1, ParkEffect DEF UndoParticipant
  <2>6. CASE \E s \in Shards, ok \in BOOLEAN : ActivateUndo(s, ok) \/ VerifyUndo(s, ok) \/ ReleaseUndone(s, ok)
    BY <2>6 DEF ActivateUndo, VerifyUndo, ReleaseUndone
  <2>7. QED
    BY <1>5, <2>1, <2>2, <2>3, <2>4, <2>5, <2>6 DEF RollbackNext1
<1>6. QED
  BY <1>3, <1>4, <1>5

\* The other tables of the coordinator keep their shape.
LEMMA OperationTables ==
  ASSUME ControlTypes, ActorTypes, StageTrue, PreviewNext \/ RestoreNext \/ RollbackNext1
  PROVE  /\ part' \in [Shards -> PartStatus] /\ undo' \subseteq Shards
         /\ work' \in [Txs -> WorkStatus] /\ losses' \subseteq Shards \cup Txs
         /\ ended' \in Seq(EndedRow) /\ cutoff' \in [set : BOOLEAN, decided : SUBSET Txs]
         /\ stray' \in BOOLEAN /\ restores' \in 0 .. MaxRestores
<1> USE DEF ControlTypes
<1>1. CASE PreviewNext
  <2>1. CASE PassCutoff
    <3>1. {t \in Txs : row[t].state = "committed"} \in SUBSET Txs
      OBVIOUS
    <3>2. QED
      BY <2>1, <3>1 DEF PassCutoff
  <2>2. CASE Preview
    BY <2>2, BoundsAreNat DEF Preview, NoWork, WorkStatus, PartStatus
  <2>3. CASE Execute
    BY <2>3 DEF Execute, WorkStatus
  <2>4. CASE CloseManifest \/ EnumerateManifest \/ MaterializeEnvelopes \/ FinalizePlan \/ MoveTopology
             \/ \E s \in Shards : PreviewParticipant(s)
    BY <2>4 DEF CloseManifest, EnumerateManifest, MaterializeEnvelopes, FinalizePlan, MoveTopology,
       PreviewParticipant, PartStatus
  <2>5. QED
    BY <1>1, <2>1, <2>2, <2>3, <2>4 DEF PreviewNext
<1>2. CASE RestoreNext
  <2>1. CASE FenceCatalogs \/ RevalidationEnds \/ LossMaterialized \/ ParticipantsRestored
             \/ TransactionsReconciled \/ ParticipantsVerified \/ CoordinatorsDiscarded
             \/ (\E late \in BOOLEAN : FencingEnds(late))
             \/ (\E upto \in Prefixes : FailBeforeRestore(upto))
             \/ (\E t \in Txs, upto \in Prefixes : ReconcileTransaction(t, upto))
    BY <2>1 DEF FenceCatalogs, RevalidationEnds, LossMaterialized, ParticipantsRestored,
       TransactionsReconciled, ParticipantsVerified, CoordinatorsDiscarded, FencingEnds,
       FailBeforeRestore, ReconcileTransaction
  <2>2. CASE CompleteRestore
    <3>1. [id |-> restores, work |-> work, existed |-> op.existed, decided |-> cutoff.decided] \in EndedRow
      BY BoundsAreNat DEF EndedRow, OpRow
    <3>2. ended' \in Seq(EndedRow)
      BY <2>2, <3>1, AppendProperties DEF CompleteRestore
    <3>3. QED
      BY <2>2, <3>2 DEF CompleteRestore
  <2>3. CASE \E s \in Shards : RevalidateParticipant(s) \/ MaterializeShardLoss(s) \/ VerifyParticipant(s)
    BY <2>3 DEF RevalidateParticipant, MaterializeShardLoss, VerifyParticipant, PartStatus
  <2>4. CASE \E s \in Shards, ok \in BOOLEAN : FenceParticipant(s, ok) \/ ActivateParticipant(s, ok)
                                                \/ VerifyActivation(s, ok) \/ ReleaseParticipant(s, ok)
    BY <2>4 DEF FenceParticipant, ActivateParticipant, VerifyActivation, ReleaseParticipant, PartStatus
  <2>5. ASSUME NEW s \in Shards, NEW answer \in {"ok", "lost", "unsure"}, StageParticipant(s, answer)
        PROVE  /\ part' \in [Shards -> PartStatus] /\ undo' \subseteq Shards /\ stray' \in BOOLEAN
               /\ UNCHANGED <<work, losses, ended, cutoff, restores>>
    <3>1. stray' \in BOOLEAN
      BY <2>5 DEF StageParticipant
    <3>2. part' \in [Shards -> PartStatus] /\ undo' \subseteq Shards
      BY <2>5 DEF StageParticipant, PartStatus
    <3>3. QED
      BY <2>5, <3>1, <3>2 DEF StageParticipant
  <2>6. CASE \E t \in Txs : MaterializeCoordinatorLoss(t)
    BY <2>6 DEF MaterializeCoordinatorLoss, WorkStatus
  <2>7. CASE \E t \in Txs, ok \in BOOLEAN : DiscardCoordinator(t, ok)
    BY <2>7 DEF DiscardCoordinator, WorkStatus
  <2>8. QED
    BY <1>2, <2>1, <2>2, <2>3, <2>4, <2>5, <2>6, <2>7 DEF RestoreNext
<1>3. CASE RollbackNext1
  <2>0. CASE Rollback
    <3>1. stray' \in BOOLEAN
      BY <2>0 DEF Rollback
    <3>2. part' \in [Shards -> PartStatus]
      BY <2>0 DEF Rollback, PartStatus
    <3>3. QED
      BY <2>0, <3>1, <3>2 DEF Rollback
  <2>1. CASE RetriesRunOut \/ Resume \/ ParticipantsUndone \/ CompleteRollback
    BY <2>1 DEF RetriesRunOut, Resume, ParticipantsUndone, CompleteRollback
  <2>2. CASE \E s \in Shards, answer \in {"ok", "lost", "unsure"} : UndoParticipant(s, answer)
    BY <2>2 DEF UndoParticipant, PartStatus
  <2>3. CASE \E s \in Shards, ok \in BOOLEAN : ActivateUndo(s, ok) \/ VerifyUndo(s, ok) \/ ReleaseUndone(s, ok)
    BY <2>3 DEF ActivateUndo, VerifyUndo, ReleaseUndone, PartStatus
  <2>4. QED
    BY <1>3, <2>0, <2>1, <2>2, <2>3 DEF RollbackNext1
<1>4. QED
  BY <1>1, <1>2, <1>3

\* Shards and coordinators keep their shape.
LEMMA OperationActors ==
  ASSUME ControlTypes, ActorTypes, PreviewNext \/ RestoreNext \/ RollbackNext1
  PROVE  shard' \in [Shards -> ShardRow] /\ row' \in [Txs -> TxRow] /\ faults' \in 0 .. MaxFaults
<1> USE DEF ActorTypes
<1>0. {"none", "install", "staged", "undo-staged"} \subseteq Marks /\ Prefixes \subseteq Nat
  BY DEF Marks, Prefixes
<1>1. CASE PreviewNext
  <2>1. UNCHANGED <<row, faults>>
    BY <1>1 DEF PreviewNext, PassCutoff, Preview, CloseManifest, EnumerateManifest, MaterializeEnvelopes,
       PreviewParticipant, FinalizePlan, MoveTopology, Execute, actors
  <2>2. CASE PassCutoff
    BY <2>1, <2>2, CutoffEffect
  <2>3. CASE ~PassCutoff
    <3>1. UNCHANGED shard
      BY <1>1, <2>3 DEF PreviewNext, Preview, CloseManifest, EnumerateManifest, MaterializeEnvelopes,
         PreviewParticipant, FinalizePlan, MoveTopology, Execute, actors
    <3>2. QED
      BY <2>1, <3>1
  <2>4. QED
    BY <2>2, <2>3
<1>2. CASE RestoreNext
  <2>1. CASE FenceCatalogs \/ RevalidationEnds \/ LossMaterialized \/ ParticipantsRestored
             \/ TransactionsReconciled \/ ParticipantsVerified \/ CoordinatorsDiscarded \/ CompleteRestore
             \/ (\E late \in BOOLEAN : FencingEnds(late))
             \/ (\E s \in Shards : RevalidateParticipant(s) \/ MaterializeShardLoss(s) \/ VerifyParticipant(s))
             \/ \E t \in Txs : MaterializeCoordinatorLoss(t)
    BY <2>1 DEF FenceCatalogs, RevalidationEnds, LossMaterialized, ParticipantsRestored,
       TransactionsReconciled, ParticipantsVerified, CoordinatorsDiscarded, CompleteRestore, FencingEnds,
       RevalidateParticipant, MaterializeShardLoss, VerifyParticipant, MaterializeCoordinatorLoss, actors
  <2>2. ASSUME NEW ok, Answered(ok) PROVE faults' \in 0 .. MaxFaults
    BY <2>2, BoundsAreNat DEF Answered
  <2>3. ASSUME NEW s \in Shards, NEW ok \in BOOLEAN, \/ FenceParticipant(s, ok) \/ ActivateParticipant(s, ok)
                                                     \/ VerifyActivation(s, ok) \/ ReleaseParticipant(s, ok)
        PROVE  shard' \in [Shards -> ShardRow] /\ UNCHANGED row /\ faults' \in 0 .. MaxFaults
    <3>1. UNCHANGED row /\ Answered(ok)
      BY <2>3 DEF FenceParticipant, ActivateParticipant, VerifyActivation, ReleaseParticipant
    <3>2. CASE FenceParticipant(s, ok)
      BY <1>0, <2>2, <3>1, <3>2, FenceEffect DEF FenceParticipant
    <3>3. CASE ReleaseParticipant(s, ok)
      BY <1>0, <2>2, <3>1, <3>3, FenceEffect DEF ReleaseParticipant
    <3>4. CASE ActivateParticipant(s, ok)
      BY <1>0, <2>2, <3>1, <3>4, AppliedEffect DEF ActivateParticipant
    <3>5. CASE VerifyActivation(s, ok)
      BY <1>0, <2>2, <3>1, <3>5, AppliedEffect DEF VerifyActivation
    <3>6. QED
      BY <2>3, <3>2, <3>3, <3>4, <3>5
  <2>4. ASSUME NEW s \in Shards, NEW answer \in {"ok", "lost", "unsure"}, StageParticipant(s, answer)
        PROVE  shard' \in [Shards -> ShardRow] /\ UNCHANGED row /\ faults' \in 0 .. MaxFaults
    <3>1. UNCHANGED row /\ faults' \in 0 .. MaxFaults
      BY <2>2, <2>4 DEF StageParticipant
    <3>2. QED
      BY <2>4, <3>1, StagedEffect DEF StageParticipant
  <2>5. ASSUME NEW upto \in Prefixes, FailBeforeRestore(upto)
        PROVE  shard' \in [Shards -> ShardRow] /\ UNCHANGED row /\ faults' \in 0 .. MaxFaults
    <3>1. UNCHANGED row /\ faults' \in 0 .. MaxFaults
      BY <2>2, <2>5 DEF FailBeforeRestore
    <3>2. QED
      BY <1>0, <2>5, <3>1, FailEffect
  <2>6. ASSUME NEW t \in Txs, NEW upto \in Prefixes, ReconcileTransaction(t, upto)
        PROVE  shard' \in [Shards -> ShardRow] /\ UNCHANGED row /\ faults' \in 0 .. MaxFaults
    <3>1. UNCHANGED row /\ faults' \in 0 .. MaxFaults
      BY <2>2, <2>6 DEF ReconcileTransaction
    <3>2. QED
      BY <1>0, <2>6, <3>1, ReconcileEffect
  <2>7. ASSUME NEW t \in Txs, NEW ok \in BOOLEAN, DiscardCoordinator(t, ok)
        PROVE  shard' \in [Shards -> ShardRow] /\ row' \in [Txs -> TxRow] /\ faults' \in 0 .. MaxFaults
    <3>1. faults' \in 0 .. MaxFaults
      BY <2>2, <2>7 DEF DiscardCoordinator
    <3>2. restores \in Nat
      BY BoundsAreNat DEF ControlTypes
    <3>3. row' \in [Txs -> TxRow]
      BY <2>7, <3>2 DEF DiscardCoordinator, TxRow
    <3>4. QED
      BY <2>7, <3>1, <3>3, DiscardEffect
  <2>8. QED
    BY <1>2, <2>1, <2>3, <2>4, <2>5, <2>6, <2>7 DEF RestoreNext
<1>3. CASE RollbackNext1
  <2>0. UNCHANGED row
    BY <1>3 DEF RollbackNext1, RetriesRunOut, Resume, Rollback, ParticipantsUndone, CompleteRollback,
       UndoParticipant, ActivateUndo, VerifyUndo, ReleaseUndone, actors
  <2>1. CASE Resume \/ Rollback \/ ParticipantsUndone \/ CompleteRollback
    BY <2>1 DEF Resume, Rollback, ParticipantsUndone, CompleteRollback, actors
  <2>2. ASSUME NEW ok, Answered(ok) PROVE faults' \in 0 .. MaxFaults
    BY <2>2, BoundsAreNat DEF Answered
  <2>3. CASE RetriesRunOut
    BY <2>2, <2>3 DEF RetriesRunOut, actors
  <2>4. ASSUME NEW s \in Shards, NEW answer \in {"ok", "lost", "unsure"}, UndoParticipant(s, answer)
        PROVE  shard' \in [Shards -> ShardRow] /\ faults' \in 0 .. MaxFaults
    <3>1. faults' \in 0 .. MaxFaults
      BY <2>2, <2>4 DEF UndoParticipant
    <3>2. QED
      BY <2>4, <3>1, StagedEffect DEF UndoParticipant
  <2>5. ASSUME NEW s \in Shards, NEW ok \in BOOLEAN, ActivateUndo(s, ok) \/ VerifyUndo(s, ok) \/ ReleaseUndone(s, ok)
        PROVE  shard' \in [Shards -> ShardRow] /\ faults' \in 0 .. MaxFaults
    <3>1. faults' \in 0 .. MaxFaults
      BY <2>2, <2>5 DEF ActivateUndo, VerifyUndo, ReleaseUndone
    <3>2. CASE ReleaseUndone(s, ok)
      BY <1>0, <3>1, <3>2, FenceEffect DEF ReleaseUndone
    <3>3. CASE ActivateUndo(s, ok) \/ VerifyUndo(s, ok)
      BY <1>0, <3>1, <3>3, AppliedEffect DEF ActivateUndo, VerifyUndo
    <3>4. QED
      BY <2>5, <3>2, <3>3
  <2>6. QED
    BY <1>3, <2>0, <2>1, <2>3, <2>4, <2>5 DEF RollbackNext1
<1>4. QED
  BY <1>1, <1>2, <1>3

\* Every step keeps the shapes of the tables.
LEMMA TypesStep ==
  ASSUME ControlTypes, ActorTypes, StageTrue, WorkTrue, [Next]_vars
  PROVE  ControlTypes' /\ ActorTypes'
<1>1. CASE ShardNext
  BY <1>1, ShardTypes
<1>2. CASE CoordinatorNext
  BY <1>2, CoordinatorTypes
<1>3. CASE PreviewNext \/ RestoreNext \/ RollbackNext1
  BY <1>3, OperationRow, OperationTables, OperationActors, OperationFrame DEF ControlTypes, ActorTypes
<1>4. CASE UNCHANGED vars
  BY <1>4 DEF vars, control, actors, ControlTypes, ActorTypes
<1>5. QED
  BY <1>1, <1>2, <1>3, <1>4 DEF Next

-----------------------------------------------------------------------------
(* Stages. *)

\* The steps after which an operation is where it was.
Quiet == UNCHANGED <<op, gate, restores>>
\* A step that leaves the operation alone leaves gate and stage agreeing.
LEMMA QuietStage ==
  ASSUME StageTrue, Quiet
  PROVE  StageTrue'
BY DEF StageTrue, Quiet, Closed

\* An operation that goes on agrees with the gate if its new stage does.
LEMMA GotoStage ==
  ASSUME op \in OpRow, StageTrue, NEW stage \in Stages, Goto(stage), UNCHANGED restores,
         op.stage \notin {"none", "manual_repair_required"}, stage \notin {"none", "manual_repair_required"},
         gate' # "open" <=> stage \notin Over \cup Previewing \cup {"previewed"}
  PROVE  StageTrue' /\ At = op.stage /\ At' = stage
<1>1. op'.stage = stage /\ op'.resume = op.resume
  BY GotoEffect
<1>2. QED
  BY <1>1 DEF StageTrue, Closed, At

\* A parked operation counts as being where it will go on.
LEMMA ParkStage ==
  ASSUME StageTrue, op.stage \in ClosedStages, UNCHANGED restores,
         op'.stage = "manual_repair_required", op'.resume = op.stage, gate' = "manual_repair_required"
  PROVE  StageTrue' /\ At = op.stage /\ At' = op.stage /\ Closed /\ Closed'
<1>1. "manual_repair_required" \notin Over \cup Previewing \cup {"previewed"} \cup ClosedStages
  BY DEF Over, Previewing, ClosedStages, Fencing, Restoring, RollingBack
<1>2. "none" \notin ClosedStages /\ op.stage \notin Over \cup Previewing \cup {"previewed"}
  BY DEF Over, Previewing, ClosedStages, Fencing, Restoring, RollingBack
<1>3. QED
  BY <1>1, <1>2 DEF StageTrue, Closed, At

\* A retry leaves the operation where it counted as being.
LEMMA ResumeStage ==
  ASSUME op \in OpRow, StageTrue, Resume
  PROVE  StageTrue' /\ At' = At /\ Closed /\ Closed' /\ SameRow
<1>1. op.stage = "manual_repair_required" /\ op.resume \in ClosedStages /\ UNCHANGED <<gate, restores>>
  BY DEF Resume, StageTrue
<1>2. {"none", "manual_repair_required"} \cap ClosedStages = {}
      /\ ClosedStages \cap (Over \cup Previewing \cup {"previewed"}) = {}
      /\ "manual_repair_required" \notin Over \cup Previewing \cup {"previewed"}
  BY DEF Over, Previewing, ClosedStages, Fencing, Restoring, RollingBack
<1>3. op'.stage = op.resume /\ op'.resume = "none" /\ SameRow
  BY <1>1, <1>2, ResumeEffect
<1>4. QED
  BY <1>1, <1>2, <1>3 DEF StageTrue, Closed, At

\* A late registration sends a restore back to the losses.
LEMMA LateStage ==
  ASSUME op \in OpRow, StageTrue, NEW t \in Txs, NEW by, RegisterLate(t, by)
  PROVE  /\ StageTrue' /\ Closed /\ Closed' /\ SameRow
         /\ At' = At \/ (At' = "materializing_loss" /\ work[t] = "none" /\ At \in ClosedStages \ RollingBack)
         /\ At # "releasing_participants"
<1> USE DEF At, Closed
<1>1. /\ op'.stage = IF work[t] = "none" /\ op.stage \in Restoring THEN "materializing_loss" ELSE op.stage
      /\ op'.resume = IF work[t] = "none" /\ op.stage = "manual_repair_required" /\ op.resume \notin RollingBack
                      THEN "materializing_loss" ELSE op.resume
      /\ SameRow
  BY LateFields DEF SameRow
<1>2. Closed /\ UNCHANGED <<gate, restores>> /\ "releasing_participants" \notin {op.stage, op.resume}
  BY DEF RegisterLate
<1>3. /\ "materializing_loss" \in ClosedStages /\ "manual_repair_required" \notin Restoring
      /\ Restoring \subseteq ClosedStages \ RollingBack
      /\ Restoring \cap (Over \cup Previewing \cup {"previewed"}) = {}
      /\ "materializing_loss" \notin Over \cup Previewing \cup {"previewed", "manual_repair_required", "none"}
      /\ "none" \notin Restoring
  BY DEF ClosedStages, Restoring, RollingBack, Fencing, Over, Previewing
<1>4. StageTrue'
  BY <1>1, <1>2, <1>3 DEF StageTrue
<1>5. At' = At \/ (At' = "materializing_loss" /\ work[t] = "none" /\ At \in ClosedStages \ RollingBack)
  BY <1>1, <1>2, <1>3 DEF StageTrue
<1>6. QED
  BY <1>1, <1>2, <1>4, <1>5

\* Requests and coordinators leave the operation alone, but for a late
\* registration.
LEMMA QuietSteps ==
  ASSUME \/ ShardNext
         \/ CoordinatorNext /\ ~(\E t \in Txs, by \in {"request", "alarm"} : RegisterLate(t, by))
  PROVE  Quiet
<1>1. CASE ShardNext
  BY <1>1, ShardFrame DEF Quiet, control
<1>2. CASE CoordinatorNext /\ ~(\E t \in Txs, by \in {"request", "alarm"} : RegisterLate(t, by))
  BY <1>2, CoordinatorFrame DEF Quiet, CoordinatorNext, RegisterNew, AskGate, BeginRow, Vote, RegisterOpen, DecideCommit,
       DecideAbort, DiscardMissed, Leave, Permitted, control
<1>3. QED
  BY <1>1, <1>2

\* Where each step of a preview leads.
LEMMA PreviewStages ==
  ASSUME ControlTypes, StageTrue
  PROVE  /\ Preview => /\ StageTrue' /\ ~Closed /\ ~Closed' /\ At' = "closing_manifest" /\ At \in Over
         /\ CloseManifest => StageTrue' /\ ~Closed /\ ~Closed' /\ At' = "enumerating_manifest" /\ At = "closing_manifest" /\ SameRow
         /\ EnumerateManifest => /\ StageTrue' /\ ~Closed /\ ~Closed' /\ At' = "materializing_envelopes"
                                 /\ At = "enumerating_manifest"
         /\ MaterializeEnvelopes => /\ StageTrue' /\ ~Closed /\ ~Closed' /\ At' = "previewing_participants"
                                    /\ At = "materializing_envelopes" /\ SameRow
         /\ FinalizePlan => StageTrue' /\ ~Closed /\ ~Closed' /\ At' = "previewed" /\ At = "previewing_participants" /\ SameRow
         /\ Execute => StageTrue' /\ ~Closed /\ Closed' /\ At' = "fencing_catalogs" /\ At = "previewed"
                       /\ op'.plan = op.plan /\ op'.replayed = op.replayed
<1> USE DEF ControlTypes
<1>0. /\ {"enumerating_manifest", "previewing_participants", "previewed"} \subseteq Stages \cap (Previewing \cup {"previewed"})
      /\ {"closing_manifest", "enumerating_manifest", "materializing_envelopes", "previewing_participants"} \subseteq Previewing
      /\ "fencing_catalogs" \notin Over \cup Previewing \cup {"previewed"}
      /\ "manual_repair_required" \notin Over \cup Previewing \cup {"previewed"}
      /\ "none" \notin Previewing
  BY DEF Stages, Over, Working, Previewing
<1>1. CASE Preview
  <2>1. op.stage \in Over /\ op'.stage = "closing_manifest" /\ op'.resume = "none" /\ UNCHANGED gate
        /\ restores' = restores + 1 /\ restores \in Nat
    BY <1>1, BoundsAreNat DEF Preview
  <2>2. QED
    BY <1>0, <1>1, <2>1 DEF StageTrue, Closed, At, CloseManifest, EnumerateManifest, MaterializeEnvelopes, FinalizePlan, Execute, Over
<1>2. CASE EnumerateManifest
  <2>1. op.stage = "enumerating_manifest" /\ op'.stage = "materializing_envelopes" /\ op'.resume = op.resume /\ UNCHANGED <<gate, restores>>
    BY <1>2 DEF EnumerateManifest, OpRow
  <2>2. QED
    BY <1>0, <1>2, <2>1 DEF StageTrue, Closed, At, Preview, CloseManifest, MaterializeEnvelopes, FinalizePlan, Execute, Over
<1>3. CASE Execute
  <2>1. op.stage = "previewed" /\ op'.stage = "fencing_catalogs" /\ op'.resume = op.resume /\ op'.plan = op.plan
        /\ op'.replayed = op.replayed /\ gate = "open" /\ gate' = "fencing" /\ UNCHANGED restores
    BY <1>3 DEF Execute, OpRow
  <2>2. QED
    BY <1>0, <1>3, <2>1 DEF StageTrue, Closed, At, Preview, CloseManifest, EnumerateManifest, MaterializeEnvelopes, FinalizePlan, Over
<1>4. ASSUME NEW from, NEW to \in Stages, from \in Previewing, to \in Previewing \cup {"previewed"}, op.stage = from, Goto(to), UNCHANGED <<gate, restores>>
      PROVE  StageTrue' /\ ~Closed /\ ~Closed' /\ At' = to /\ At = from /\ SameRow
  <2>1. op'.stage = to /\ op'.resume = op.resume /\ SameRow
    BY <1>4, GotoEffect
  <2>2. QED
    BY <1>0, <1>4, <2>1 DEF StageTrue, Closed, At, Over
<1>5. CASE CloseManifest
  BY <1>0, <1>4, <1>5 DEF CloseManifest, Preview, EnumerateManifest, MaterializeEnvelopes, FinalizePlan, Execute, Over
<1>6. CASE MaterializeEnvelopes
  BY <1>0, <1>4, <1>6 DEF CloseManifest, Preview, EnumerateManifest, MaterializeEnvelopes, FinalizePlan, Execute, Over
<1>7. CASE FinalizePlan
  BY <1>0, <1>4, <1>7 DEF CloseManifest, Preview, EnumerateManifest, MaterializeEnvelopes, FinalizePlan, Execute, Over
<1>8. QED
  BY <1>1, <1>2, <1>3, <1>5, <1>6, <1>7

\* Where an operation can be.
LEMMA WhereItIs ==
  ASSUME op \in OpRow, StageTrue
  PROVE  /\ Closed => At \in ClosedStages
         /\ ~Closed => At = op.stage /\ At \in Over \cup Previewing \cup {"previewed"}
BY DEF StageTrue, Closed, At, OpRow, Stages, Working, ClosedStages, Over, Previewing

\* Where each step of a restore leads.
LEMMA RestoreStages ==
  ASSUME ControlTypes, StageTrue
  PROVE  /\ FenceCatalogs => StageTrue' /\ Closed /\ Closed' /\ At = "fencing_catalogs" /\ At' = "fencing_participants" /\ SameRow
         /\ RevalidationEnds => StageTrue' /\ Closed /\ Closed' /\ At = "revalidating_participants" /\ At' = "materializing_loss" /\ SameRow
         /\ LossMaterialized => StageTrue' /\ Closed /\ Closed' /\ At = "materializing_loss" /\ At' = "restoring_participants" /\ SameRow
         /\ ParticipantsRestored => StageTrue' /\ Closed /\ Closed' /\ At = "restoring_participants" /\ At' = "reconciling" /\ SameRow
         /\ TransactionsReconciled => StageTrue' /\ Closed /\ Closed' /\ At = "reconciling" /\ At' = "verifying_participants" /\ SameRow
         /\ ParticipantsVerified => StageTrue' /\ Closed /\ Closed' /\ At = "verifying_participants" /\ At' = "discarding_coordinators" /\ SameRow
         /\ CoordinatorsDiscarded => StageTrue' /\ Closed /\ Closed' /\ At = "discarding_coordinators" /\ At' = "releasing_participants" /\ SameRow
         /\ CompleteRestore => StageTrue' /\ Closed /\ ~Closed' /\ At = "releasing_participants" /\ At' = "complete" /\ SameRow
<1> USE DEF ControlTypes
<1>0. /\ {"fencing_participants", "materializing_loss", "restoring_participants", "reconciling",
          "verifying_participants", "discarding_coordinators", "releasing_participants"}
           \subseteq Stages \cap (ClosedStages \ (Over \cup Previewing \cup {"previewed"}))
      /\ {"fencing_catalogs", "revalidating_participants"} \subseteq ClosedStages
      /\ "complete" \in Over /\ "complete" \in Stages
      /\ ClosedStages \cap (Over \cup Previewing \cup {"previewed", "manual_repair_required", "none"}) = {}
  BY DEF Stages, Over, Working, Previewing, ClosedStages, Fencing, Restoring, RollingBack
<1>1. ASSUME NEW from \in ClosedStages, NEW to \in Stages \ {"none", "manual_repair_required"}, op.stage = from, Goto(to),
             gate' # "open" <=> to \notin Over \cup Previewing \cup {"previewed"}, UNCHANGED restores
      PROVE  StageTrue' /\ Closed /\ At = from /\ At' = to /\ SameRow
  <2>1. StageTrue' /\ At = from /\ At' = to /\ SameRow
    BY <1>0, <1>1, GotoStage, GotoEffect
  <2>2. QED
    BY <1>0, <1>1, <2>1 DEF StageTrue
<1>2. FenceCatalogs => StageTrue' /\ Closed /\ Closed' /\ At = "fencing_catalogs" /\ At' = "fencing_participants" /\ SameRow
  BY <1>0, <1>1 DEF FenceCatalogs, StageTrue, Closed
<1>3. RevalidationEnds => StageTrue' /\ Closed /\ Closed' /\ At = "revalidating_participants" /\ At' = "materializing_loss" /\ SameRow
  BY <1>0, <1>1 DEF RevalidationEnds, Closed
<1>4. LossMaterialized => StageTrue' /\ Closed /\ Closed' /\ At = "materializing_loss" /\ At' = "restoring_participants" /\ SameRow
  BY <1>0, <1>1 DEF LossMaterialized, StageTrue, Closed
<1>5. ParticipantsRestored => StageTrue' /\ Closed /\ Closed' /\ At = "restoring_participants" /\ At' = "reconciling" /\ SameRow
  BY <1>0, <1>1 DEF ParticipantsRestored, Closed
<1>6. TransactionsReconciled => StageTrue' /\ Closed /\ Closed' /\ At = "reconciling" /\ At' = "verifying_participants" /\ SameRow
  BY <1>0, <1>1 DEF TransactionsReconciled, Closed
<1>7. ParticipantsVerified => StageTrue' /\ Closed /\ Closed' /\ At = "verifying_participants" /\ At' = "discarding_coordinators" /\ SameRow
  BY <1>0, <1>1 DEF ParticipantsVerified, StageTrue, Closed
<1>8. CoordinatorsDiscarded => StageTrue' /\ Closed /\ Closed' /\ At = "discarding_coordinators" /\ At' = "releasing_participants" /\ SameRow
  BY <1>0, <1>1 DEF CoordinatorsDiscarded, StageTrue, Closed
<1>9. CompleteRestore => StageTrue' /\ Closed /\ ~Closed' /\ At = "releasing_participants" /\ At' = "complete" /\ SameRow
  BY <1>0, <1>1 DEF CompleteRestore, Closed
<1>10. QED
  BY <1>2, <1>3, <1>4, <1>5, <1>6, <1>7, <1>8, <1>9

\* Fencing ends when no participant is left that was only previewed.
LEMMA FencingEndsStage ==
  ASSUME ControlTypes, StageTrue, NEW late, FencingEnds(late)
  PROVE  /\ StageTrue' /\ Closed /\ Closed' /\ At = "fencing_participants" /\ SameRow
         /\ At' \in {"fencing_participants", "revalidating_participants"}
         /\ At' = "revalidating_participants" => With({"previewed"}) = {}
<1>1. /\ op.stage = "fencing_participants" /\ op'.resume = op.resume /\ SameRow /\ UNCHANGED <<gate, restores>>
      /\ op'.stage = IF late THEN "fencing_participants" ELSE "revalidating_participants"
      /\ With({"previewed"}) = {}
  BY DEF FencingEnds, ControlTypes, OpRow, SameRow
<1>2. QED
  BY <1>1 DEF StageTrue, Closed, At, Over, Previewing

\* A restore whose plan is stale ends, or is parked.
LEMMA FailBeforeStage ==
  ASSUME ControlTypes, StageTrue, NEW upto, FailBeforeRestore(upto)
  PROVE  /\ StageTrue' /\ Closed /\ At \in {"fencing_catalogs", "fencing_participants"} /\ SameRow
         /\ upto = Cardinality(Shards) => ~Closed' /\ At' = "failed"
         /\ upto # Cardinality(Shards) => Closed' /\ At' = At
<1> USE DEF ControlTypes
<1>1. op.stage \in {"fencing_catalogs", "fencing_participants"} /\ UNCHANGED restores
  BY DEF FailBeforeRestore
<1>2. Closed /\ op.stage \in ClosedStages /\ At = op.stage /\ op.resume = "none"
  BY <1>1 DEF StageTrue, Closed, Over, Previewing, ClosedStages, Fencing, At
<1>3. CASE upto = Cardinality(Shards)
  BY <1>1, <1>2, <1>3, FailBeforeOp DEF StageTrue, Closed, Over, Previewing, At
<1>4. CASE upto # Cardinality(Shards)
  BY <1>1, <1>2, <1>4, FailBeforeOp, ParkStage
<1>5. QED
  BY <1>2, <1>3, <1>4, FailBeforeOp

\* Staging a participant keeps the operation among its losses' stages.
LEMMA StageParticipantStage ==
  ASSUME ControlTypes, StageTrue, NEW s, NEW answer, StageParticipant(s, answer)
  PROVE  StageTrue' /\ Closed /\ Closed' /\ At = "restoring_participants" /\ At' = At /\ SameRow
<1> USE DEF ControlTypes
<1>1. op.stage = "restoring_participants" /\ UNCHANGED restores
  BY DEF StageParticipant, Restores
<1>2. op.stage \in Working /\ op.stage \in ClosedStages /\ Closed /\ At = op.stage
  BY <1>1 DEF Working, Restoring, ClosedStages, StageTrue, Closed, Over, Previewing, At
<1>3. Park("conflict") \/ UNCHANGED <<op, gate>>
  BY DEF StageParticipant
<1>4. CASE Park("conflict")
  BY <1>1, <1>2, <1>4, ParkEffect, ParkStage
<1>5. CASE UNCHANGED <<op, gate>>
  BY <1>1, <1>2, <1>5 DEF StageTrue, Closed, At, SameRow
<1>6. QED
  BY <1>3, <1>4, <1>5

\* Undoing a participant keeps the operation rolling back.
LEMMA UndoParticipantStage ==
  ASSUME ControlTypes, StageTrue, NEW s, NEW answer, UndoParticipant(s, answer)
  PROVE  StageTrue' /\ Closed /\ Closed' /\ At = "rollback_participants" /\ At' = At /\ SameRow
<1> USE DEF ControlTypes
<1>1. op.stage = "rollback_participants" /\ UNCHANGED restores
  BY DEF UndoParticipant, Undoes
<1>2. op.stage \in Working /\ op.stage \in ClosedStages /\ Closed /\ At = op.stage
  BY <1>1 DEF Working, RollingBack, ClosedStages, StageTrue, Closed, Over, Previewing, At
<1>3. Park("conflict") \/ UNCHANGED <<op, gate>>
  BY DEF UndoParticipant
<1>4. CASE Park("conflict")
  BY <1>1, <1>2, <1>4, ParkEffect, ParkStage
<1>5. CASE UNCHANGED <<op, gate>>
  BY <1>1, <1>2, <1>5 DEF StageTrue, Closed, At, SameRow
<1>6. QED
  BY <1>3, <1>4, <1>5

\* A discard leaves the operation where it is, or parks it there.
LEMMA DiscardStage ==
  ASSUME ControlTypes, StageTrue, NEW t \in Txs, NEW ok, DiscardCoordinator(t, ok)
  PROVE  StageTrue' /\ Closed /\ Closed' /\ At = "discarding_coordinators" /\ At' = At /\ SameRow
<1> USE DEF ControlTypes
<1>1. op.stage = "discarding_coordinators" /\ UNCHANGED restores
  BY DEF DiscardCoordinator
<1>2. op.stage \in Working /\ op.stage \in ClosedStages /\ Closed /\ At = op.stage
  BY <1>1 DEF Working, Restoring, ClosedStages, StageTrue, Closed, Over, Previewing, At
<1>3. CASE row[t].discard \notin {0, restores}
  BY <1>1, <1>2, <1>3, DiscardOp, ParkStage
<1>4. CASE row[t].discard \in {0, restores}
  BY <1>1, <1>2, <1>4, DiscardOp DEF StageTrue, Closed, At
<1>5. QED
  BY <1>3, <1>4

\* A replayed transaction leaves the operation where it is, or parks it there.
LEMMA ReconcileStage ==
  ASSUME ControlTypes, StageTrue, NEW t \in Txs, NEW upto, ReconcileTransaction(t, upto)
  PROVE  StageTrue' /\ Closed /\ Closed' /\ At = "reconciling" /\ At' = At
<1>1. op.stage = "reconciling" /\ UNCHANGED <<gate, restores>>
  BY DEF ReconcileTransaction
<1>2. op'.stage = op.stage /\ op'.resume = op.resume
  BY ReconcileOp DEF ControlTypes
<1>3. QED
  BY <1>1, <1>2 DEF StageTrue, Closed, At, Over, Previewing

\* The steps of a restore that leave the operation where it is.
LEMMA RestoreQuiet ==
  /\ \A s \in Shards : RevalidateParticipant(s) \/ MaterializeShardLoss(s) \/ VerifyParticipant(s) => Quiet
  /\ \A s \in Shards, ok \in BOOLEAN :
       FenceParticipant(s, ok) \/ ActivateParticipant(s, ok) \/ VerifyActivation(s, ok) \/ ReleaseParticipant(s, ok) => Quiet
  /\ \A t \in Txs : MaterializeCoordinatorLoss(t) => Quiet
  /\ \A s \in Shards, ok \in BOOLEAN : ActivateUndo(s, ok) \/ VerifyUndo(s, ok) \/ ReleaseUndone(s, ok) => Quiet
  /\ \A s \in Shards : PreviewParticipant(s) => Quiet
  /\ PassCutoff \/ MoveTopology => Quiet
BY DEF RevalidateParticipant, MaterializeShardLoss, VerifyParticipant, FenceParticipant, ActivateParticipant,
   VerifyActivation, ReleaseParticipant, MaterializeCoordinatorLoss, ActivateUndo, VerifyUndo, ReleaseUndone,
   PreviewParticipant, PassCutoff, MoveTopology, Quiet

\* Where each step of a rollback leads.
LEMMA RetriesStage ==
  ASSUME ControlTypes, StageTrue, RetriesRunOut
  PROVE  /\ StageTrue' /\ SameRow
         /\ ~Closed => ~Closed' /\ At \in Previewing /\ At' = "failed"
         /\ Closed => Closed' /\ At' = At
<1> USE DEF ControlTypes
<1>1. op.stage \in Working /\ UNCHANGED restores
  BY DEF RetriesRunOut
<1>2. {"none", "manual_repair_required"} \cap Working = {} /\ "failed" \in Stages /\ "failed" \in Over
      /\ Working \cap Over = {} /\ "previewed" \notin Working /\ Working = Previewing \cup ClosedStages
      /\ "failed" \notin {"none", "manual_repair_required"} /\ ClosedStages \cap Previewing = {}
  BY DEF Working, Stages, Over, Previewing, ClosedStages, Fencing, Restoring, RollingBack
<1>3. CASE gate = "open"
  <2>1. Goto("failed") /\ gate' = "open"
    BY <1>3 DEF RetriesRunOut
  <2>2. StageTrue' /\ At = op.stage /\ At' = "failed" /\ SameRow
    BY <1>1, <1>2, <2>1, GotoStage, GotoEffect
  <2>3. QED
    BY <1>1, <1>2, <1>3, <2>1, <2>2 DEF StageTrue, Closed
<1>4. CASE gate # "open"
  <2>1. Park("retryable")
    BY <1>4 DEF RetriesRunOut
  <2>2. op.stage \in ClosedStages
    BY <1>1, <1>2, <1>4 DEF StageTrue, Closed
  <2>3. QED
    BY <1>1, <1>4, <2>1, <2>2, ParkEffect, ParkStage DEF Closed
<1>5. QED
  BY <1>3, <1>4

\* A rollback is accepted of a closed operation that restores, and of no other.
LEMMA RollbackStage ==
  ASSUME ControlTypes, StageTrue, Rollback
  PROVE  /\ StageTrue' /\ Closed /\ Closed' /\ SameRow
         /\ At \in Fencing \cup Losing /\ At' = "rollback_participants"
<1> USE DEF ControlTypes
<1>1. Closed /\ op.stage \notin RollingBack /\ op.resume \notin RollingBack /\ gate' = "rolling_back" /\ UNCHANGED restores
  BY DEF Rollback, Closed
<1>2. op'.stage = "rollback_participants" /\ op'.resume = "none" /\ SameRow
  BY RollbackEffect
<1>3. At \in ClosedStages /\ At \notin RollingBack
  BY <1>1, WhereItIs DEF At
<1>4. op.stage # "none"
  BY <1>1 DEF StageTrue, Over
<1>5. StageTrue' /\ Closed' /\ At' = "rollback_participants"
  BY <1>1, <1>2, <1>4 DEF StageTrue, Closed, At, Over, Previewing
<1>6. QED
  BY <1>1, <1>2, <1>3, <1>5 DEF ClosedStages, Losing

\* An undone operation releases its participants, and then opens the gate.
LEMMA UndoneStages ==
  ASSUME ControlTypes, StageTrue
  PROVE  /\ ParticipantsUndone => /\ StageTrue' /\ Closed /\ Closed' /\ At = "rollback_participants"
                                  /\ At' = "rollback_releasing_participants" /\ SameRow
         /\ CompleteRollback => /\ StageTrue' /\ Closed /\ ~Closed' /\ At = "rollback_releasing_participants"
                                /\ At' = "rolled_back" /\ SameRow
<1> USE DEF ControlTypes
<1>0. /\ {"rollback_releasing_participants", "rolled_back"} \subseteq Stages
      /\ "rollback_participants" \notin Over \cup Previewing \cup {"previewed"}
      /\ "rollback_releasing_participants" \notin Over \cup Previewing \cup {"previewed"} /\ "rolled_back" \in Over
  BY DEF Stages, Over, Working, Previewing, RollingBack
<1>1. ASSUME ParticipantsUndone
      PROVE  /\ StageTrue' /\ Closed /\ Closed' /\ At = "rollback_participants"
             /\ At' = "rollback_releasing_participants" /\ SameRow
  <2>1. op.stage = "rollback_participants" /\ Goto("rollback_releasing_participants") /\ UNCHANGED <<gate, restores>>
    BY <1>1 DEF ParticipantsUndone
  <2>2. Closed /\ Closed'
    BY <1>0, <2>1 DEF StageTrue, Closed
  <2>3. QED
    BY <1>0, <2>1, <2>2, GotoStage, GotoEffect DEF Closed
<1>2. ASSUME CompleteRollback
      PROVE  /\ StageTrue' /\ Closed /\ ~Closed' /\ At = "rollback_releasing_participants"
             /\ At' = "rolled_back" /\ SameRow
  <2>1. op.stage = "rollback_releasing_participants" /\ Goto("rolled_back") /\ gate' = "open" /\ UNCHANGED restores
    BY <1>2 DEF CompleteRollback
  <2>2. Closed /\ ~Closed'
    BY <1>0, <2>1 DEF StageTrue, Closed
  <2>3. QED
    BY <1>0, <2>1, <2>2, GotoStage, GotoEffect DEF Closed
<1>3. QED
  BY <1>1, <1>2

\* Every step keeps gate and stage agreeing.
LEMMA StageStep ==
  ASSUME ControlTypes, StageTrue, [Next]_vars
  PROVE  StageTrue'
<1>1. CASE Quiet
  BY <1>1, QuietStage
<1>2. CASE UNCHANGED vars
  BY <1>1, <1>2 DEF vars, control, Quiet
<1>3. CASE ShardNext
  BY <1>1, <1>3, QuietSteps
<1>4. CASE CoordinatorNext
  BY <1>1, <1>4, QuietSteps, LateStage DEF ControlTypes
<1>5. CASE PreviewNext
  BY <1>1, <1>5, PreviewStages, RestoreQuiet DEF PreviewNext
<1>6. CASE RestoreNext
  BY <1>1, <1>6, RestoreStages, FencingEndsStage, FailBeforeStage, StageParticipantStage, DiscardStage,
     ReconcileStage, RestoreQuiet DEF RestoreNext
<1>7. CASE RollbackNext1
  BY <1>1, <1>7, RetriesStage, ResumeStage, RollbackStage, UndoneStages, UndoParticipantStage, RestoreQuiet
     DEF RollbackNext1, ControlTypes
<1>8. QED
  BY <1>2, <1>3, <1>4, <1>5, <1>6, <1>7 DEF Next

-----------------------------------------------------------------------------
(* Participants. *)

LEMMA PartFrame ==
  ASSUME PartTrue, UNCHANGED <<part, undo, At>>, op'.replayed = op.replayed
  PROVE  PartTrue'
BY DEF PartTrue

\* A step that leaves the operation and the gate alone leaves it where it is.
LEMMA QuietAt ==
  ASSUME Quiet
  PROVE  UNCHANGED <<At, Closed>> /\ SameRow
BY DEF Quiet, At, Closed, SameRow

\* A step of the coordinators leaves the participants alone, one that sends
\* the restore back to its losses included.
LEMMA LatePart ==
  ASSUME ControlTypes, StageTrue, PartTrue, NEW t \in Txs, NEW by, RegisterLate(t, by)
  PROVE  PartTrue'
<1>1. /\ At' = At \/ (At' = "materializing_loss" /\ At \in ClosedStages \ RollingBack)
      /\ At # "releasing_participants" /\ op'.replayed = op.replayed
  BY LateStage DEF ControlTypes, SameRow
<1>2. UNCHANGED <<part, undo>>
  BY DEF RegisterLate
<1>3. CASE At' = At
  BY <1>1, <1>2, <1>3, PartFrame
<1>4. CASE At' = "materializing_loss" /\ At \in ClosedStages \ RollingBack
  <2>1. StatusOf(At) \subseteq Early \cup (Begun \ {"released"})
    BY <1>1, <1>4 DEF StatusOf, Early, Begun, Armed, Back, ClosedStages, Fencing, Restoring, RollingBack
  <2>2. At \in Fencing => StatusOf(At) \subseteq Early
    BY <1>4 DEF StatusOf, Early, Fencing
  <2>3. At \in Fencing \/ At \in Losing
    BY <1>4 DEF ClosedStages, Losing
  <2>4. /\ At' \in Losing /\ At' \notin Previewing \cup {"previewed"} \cup Fencing \cup RollingBack
        /\ StatusOf(At') = Early \cup (Begun \ {"released"})
    BY <1>4 DEF Losing, Previewing, Fencing, RollingBack, StatusOf
  <2>5. Early \cap (Armed \cup Back) = {}
    BY DEF Early, Armed, Back
  <2>6. \A s \in Shards : s \in undo <=> part[s] \in Armed \cup Back
    BY <2>2, <2>3, <2>5 DEF PartTrue
  <2>7. QED
    BY <1>2, <2>1, <2>4, <2>6 DEF PartTrue
<1>5. QED
  BY <1>1, <1>3, <1>4

\* A preview keeps the participants where its stage has them.
LEMMA PreviewPart ==
  ASSUME ControlTypes, StageTrue, PartTrue, PreviewNext
  PROVE  PartTrue'
<1>1. CASE PassCutoff \/ MoveTopology
  <2>1. UNCHANGED <<part, undo>>
    BY <1>1 DEF PassCutoff, MoveTopology
  <2>2. QED
    BY <1>1, <2>1, RestoreQuiet, QuietAt, PartFrame DEF SameRow
<1>2. CASE Preview
  <2>1. At' = "closing_manifest" /\ part' = [s \in Shards |-> "none"] /\ undo' = {} /\ op'.replayed = {}
    BY <1>2, PreviewStages DEF Preview
  <2>2. QED
    BY <2>1 DEF PartTrue, StatusOf, PartStatus, Losing, Restoring, RollingBack
<1>3. CASE CloseManifest
  <2>1. At = "closing_manifest" /\ At' = "enumerating_manifest" /\ part' = [s \in Shards |-> "pending_preview"]
        /\ UNCHANGED undo /\ op'.replayed = op.replayed
    BY <1>3, PreviewStages DEF CloseManifest, SameRow
  <2>2. QED
    BY <2>1 DEF PartTrue, StatusOf, Previewing, Losing, Restoring, RollingBack
<1>4. CASE EnumerateManifest
  <2>1. At = "enumerating_manifest" /\ At' = "materializing_envelopes" /\ UNCHANGED <<part, undo>>
        /\ op'.replayed = op.replayed
    BY <1>4, PreviewStages DEF EnumerateManifest, ControlTypes, OpRow
  <2>2. QED
    BY <2>1 DEF PartTrue, StatusOf, Previewing, Losing, Restoring, RollingBack
<1>5. CASE MaterializeEnvelopes
  <2>1. At = "materializing_envelopes" /\ At' = "previewing_participants" /\ UNCHANGED <<part, undo>>
        /\ op'.replayed = op.replayed
    BY <1>5, PreviewStages DEF MaterializeEnvelopes, SameRow
  <2>2. QED
    BY <2>1 DEF PartTrue, StatusOf, Previewing, Losing, Restoring, RollingBack
<1>6. ASSUME NEW s \in Shards, PreviewParticipant(s)
      PROVE  PartTrue'
  <2>1. At = "previewing_participants" /\ At' = At /\ part' = [part EXCEPT ![s] = "previewed"]
        /\ UNCHANGED undo /\ op'.replayed = op.replayed
    BY <1>6 DEF PreviewParticipant, At
  <2>2. QED
    BY <2>1 DEF PartTrue, StatusOf, Previewing, Losing, Restoring, RollingBack, ControlTypes
<1>7. CASE FinalizePlan
  <2>1. At = "previewing_participants" /\ At' = "previewed" /\ UNCHANGED <<part, undo>>
        /\ op'.replayed = op.replayed /\ With({"pending_preview"}) = {}
    BY <1>7, PreviewStages DEF FinalizePlan, SameRow
  <2>2. QED
    BY <2>1 DEF PartTrue, StatusOf, Previewing, Losing, Restoring, RollingBack, With
<1>8. CASE Execute
  <2>1. At = "previewed" /\ At' = "fencing_catalogs" /\ UNCHANGED <<part, undo>> /\ op'.replayed = op.replayed
    BY <1>8, PreviewStages DEF Execute
  <2>2. QED
    BY <2>1 DEF PartTrue, StatusOf, Fencing, Losing, Restoring, RollingBack
<1>9. QED
  BY <1>1, <1>2, <1>3, <1>4, <1>5, <1>6, <1>7, <1>8 DEF PreviewNext

\* A restore keeps the participants where its stage has them, armed ones
\* with an undo bookmark.
LEMMA RestorePart ==
  ASSUME ControlTypes, StageTrue, PartTrue, RestoreNext
  PROVE  PartTrue'
<1> USE DEF SameRow
<1>0. /\ Fencing \cap (Previewing \cup {"previewed"} \cup Losing \cup RollingBack) = {}
      /\ Losing \cap (Previewing \cup {"previewed"} \cup RollingBack) = {}
  BY DEF Fencing, Previewing, Losing, Restoring, RollingBack
<1>1. CASE FenceCatalogs
  <2>1. At = "fencing_catalogs" /\ At' = "fencing_participants" /\ UNCHANGED <<part, undo>> /\ op'.replayed = op.replayed
    BY <1>1, RestoreStages DEF FenceCatalogs
  <2>2. QED
    BY <1>0, <2>1 DEF PartTrue, StatusOf, Fencing
<1>2. ASSUME NEW late \in BOOLEAN, FencingEnds(late)
      PROVE  PartTrue'
  <2>1. /\ At = "fencing_participants" /\ At' \in {"fencing_participants", "revalidating_participants"}
        /\ At' = "revalidating_participants" => With({"previewed"}) = {}
        /\ UNCHANGED <<part, undo>> /\ op'.replayed = op.replayed
    BY <1>2, FencingEndsStage DEF FencingEnds
  <2>2. QED
    BY <1>0, <2>1 DEF PartTrue, StatusOf, Fencing, With
<1>3. CASE RevalidationEnds
  <2>1. At = "revalidating_participants" /\ At' = "materializing_loss" /\ UNCHANGED <<part, undo>>
        /\ op'.replayed = op.replayed
    BY <1>3, RestoreStages DEF RevalidationEnds
  <2>2. undo = {} /\ \A s \in Shards : part[s] \in {"fenced", "ready"}
    BY <2>1 DEF PartTrue, StatusOf, Fencing
  <2>3. At' \in Losing /\ {"fenced", "ready"} \cap (Armed \cup Back) = {}
    BY <2>1 DEF Losing, Armed, Back
  <2>4. StatusOf(At') = Early \cup (Begun \ {"released"}) /\ {"fenced", "ready"} \subseteq Early
    BY <2>1 DEF StatusOf, Early
  <2>5. QED
    BY <1>0, <2>1, <2>2, <2>3, <2>4 DEF PartTrue, Fencing
<1>4. CASE LossMaterialized
  <2>1. At = "materializing_loss" /\ At' = "restoring_participants" /\ UNCHANGED <<part, undo>>
        /\ op'.replayed = op.replayed /\ With({"ready"}) = {}
    BY <1>4, RestoreStages DEF LossMaterialized
  <2>2. QED
    BY <1>0, <2>1 DEF PartTrue, StatusOf, With, Losing, Restoring, Early, Begun, Fencing
<1>5. CASE ParticipantsRestored
  <2>1. At = "restoring_participants" /\ At' = "reconciling" /\ UNCHANGED <<part, undo>>
        /\ op'.replayed = op.replayed /\ NotRestored = {}
    BY <1>5, RestoreStages DEF ParticipantsRestored
  <2>2. \A s \in Shards : part[s] \in {"restored", "verified"}
    BY <2>1 DEF PartTrue, StatusOf, NotRestored
  <2>3. QED
    BY <1>0, <2>1, <2>2 DEF PartTrue, StatusOf, Losing, Restoring, Fencing
<1>6. CASE TransactionsReconciled
  <2>1. At = "reconciling" /\ At' = "verifying_participants" /\ UNCHANGED <<part, undo>> /\ op'.replayed = op.replayed
    BY <1>6, RestoreStages DEF TransactionsReconciled
  <2>2. QED
    BY <1>0, <2>1 DEF PartTrue, StatusOf, Losing, Restoring, Fencing
<1>7. CASE ParticipantsVerified
  <2>1. At = "verifying_participants" /\ At' = "discarding_coordinators" /\ UNCHANGED <<part, undo>>
        /\ op'.replayed = op.replayed /\ With({"restored"}) = {}
    BY <1>7, RestoreStages DEF ParticipantsVerified
  <2>2. QED
    BY <1>0, <2>1 DEF PartTrue, StatusOf, With, Losing, Restoring, Fencing
<1>8. CASE CoordinatorsDiscarded
  <2>1. At = "discarding_coordinators" /\ At' = "releasing_participants" /\ UNCHANGED <<part, undo>>
        /\ op'.replayed = op.replayed
    BY <1>8, RestoreStages DEF CoordinatorsDiscarded
  <2>2. QED
    BY <1>0, <2>1 DEF PartTrue, StatusOf, Losing, Restoring, Fencing
<1>9. CASE CompleteRestore
  <2>1. At' = "complete" /\ part = [s \in Shards |-> "released"] /\ UNCHANGED part
    BY <1>9, RestoreStages DEF CompleteRestore
  <2>2. QED
    BY <2>1 DEF PartTrue, StatusOf, Previewing, Fencing, Losing, Restoring, RollingBack
<1>10. ASSUME NEW s \in Shards, RevalidateParticipant(s) \/ MaterializeShardLoss(s) \/ VerifyParticipant(s)
       PROVE  PartTrue'
  <2>1. At' = At /\ UNCHANGED undo /\ op'.replayed = op.replayed
    BY <1>10, RestoreQuiet, QuietAt DEF RevalidateParticipant, MaterializeShardLoss, VerifyParticipant
  <2>2. \/ At = "revalidating_participants" /\ part' = [part EXCEPT ![s] = "ready"]
        \/ At = "materializing_loss" /\ part[s] = "ready" /\ part' = [part EXCEPT ![s] = "loss_materialized"]
        \/ At = "verifying_participants" /\ part[s] = "restored" /\ part' = [part EXCEPT ![s] = "verified"]
    BY <1>10, FirstOfStatus DEF RevalidateParticipant, MaterializeShardLoss, VerifyParticipant, At, Next1, With
  <2>3. CASE At = "revalidating_participants" /\ part' = [part EXCEPT ![s] = "ready"]
    BY <1>0, <2>1, <2>3 DEF PartTrue, StatusOf, ControlTypes, Fencing
  <2>4. CASE At = "materializing_loss" /\ part[s] = "ready" /\ part' = [part EXCEPT ![s] = "loss_materialized"]
    <3>1. {"ready", "loss_materialized"} \cap (Armed \cup Back) = {} /\ At \in Losing
      BY <2>4 DEF Armed, Back, Losing
    <3>2. StatusOf(At) = Early \cup (Begun \ {"released"}) /\ "loss_materialized" \in Begun
      BY <2>4 DEF StatusOf, Begun
    <3>3. QED
      BY <1>0, <2>1, <2>4, <3>1, <3>2 DEF PartTrue, ControlTypes
  <2>5. CASE At = "verifying_participants" /\ part[s] = "restored" /\ part' = [part EXCEPT ![s] = "verified"]
    <3>1. {"restored", "verified"} \subseteq Back /\ At \in Losing
      BY <2>5 DEF Back, Losing, Restoring
    <3>2. StatusOf(At) = {"restored", "verified"}
      BY <2>5 DEF StatusOf
    <3>3. QED
      BY <1>0, <2>1, <2>5, <3>1, <3>2 DEF PartTrue, ControlTypes
  <2>6. QED
    BY <2>2, <2>3, <2>4, <2>5
<1>11. ASSUME NEW s \in Shards, NEW ok \in BOOLEAN, FenceParticipant(s, ok)
       PROVE  PartTrue'
  <2>1. At' = At /\ At = "fencing_participants" /\ UNCHANGED undo /\ op'.replayed = op.replayed
        /\ (part' = part \/ part' = [part EXCEPT ![s] = "fenced"])
    BY <1>11 DEF FenceParticipant, At
  <2>2. QED
    BY <1>0, <2>1 DEF PartTrue, StatusOf, ControlTypes, Fencing
<1>12. ASSUME NEW s \in Shards, NEW ok \in BOOLEAN, ActivateParticipant(s, ok) \/ VerifyActivation(s, ok) \/ ReleaseParticipant(s, ok)
       PROVE  PartTrue'
  <2>1. At' = At /\ UNCHANGED undo /\ op'.replayed = op.replayed
    BY <1>12, RestoreQuiet, QuietAt DEF ActivateParticipant, VerifyActivation, ReleaseParticipant
  <2>2. \/ part' = part
        \/ At = "restoring_participants" /\ part[s] \in Armed /\ part' = [part EXCEPT ![s] = "activation_requested"]
        \/ At = "restoring_participants" /\ part[s] \in Armed /\ part' = [part EXCEPT ![s] = "restored"]
        \/ At = "releasing_participants" /\ part[s] = "verified" /\ part' = [part EXCEPT ![s] = "released"]
    BY <1>12, FirstOfStatus DEF ActivateParticipant, VerifyActivation, ReleaseParticipant, Restores, At, Next1, With, Armed
  <2>3. CASE part' = part
    BY <2>1, <2>3, PartFrame
  <2>4. ASSUME NEW status \in {"activation_requested", "restored"}, At = "restoring_participants", part[s] \in Armed, part' = [part EXCEPT ![s] = status]
        PROVE  PartTrue'
    <3>1. status \in Armed \cup Back /\ At \in Losing /\ status \in StatusOf(At)
      BY <2>4 DEF Armed, Back, Losing, Restoring, StatusOf, Begun, Early
    <3>2. QED
      BY <1>0, <2>1, <2>4, <3>1 DEF PartTrue, ControlTypes
  <2>5. CASE At = "releasing_participants" /\ part[s] = "verified" /\ part' = [part EXCEPT ![s] = "released"]
    <3>1. {"verified", "released"} \subseteq Back /\ At \in Losing /\ StatusOf(At) = {"verified", "released"}
      BY <2>5 DEF Back, Losing, Restoring, StatusOf
    <3>2. QED
      BY <1>0, <2>1, <2>5, <3>1 DEF PartTrue, ControlTypes
  <2>6. QED
    BY <2>2, <2>3, <2>4, <2>5
<1>13. ASSUME NEW s \in Shards, NEW answer \in {"ok", "lost", "unsure"}, StageParticipant(s, answer)
       PROVE  PartTrue'
  <2>1. At' = At /\ At = "restoring_participants" /\ op'.replayed = op.replayed
    BY <1>13, StageParticipantStage
  <2>2. (UNCHANGED <<part, undo>>) \/ (part' = [part EXCEPT ![s] = "staged"] /\ undo' = undo \cup {s})
    BY <1>13 DEF StageParticipant
  <2>3. CASE UNCHANGED <<part, undo>>
    BY <2>1, <2>3, PartFrame
  <2>4. CASE part' = [part EXCEPT ![s] = "staged"] /\ undo' = undo \cup {s}
    <3>1. "staged" \in Armed /\ At \in Losing /\ "staged" \in StatusOf(At)
      BY <2>1 DEF Armed, Losing, Restoring, StatusOf, Begun, Early
    <3>2. QED
      BY <1>0, <2>1, <2>4, <3>1 DEF PartTrue, ControlTypes
  <2>5. QED
    BY <2>2, <2>3, <2>4
<1>14. ASSUME NEW upto \in Prefixes, FailBeforeRestore(upto)
       PROVE  PartTrue'
  <2>1. UNCHANGED <<part, undo>> /\ op'.replayed = op.replayed /\ (At' = At \/ At' = "failed")
    BY <1>14, FailBeforeStage DEF FailBeforeRestore
  <2>2. CASE At' = At
    BY <2>1, <2>2, PartFrame
  <2>3. CASE At' = "failed"
    BY <2>1, <2>3 DEF PartTrue, StatusOf, ControlTypes, Previewing, Fencing, Losing, Restoring, RollingBack
  <2>4. QED
    BY <2>1, <2>2, <2>3
<1>15. ASSUME NEW t \in Txs, NEW upto \in Prefixes, ReconcileTransaction(t, upto)
       PROVE  PartTrue'
  <2>1. UNCHANGED <<part, undo>> /\ At = "reconciling" /\ At' = At
    BY <1>15, ReconcileStage DEF ReconcileTransaction
  <2>2. At \in Losing
    BY <2>1 DEF Losing, Restoring
  <2>3. QED
    BY <1>0, <2>1, <2>2 DEF PartTrue
<1>16. CASE (\E t \in Txs : MaterializeCoordinatorLoss(t)) \/ \E t \in Txs, ok \in BOOLEAN : DiscardCoordinator(t, ok)
  <2>1. UNCHANGED <<part, undo>>
    BY <1>16 DEF MaterializeCoordinatorLoss, DiscardCoordinator
  <2>2. At' = At /\ op'.replayed = op.replayed
    BY <1>16, RestoreQuiet, QuietAt, DiscardStage
  <2>3. QED
    BY <2>1, <2>2, PartFrame
<1>17. QED
  BY <1>1, <1>2, <1>3, <1>4, <1>5, <1>6, <1>7, <1>8, <1>9, <1>10, <1>11, <1>12, <1>13, <1>14, <1>15, <1>16
     DEF RestoreNext

\* A rollback undoes exactly the participants that have an undo bookmark.
LEMMA RollbackPart ==
  ASSUME ControlTypes, StageTrue, PartTrue, RollbackNext1
  PROVE  PartTrue'
<1> USE DEF SameRow
<1>0. RollingBack \cap (Previewing \cup {"previewed"} \cup Losing \cup Fencing) = {}
  BY DEF Fencing, Previewing, Losing, Restoring, RollingBack
<1>1. CASE RetriesRunOut
  <2>1. UNCHANGED <<part, undo>> /\ op'.replayed = op.replayed /\ (At' = At \/ At' = "failed")
    BY <1>1, RetriesStage DEF RetriesRunOut
  <2>2. CASE At' = At
    BY <2>1, <2>2, PartFrame
  <2>3. CASE At' = "failed"
    BY <2>1, <2>3 DEF PartTrue, StatusOf, ControlTypes, Previewing, Fencing, Losing, Restoring, RollingBack
  <2>4. QED
    BY <2>1, <2>2, <2>3
<1>2. CASE Resume
  <2>1. UNCHANGED <<part, undo>> /\ op'.replayed = op.replayed /\ At' = At
    BY <1>2, ResumeStage DEF Resume, ControlTypes
  <2>2. QED
    BY <2>1, PartFrame
<1>3. CASE Rollback
  <2>1. At' = "rollback_participants" /\ UNCHANGED undo
        /\ part' = [s \in Shards |-> IF s \in undo THEN "rollback_pending" ELSE "rollback_not_needed"]
    BY <1>3, RollbackStage DEF Rollback
  <2>2. QED
    BY <1>0, <2>1 DEF PartTrue, StatusOf, RollingBack, RollbackNext
<1>4. CASE ParticipantsUndone
  <2>1. At = "rollback_participants" /\ At' = "rollback_releasing_participants" /\ UNCHANGED <<part, undo>>
        /\ With(RollbackNext) = {}
    BY <1>4, UndoneStages DEF ParticipantsUndone
  <2>2. QED
    BY <1>0, <2>1 DEF PartTrue, StatusOf, RollingBack, With
<1>5. CASE CompleteRollback
  <2>1. At' = "rolled_back" /\ UNCHANGED part
    BY <1>5, UndoneStages DEF CompleteRollback
  <2>2. QED
    BY <2>1 DEF PartTrue, StatusOf, ControlTypes, Previewing, Fencing, Losing, Restoring, RollingBack
<1>6. ASSUME NEW s \in Shards, NEW answer \in {"ok", "lost", "unsure"}, UndoParticipant(s, answer)
      PROVE  PartTrue'
  <2>1. At' = At /\ At = "rollback_participants" /\ op'.replayed = op.replayed /\ UNCHANGED undo
    BY <1>6, UndoParticipantStage DEF UndoParticipant
  <2>2. part[s] = "rollback_pending" /\ (part' = part \/ part' = [part EXCEPT ![s] = "rollback_staged"])
    BY <1>6 DEF UndoParticipant, Undoes
  <2>3. QED
    BY <1>0, <2>1, <2>2 DEF PartTrue, ControlTypes, StatusOf, RollingBack, RollbackNext
<1>7. ASSUME NEW s \in Shards, NEW ok \in BOOLEAN, ActivateUndo(s, ok) \/ VerifyUndo(s, ok)
      PROVE  PartTrue'
  <2>1. At' = At /\ op'.replayed = op.replayed /\ UNCHANGED undo /\ At = "rollback_participants"
    BY <1>7 DEF ActivateUndo, VerifyUndo, At, Undoes
  <2>2. /\ part[s] \in RollbackNext
        /\ part' \in {part, [part EXCEPT ![s] = "rollback_activation_requested"], [part EXCEPT ![s] = "rollback_verified"]}
    BY <1>7 DEF ActivateUndo, VerifyUndo, Undoes, RollbackNext
  <2>3. QED
    BY <1>0, <2>1, <2>2 DEF PartTrue, ControlTypes, StatusOf, RollingBack, RollbackNext
<1>8. ASSUME NEW s \in Shards, NEW ok \in BOOLEAN, ReleaseUndone(s, ok)
      PROVE  PartTrue'
  <2>1. /\ At' = At /\ op'.replayed = op.replayed /\ UNCHANGED undo /\ At = "rollback_releasing_participants"
        /\ part' = part \/ part' = [part EXCEPT ![s] = "rollback_released"]
    BY <1>8 DEF ReleaseUndone, At
  <2>2. QED
    BY <1>0, <2>1 DEF PartTrue, ControlTypes, StatusOf, RollingBack, RollbackNext
<1>9. QED
  BY <1>1, <1>2, <1>3, <1>4, <1>5, <1>6, <1>7, <1>8 DEF RollbackNext1

\* Every step keeps the participants where the stage has them.
LEMMA PartStep ==
  ASSUME ControlTypes, StageTrue, PartTrue, [Next]_vars
  PROVE  PartTrue'
<1>1. CASE ShardNext \/ UNCHANGED vars
  <2>1. UNCHANGED <<part, undo, At>> /\ op'.replayed = op.replayed
    BY <1>1, ShardFrame DEF vars, control, At
  <2>2. QED
    BY <2>1, PartFrame
<1>2. CASE CoordinatorNext
  <2>1. CASE Quiet
    BY <1>2, <2>1, CoordinatorFrame, QuietAt, PartFrame DEF SameRow
  <2>2. CASE ~Quiet
    BY <1>2, <2>2, QuietSteps, LatePart
  <2>3. QED
    BY <2>1, <2>2
<1>3. QED
  BY <1>1, <1>2, PreviewPart, RestorePart, RollbackPart DEF Next

-----------------------------------------------------------------------------
(* Markers. *)

\* What was not accounted for once is so for ever.
LEMMA StrayGrows ==
  ASSUME [Next]_vars
  PROVE  stray => stray'
<1>1. CASE ShardNext \/ UNCHANGED vars
  BY <1>1, ShardFrame DEF vars, control
<1>2. CASE CoordinatorNext
  BY <1>2 DEF CoordinatorNext, RegisterNew, AskGate, BeginRow, Vote, RegisterLate, RegisterOpen, DecideCommit,
     DecideAbort, DiscardMissed, Leave, Permitted, control
<1>3. CASE PreviewNext
  BY <1>3 DEF PreviewNext, PassCutoff, Preview, CloseManifest, EnumerateManifest, MaterializeEnvelopes,
     PreviewParticipant, FinalizePlan, MoveTopology, Execute
<1>4. CASE RestoreNext
  BY <1>4 DEF RestoreNext, FenceCatalogs, RevalidationEnds, LossMaterialized, ParticipantsRestored,
     TransactionsReconciled, ParticipantsVerified, CoordinatorsDiscarded, CompleteRestore, FencingEnds,
     RevalidateParticipant, MaterializeShardLoss, VerifyParticipant, FenceParticipant,
     ActivateParticipant, VerifyActivation, ReleaseParticipant, StageParticipant, FailBeforeRestore,
     ReconcileTransaction, MaterializeCoordinatorLoss, DiscardCoordinator
<1>5. CASE RollbackNext1
  BY <1>5 DEF RollbackNext1, RetriesRunOut, Resume, Rollback, ParticipantsUndone, CompleteRollback,
     UndoParticipant, ActivateUndo, VerifyUndo, ReleaseUndone
<1>6. QED
  BY <1>1, <1>2, <1>3, <1>4, <1>5 DEF Next

\* The marker of a shard that a step leaves alone.
LEMMA MarkFrame ==
  ASSUME NEW s \in Shards, MarkOK(s), part'[s] = part[s], Closed' <=> Closed,
         op'.stage = "complete" => op.stage = "complete" \/ Closed, stray => stray',
         shard'[s].mark = shard[s].mark, shard'[s].armed = shard[s].armed,
         shard[s].mark \in {"staging", "staged"} => shard'[s].head = shard[s].head /\ shard'[s].db = shard[s].db
  PROVE  MarkOK(s)'
BY DEF MarkOK

\* No request, and no restart, takes a marker from what its participant's
\* status says.
LEMMA ShardMark ==
  ASSUME ControlTypes, ActorTypes, MarkTrue, ShardNext
  PROVE  MarkTrue'
<1> USE DEF ActorTypes
<1>0. UNCHANGED <<part, op, gate, stray, Closed>>
  BY ShardFrame DEF control, Closed
<1>1. ASSUME NEW s \in Shards, shard' = shard PROVE MarkTrue'
  BY <1>0, <1>1 DEF MarkTrue, MarkOK
<1>2. ASSUME NEW s \in Shards, NEW certify \in BOOLEAN, Mutate(s, certify) PROVE MarkTrue'
  <2> SUFFICES ASSUME NEW r \in Shards PROVE MarkOK(r)'
    BY DEF MarkTrue
  <2>1. MarkOK(r)
    BY DEF MarkTrue
  <2>2. CASE r # s \/ shard[s].mark # "none"
    <3>1. shard'[r] = shard[r]
      BY <1>2, <2>2, MutateEffect DEF Elsewhere, Same
    <3>2. QED
      BY <1>0, <2>1, <3>1, MarkFrame
  <2>3. CASE r = s /\ shard[s].mark = "none"
    <3>1. shard'[r].mark = shard[r].mark /\ shard'[r].armed = shard[r].armed /\ shard[r].mark = "none"
      BY <1>2, <2>3, MutateEffect
    <3>2. QED
      BY <1>0, <2>1, <3>1, MarkFrame
  <2>4. QED
    BY <2>2, <2>3
<1>3. ASSUME NEW s \in Shards, RestartShard(s) PROVE MarkTrue'
  <2> SUFFICES ASSUME NEW r \in Shards PROVE MarkOK(r)'
    BY DEF MarkTrue
  <2>1. MarkOK(r) /\ shard[r] \in ShardRow /\ part[r] \in PartStatus
    BY DEF MarkTrue, ControlTypes
  <2>2. /\ Elsewhere(s)
        /\ shard[s].armed = "target" => RewoundTo(s)
        /\ shard[s].armed = "undo" => UndoneTo(s)
        /\ shard[s].armed = "none" => Same(s)
    BY <1>3, RestartEffect DEF RestartShard, Same
  <2>3. CASE r # s \/ shard[s].armed = "none"
    BY <1>0, <2>1, <2>2, <2>3 DEF Elsewhere, Same, MarkOK
  <2>4. CASE r = s /\ shard[s].armed = "target"
    <3>1. shard'[r].mark = "none" /\ shard'[r].armed = "none"
      BY <2>2, <2>4 DEF RewoundTo
    <3>2. MarkFits(part[r], shard[r].mark, "target") => MarkFits(part[r], "none", "none")
      BY <2>1, <2>4 DEF MarkFits, Early, Armed, Back, Marks
    <3>3. QED
      BY <1>0, <2>1, <2>4, <3>1, <3>2 DEF MarkOK
  <2>5. CASE r = s /\ shard[s].armed = "undo"
    <3>1. shard'[r].mark = "staging" /\ shard'[r].armed = "none"
      BY <2>2, <2>5 DEF UndoneTo
    <3>2. MarkFits(part[r], shard[r].mark, "undo") =>
            /\ MarkFits(part[r], "staging", "none")
            /\ part[r] # "rollback_not_needed"
      BY <2>1, <2>5 DEF MarkFits, Early, Armed, Back, Marks
    <3>3. QED
      BY <1>0, <2>1, <2>5, <3>1, <3>2 DEF MarkOK
  <2>6. QED
    BY <2>1, <2>3, <2>4, <2>5 DEF ShardRow
<1>4. QED
  BY <1>1, <1>2, <1>3 DEF ShardNext, Admit

\* Coordinators leave the markers alone.
LEMMA CoordinatorMark ==
  ASSUME ControlTypes, StageTrue, MarkTrue, CoordinatorNext
  PROVE  MarkTrue'
<1>1. UNCHANGED <<shard, part, Closed>> /\ (stray => stray') /\ (op'.stage = "complete" => op.stage = "complete" \/ Closed)
  <2>1. UNCHANGED <<shard, part, gate>> /\ (stray => stray')
    BY CoordinatorFrame, StrayGrows DEF Next
  <2>2. CASE Quiet
    BY <2>1, <2>2 DEF Quiet, Closed
  <2>3. CASE ~Quiet
    <3>1. Closed /\ Closed'
      BY <2>3, QuietSteps, LateStage DEF ControlTypes
    <3>2. QED
      BY <2>1, <3>1 DEF Closed
  <2>4. QED
    BY <2>2, <2>3
<1>2. QED
  BY <1>1, MarkFrame DEF MarkTrue

\* While the gate is open no shard is marked, and the first closing finds none.
LEMMA PreviewMark ==
  ASSUME ControlTypes, ActorTypes, StageTrue, PartTrue, MarkTrue, PreviewNext
  PROVE  MarkTrue'
<1>0. SUFFICES ASSUME NEW s \in Shards PROVE MarkOK(s)'
  BY DEF MarkTrue
<1>1. MarkOK(s) /\ (stray => stray') /\ "complete" \in Over
  BY StrayGrows DEF MarkTrue, Next, Over
<1>2. CASE PassCutoff \/ MoveTopology \/ \E r \in Shards : PreviewParticipant(r)
  <2>1. shard'[s].mark = shard[s].mark /\ shard'[s].armed = shard[s].armed
        /\ shard'[s].head = shard[s].head /\ shard'[s].db = shard[s].db
    BY <1>2, CutoffEffect DEF MoveTopology, PreviewParticipant, actors, ActorTypes
  <2>2. Quiet /\ UNCHANGED stray
    BY <1>2, RestoreQuiet DEF PassCutoff, MoveTopology, PreviewParticipant
  <2>3. CASE \E r \in Shards : PreviewParticipant(r)
    <3>1. ~Closed /\ ~Closed' /\ op'.stage # "complete"
      BY <2>2, <2>3 DEF PreviewParticipant, StageTrue, Closed, Quiet, Previewing
    <3>2. QED
      BY <1>1, <2>1, <3>1 DEF MarkOK
  <2>4. CASE PassCutoff \/ MoveTopology
    <3>1. UNCHANGED <<part, Closed>> /\ op'.stage = op.stage
      BY <2>2, <2>4 DEF PassCutoff, MoveTopology, Quiet, Closed
    <3>2. QED
      BY <1>1, <2>1, <3>1, MarkFrame
  <2>5. QED
    BY <1>2, <2>3, <2>4
<1>3. CASE Preview \/ CloseManifest \/ EnumerateManifest \/ MaterializeEnvelopes \/ FinalizePlan
  <2>1. ~Closed /\ ~Closed' /\ UNCHANGED shard /\ At' # "complete"
    BY <1>3, PreviewStages DEF Preview, CloseManifest, EnumerateManifest, MaterializeEnvelopes, FinalizePlan, actors
  <2>2. op'.stage # "complete"
    BY <2>1 DEF At
  <2>3. QED
    BY <1>1, <2>1, <2>2 DEF MarkOK
<1>4. CASE Execute
  <2>1. ~Closed /\ At = "previewed" /\ UNCHANGED <<shard, part, stray>>
    BY <1>4, PreviewStages DEF Execute, actors
  <2>2. part[s] = "previewed" /\ shard[s] \in ShardRow
    BY <2>1 DEF PartTrue, StatusOf, ActorTypes
  <2>3. MarkFits("previewed", shard[s].mark, shard[s].armed)
    BY <1>1, <2>1, <2>2 DEF MarkOK, MarkFits, Early, ShardRow, Armed, Back
  <2>4. QED
    BY <1>1, <2>1, <2>2, <2>3 DEF MarkOK
<1>5. QED
  BY <1>2, <1>3, <1>4 DEF PreviewNext

\* A restore changes a marker together with the status that tells of it, or
\* leaves a lost answer to be made good.
LEMMA RestoreMark ==
  ASSUME ControlTypes, ActorTypes, StageTrue, PartTrue, MarkTrue, RestoreNext
  PROVE  MarkTrue'
<1> USE DEF ActorTypes
<1>0. SUFFICES ASSUME NEW s \in Shards PROVE MarkOK(s)'
  BY DEF MarkTrue
<1>1. MarkOK(s) /\ (stray => stray') /\ part[s] \in PartStatus /\ shard[s] \in ShardRow
  BY StrayGrows DEF MarkTrue, Next, ControlTypes
<1>2. CASE FenceCatalogs \/ RevalidationEnds \/ LossMaterialized \/ ParticipantsRestored
             \/ TransactionsReconciled \/ ParticipantsVerified \/ CoordinatorsDiscarded
             \/ \E late \in BOOLEAN : FencingEnds(late)
  <2>1. Closed /\ Closed'
    BY <1>2, RestoreStages, FencingEndsStage
  <2>2. UNCHANGED <<shard, part>>
    BY <1>2 DEF FenceCatalogs, RevalidationEnds, LossMaterialized, ParticipantsRestored, TransactionsReconciled,
       ParticipantsVerified, CoordinatorsDiscarded, FencingEnds, actors
  <2>3. QED
    BY <1>1, <2>1, <2>2, MarkFrame
<1>3. CASE CompleteRestore
  <2>1. Closed /\ ~Closed' /\ UNCHANGED <<shard, part>> /\ part[s] = "released"
    BY <1>3, RestoreStages DEF CompleteRestore, actors
  <2>2. shard[s].mark = "none" /\ shard[s].armed = "none"
    BY <1>1, <2>1 DEF MarkOK, MarkFits, Early, Armed, Back
  <2>3. QED
    BY <1>1, <2>1, <2>2 DEF MarkOK
<1>4. ASSUME NEW r \in Shards, RevalidateParticipant(r) \/ MaterializeShardLoss(r) \/ VerifyParticipant(r)
      PROVE  MarkOK(s)'
  <2>1. Closed /\ Closed' /\ UNCHANGED <<shard, stray>>
    BY <1>4, RestoreQuiet, QuietAt DEF RevalidateParticipant, MaterializeShardLoss, VerifyParticipant, actors,
       StageTrue, Over, Previewing
  <2>2. \/ part'[s] = part[s]
        \/ part[s] = "fenced" /\ part'[s] = "ready"
        \/ part[s] = "ready" /\ part'[s] = "loss_materialized"
        \/ part[s] = "restored" /\ part'[s] = "verified"
    <3>1. \/ part[r] = "fenced" /\ part' = [part EXCEPT ![r] = "ready"]
          \/ part[r] = "ready" /\ part' = [part EXCEPT ![r] = "loss_materialized"]
          \/ part[r] = "restored" /\ part' = [part EXCEPT ![r] = "verified"]
      <4>1. ASSUME NEW status, Next1(r, {status}) PROVE part[r] = status
        BY <4>1, FirstOfStatus DEF Next1, With
      <4>2. QED
        BY <1>4, <4>1 DEF RevalidateParticipant, MaterializeShardLoss, VerifyParticipant
    <3>2. QED
      BY <3>1 DEF ControlTypes
  <2>3. MarkFits(part[s], shard[s].mark, shard[s].armed) => MarkFits(part'[s], shard[s].mark, shard[s].armed)
    BY <2>2 DEF MarkFits, Early, Armed, Back
  <2>4. part'[s] = "rollback_not_needed" => part[s] = "rollback_not_needed"
    BY <2>2
  <2>5. QED
    BY <1>1, <2>1, <2>3, <2>4 DEF MarkOK
<1>5. ASSUME NEW r \in Shards, NEW ok \in BOOLEAN, FenceParticipant(r, ok)
      PROVE  MarkOK(s)'
  <2>1. /\ Closed /\ Closed' /\ UNCHANGED stray /\ At = "fencing_participants"
        /\ Elsewhere(r) /\ OnlyMark(r, "install")
        /\ part[r] = "previewed" /\ part' \in {part, [part EXCEPT ![r] = "fenced"]}
    <3>1. Closed /\ Closed' /\ At = "fencing_participants" /\ UNCHANGED stray
      BY <1>5, RestoreQuiet, QuietAt DEF FenceParticipant, StageTrue, Over, Previewing, At
    <3>2. Elsewhere(r) /\ OnlyMark(r, "install")
      BY <1>5, FenceEffect DEF FenceParticipant, Marks
    <3>3. part[r] = "previewed"
      BY <1>5, FirstOfStatus DEF FenceParticipant, Next1, With
    <3>4. QED
      BY <1>5, <3>1, <3>2, <3>3 DEF FenceParticipant
  <2>2. CASE r # s
    BY <1>1, <2>1, <2>2, MarkFrame DEF Elsewhere, ControlTypes
  <2>3. CASE r = s
    <3>1. part'[s] \in {"previewed", "fenced"} /\ shard[s].mark \in {"none", "install"} /\ shard[s].armed \in {"none", "target"}
      BY <1>1, <2>1, <2>3 DEF ControlTypes, MarkOK, MarkFits, Early, ShardRow, Armed, Back
    <3>2. MarkFits(part'[s], "install", shard[s].armed) /\ shard[s].mark \in {"none", "install"}
      BY <3>1 DEF MarkFits, Early, Armed, Back
    <3>3. QED
      BY <1>1, <2>1, <2>3, <3>1, <3>2 DEF MarkOK, OnlyMark
  <2>4. QED
    BY <2>2, <2>3
<1>6. ASSUME NEW upto \in Prefixes, FailBeforeRestore(upto)
      PROVE  MarkOK(s)'
  <2>1. /\ Closed /\ At \in {"fencing_catalogs", "fencing_participants"} /\ UNCHANGED <<part, stray>>
        /\ upto = Cardinality(Shards) => ~Closed' /\ At' = "failed"
        /\ upto # Cardinality(Shards) => Closed' /\ At' = At
    BY <1>6, FailBeforeStage DEF FailBeforeRestore
  <2>2. OnlyMark(s, IF s <= upto THEN "none" ELSE shard[s].mark)
    BY <1>6, FailEffect DEF Prefixes
  <2>3. part[s] \in {"previewed", "fenced"}
    BY <2>1 DEF PartTrue, StatusOf
  <2>4. shard[s].mark \in {"none", "install"} /\ shard[s].armed \in {"none", "target"}
        /\ \A mark \in {"none", "install"} : MarkFits(part[s], mark, shard[s].armed)
    BY <1>1, <2>1, <2>3 DEF MarkOK, MarkFits, Early, ShardRow, Armed, Back
  <2>6. shard'[s].mark \in {"none", "install"} /\ shard'[s].armed = shard[s].armed
    BY <2>2, <2>4 DEF OnlyMark
  <2>7. upto = Cardinality(Shards) => shard'[s].mark = "none" /\ op'.stage # "complete"
    <3>1. Cardinality(Shards) \in Nat /\ s \in 1 .. Cardinality(Shards)
      BY RestoreAssumption, FS_CardinalityType
    <3>2. QED
      BY <2>1, <2>2, <3>1 DEF OnlyMark, At
  <2>8. QED
    BY <1>1, <2>1, <2>3, <2>4, <2>6, <2>7 DEF MarkOK
<1>7. ASSUME NEW r \in Shards, NEW answer \in {"ok", "lost", "unsure"}, StageParticipant(r, answer)
      PROVE  MarkOK(s)'
  <2>1. Closed /\ Closed' /\ part[r] = "loss_materialized"
    BY <1>7, StageParticipantStage DEF StageParticipant, Restores
  <2>2. CASE UNCHANGED <<shard, part, stray>>
    BY <1>1, <2>1, <2>2, MarkFrame
  <2>3. CASE ~UNCHANGED <<shard, part, stray>>
    <3>1. Staged(r, Forward, "target", answer) /\ part' = IF answer = "ok" THEN [part EXCEPT ![r] = "staged"] ELSE part
      BY <1>7, <2>3 DEF StageParticipant
    <3>2. /\ Elsewhere(r)
          /\ shard[r].mark = "staged" => Same(r)
          /\ shard[r].mark # "staged" => ArmedWith(r, "target", IF answer = "unsure" THEN "staging" ELSE "staged")
      BY <3>1, StagedEffect DEF Forward
    <3>3. CASE r # s
      BY <1>1, <2>1, <3>1, <3>2, <3>3, MarkFrame DEF Elsewhere, ControlTypes
    <3>4. CASE r = s
      <4>1. /\ part'[s] = IF answer = "ok" THEN "staged" ELSE "loss_materialized"
        BY <2>1, <3>1, <3>4 DEF ControlTypes
      <4>2. CASE shard[r].mark = "staged"
        <5>1. shard[s].mark = "staged" /\ shard[s].armed = "target"
          BY <1>1, <2>1, <3>4, <4>2 DEF MarkOK, MarkFits, Early, Armed, Back
        <5>2. MarkFits(part'[s], "staged", "target") /\ part'[s] # "rollback_not_needed"
          BY <4>1 DEF MarkFits, Early, Armed, Back
        <5>3. QED
          BY <1>1, <2>1, <3>2, <3>4, <4>2, <5>1, <5>2 DEF MarkOK, Same
      <4>3. CASE shard[r].mark # "staged"
        <5>1. shard'[s].armed = "target" /\ shard'[s].mark = (IF answer = "unsure" THEN "staging" ELSE "staged")
              /\ shard'[s].head = shard'[s].db
          BY <3>2, <3>4, <4>3 DEF ArmedWith
        <5>2. MarkFits(part'[s], shard'[s].mark, "target") /\ part'[s] # "rollback_not_needed"
          BY <4>1, <5>1 DEF MarkFits, Early, Armed, Back
        <5>3. QED
          BY <2>1, <5>1, <5>2 DEF MarkOK
      <4>4. QED
        BY <4>2, <4>3
    <3>5. QED
      BY <3>3, <3>4
  <2>4. QED
    BY <2>2, <2>3
<1>8. ASSUME NEW r \in Shards, NEW ok \in BOOLEAN, ActivateParticipant(r, ok) \/ VerifyActivation(r, ok)
      PROVE  MarkOK(s)'
  <2>1. Closed /\ Closed' /\ UNCHANGED stray /\ part[r] \in Armed
    BY <1>8, RestoreQuiet, QuietAt DEF ActivateParticipant, VerifyActivation, Restores, StageTrue, Over, Previewing, Armed
  <2>2. /\ Elsewhere(r)
        /\ \/ Same(r) /\ part' = [part EXCEPT ![r] = "activation_requested"]
           \/ Same(r) /\ shard[r].mark = "none" /\ part' = [part EXCEPT ![r] = "restored"]
           \/ Same(r) /\ part' = part
           \/ shard[r].mark = "staged" /\ (shard[r].armed = "target" => RewoundTo(r))
              /\ part' \in {part, [part EXCEPT ![r] = "activation_requested"]}
    <3>1. CASE ActivateParticipant(r, ok)
      <4>1. Applied1(r, "staged", ok) /\ "staged" \in Marks /\ part' = [part EXCEPT ![r] = "activation_requested"]
        BY <3>1 DEF ActivateParticipant, Marks
      <4>2. QED
        BY <4>1, AppliedEffect
    <3>2. CASE VerifyActivation(r, ok)
      <4>1. CASE Verified(shard[r])
        BY <3>2, <4>1 DEF VerifyActivation, Verified, Elsewhere, Same
      <4>2. CASE ~Verified(shard[r])
        <5>1. Applied1(r, "staged", ok) /\ "staged" \in Marks /\ part' = part
          BY <3>2, <4>2 DEF VerifyActivation, Marks
        <5>2. QED
          BY <5>1, AppliedEffect
      <4>3. QED
        BY <4>1, <4>2
    <3>3. QED
      BY <1>8, <3>1, <3>2
  <2>3. CASE r # s
    BY <1>1, <2>1, <2>2, <2>3, MarkFrame DEF Elsewhere, ControlTypes
  <2>4. CASE r = s
    <3>1. \/ shard[s].mark = "none" /\ shard[s].armed = "none"
          \/ shard[s].mark = "staged" /\ shard[s].armed = "target"
      BY <1>1, <2>1, <2>4 DEF MarkOK, MarkFits, Armed, Early, Back
    <3>2. part'[s] \in Armed \/ (part'[s] = "restored" /\ Same(s) /\ shard[s].mark = "none")
      BY <2>1, <2>2, <2>4 DEF ControlTypes, Armed
    <3>3. /\ MarkFits(part'[s], "none", "none")
          /\ part'[s] \in Armed => MarkFits(part'[s], "staged", "target")
      BY <3>2 DEF MarkFits, Armed, Early, Back
    <3>4. CASE Same(s)
      <4>1. MarkFits(part'[s], shard[s].mark, shard[s].armed) /\ part'[s] # "rollback_not_needed"
        BY <3>1, <3>2, <3>3 DEF Armed
      <4>2. QED
        BY <1>1, <2>1, <3>4, <4>1 DEF MarkOK, Same
    <3>5. CASE ~Same(s)
      <4>1. RewoundTo(s) /\ part'[s] \in Armed
        BY <2>2, <2>4, <3>1, <3>2, <3>5
      <4>2. shard'[s].mark = "none" /\ shard'[s].armed = "none" /\ MarkFits(part'[s], "none", "none")
            /\ part'[s] # "rollback_not_needed"
        BY <3>3, <4>1 DEF RewoundTo, Armed
      <4>3. QED
        BY <2>1, <4>2 DEF MarkOK
    <3>6. QED
      BY <3>4, <3>5
  <2>5. QED
    BY <2>3, <2>4
<1>9. ASSUME NEW r \in Shards, NEW ok \in BOOLEAN, ReleaseParticipant(r, ok)
      PROVE  MarkOK(s)'
  <2>1. Closed /\ Closed' /\ UNCHANGED stray
    BY <1>9, RestoreQuiet, QuietAt DEF ReleaseParticipant, StageTrue, Over, Previewing
  <2>2. Elsewhere(r) /\ OnlyMark(r, "none")
    BY <1>9, FenceEffect DEF ReleaseParticipant, Marks
  <2>3. part[r] = "verified" /\ part' \in {part, [part EXCEPT ![r] = "released"]}
    BY <1>9, FirstOfStatus DEF ReleaseParticipant, Next1, With
  <2>4. CASE r # s
    BY <1>1, <2>1, <2>2, <2>3, <2>4, MarkFrame DEF Elsewhere, ControlTypes
  <2>5. CASE r = s
    <3>1. part'[s] \in {"verified", "released"}
      BY <2>3, <2>5 DEF ControlTypes
    <3>2. /\ MarkFits(part[s], shard[s].mark, shard[s].armed) => shard[s].mark = "none" /\ shard[s].armed = "none"
          /\ MarkFits(part'[s], "none", "none")
      BY <2>3, <2>5, <3>1 DEF MarkFits, Armed, Early, Back
    <3>3. shard[s].mark = "none" /\ shard[s].armed = "none"
      BY <1>1, <2>1, <3>2 DEF MarkOK
    <3>4. QED
      BY <2>1, <2>2, <2>5, <3>1, <3>2, <3>3 DEF MarkOK, OnlyMark
  <2>6. QED
    BY <2>4, <2>5
<1>10. CASE \/ \E t \in Txs, upto \in Prefixes : ReconcileTransaction(t, upto)
            \/ \E t \in Txs, ok \in BOOLEAN : DiscardCoordinator(t, ok)
  <2>1. Closed /\ Closed' /\ UNCHANGED <<part, stray>> /\ At \in {"reconciling", "discarding_coordinators"}
    BY <1>10, ReconcileStage, DiscardStage DEF ReconcileTransaction, DiscardCoordinator
  <2>2. shard'[s].mark = shard[s].mark /\ shard'[s].armed = shard[s].armed
    BY <1>10, ReconcileEffect, DiscardEffect DEF Prefixes, OnlyTx, Same
  <2>3. part[s] \in Back
    BY <2>1 DEF PartTrue, StatusOf, Back
  <2>4. shard[s].mark = "none" /\ shard[s].armed = "none"
    BY <1>1, <2>1, <2>3 DEF MarkOK, MarkFits, Armed, Early, Back
  <2>5. QED
    BY <1>1, <2>1, <2>2, <2>4, MarkFrame
<1>11. ASSUME NEW t \in Txs, MaterializeCoordinatorLoss(t)
       PROVE  MarkOK(s)'
  <2>1. UNCHANGED <<shard, part, stray, Closed>> /\ op' = op
    BY <1>11, RestoreQuiet, QuietAt DEF MaterializeCoordinatorLoss, actors
  <2>2. QED
    BY <1>1, <2>1, MarkFrame
<1>12. QED
  BY <1>2, <1>3, <1>4, <1>5, <1>6, <1>7, <1>8, <1>9, <1>10, <1>11 DEF RestoreNext

\* A rollback does so too; what a lost answer hid from it makes it stray.
LEMMA RollbackMark ==
  ASSUME ControlTypes, ActorTypes, StageTrue, PartTrue, MarkTrue, RollbackNext1
  PROVE  MarkTrue'
<1> USE DEF ActorTypes
<1>0. SUFFICES ASSUME NEW s \in Shards PROVE MarkOK(s)'
  BY DEF MarkTrue
<1>1. MarkOK(s) /\ (stray => stray') /\ part[s] \in PartStatus /\ shard[s] \in ShardRow
  BY StrayGrows DEF MarkTrue, Next, ControlTypes
<1>2. CASE RetriesRunOut
  <2>1. UNCHANGED <<shard, part>> /\ (Closed' <=> Closed) /\ (op'.stage = "complete" => Closed)
    <3>1. UNCHANGED <<shard, part>>
      BY <1>2 DEF RetriesRunOut, actors
    <3>2. (Closed => Closed') /\ (~Closed => ~Closed' /\ At' = "failed")
      BY <1>2, RetriesStage
    <3>3. ~Closed => op'.stage # "complete"
      BY <3>2 DEF At
    <3>4. QED
      BY <3>1, <3>2, <3>3
  <2>2. QED
    BY <1>1, <2>1, MarkFrame
<1>3. CASE Resume \/ ParticipantsUndone
  <2>1. UNCHANGED <<shard, part, Closed>> /\ Closed
    BY <1>3, ResumeStage, UndoneStages DEF Resume, ParticipantsUndone, actors, ControlTypes
  <2>2. QED
    BY <1>1, <2>1, MarkFrame
<1>4. CASE Rollback
  <2>1. /\ Closed /\ Closed' /\ At \in Fencing \cup Losing /\ UNCHANGED shard
        /\ part'[s] = IF s \in undo THEN "rollback_pending" ELSE "rollback_not_needed"
        /\ ~stray' => ~stray /\ (s \notin undo => shard[s].mark = "install")
    BY <1>4, RollbackStage DEF Rollback, actors
  <2>2. CASE s \in undo
    <3>1. part[s] \in Armed \cup Back
      BY <2>1, <2>2 DEF PartTrue
    <3>2. \/ shard[s].mark = "none" /\ shard[s].armed = "none"
          \/ shard[s].mark = "staged" /\ shard[s].armed = "target"
      BY <1>1, <2>1, <3>1 DEF MarkOK, MarkFits, Early, Armed, Back
    <3>3. MarkFits("rollback_pending", shard[s].mark, shard[s].armed)
      BY <3>2 DEF MarkFits, Early, Armed, Back
    <3>4. QED
      BY <1>1, <2>1, <2>2, <3>3 DEF MarkOK
  <2>3. CASE s \notin undo
    <3>1. part[s] \in Early \cup {"loss_materialized"}
      <4>1. CASE At \in Fencing
        BY <4>1 DEF PartTrue, StatusOf, Fencing, Early
      <4>2. CASE At \in Losing
        <5>1. part[s] \notin Armed \cup Back /\ part[s] \in StatusOf(At)
          BY <2>3, <4>2 DEF PartTrue
        <5>2. StatusOf(At) \subseteq Early \cup {"loss_materialized"} \cup Armed \cup Back
          BY <4>2 DEF Losing, Restoring, StatusOf, Early, Begun, Armed, Back
        <5>3. QED
          BY <5>1, <5>2
      <4>3. QED
        BY <2>1, <4>1, <4>2
    <3>2. shard[s].armed # "undo"
      BY <1>1, <2>1, <3>1 DEF MarkOK, MarkFits, Early, Armed, Back
    <3>3. MarkFits("rollback_not_needed", shard[s].mark, shard[s].armed)
      BY <3>2 DEF MarkFits, Early, Armed, Back
    <3>4. QED
      BY <1>1, <2>1, <2>3, <3>3 DEF MarkOK
  <2>4. QED
    BY <2>2, <2>3
<1>5. CASE CompleteRollback
  <2>1. Closed /\ ~Closed' /\ op'.stage # "complete" /\ UNCHANGED <<shard, part, stray>> /\ part[s] = "rollback_released"
    BY <1>5, UndoneStages DEF CompleteRollback, actors, At
  <2>2. shard[s].mark = "none" /\ shard[s].armed # "undo"
    BY <1>1, <2>1 DEF MarkOK, MarkFits, Early, Armed, Back
  <2>3. QED
    BY <1>1, <2>1, <2>2 DEF MarkOK
<1>6. ASSUME NEW r \in Shards, NEW answer \in {"ok", "lost", "unsure"}, UndoParticipant(r, answer)
      PROVE  MarkOK(s)'
  <2>1. Closed /\ Closed' /\ part[r] = "rollback_pending" /\ UNCHANGED stray
    BY <1>6, UndoParticipantStage DEF UndoParticipant, Undoes
  <2>2. CASE UNCHANGED <<shard, part>>
    BY <1>1, <2>1, <2>2, MarkFrame
  <2>3. CASE ~UNCHANGED <<shard, part>>
    <3>1. Staged(r, Backward, "undo", answer) /\ part' = IF answer = "ok" THEN [part EXCEPT ![r] = "rollback_staged"] ELSE part
      BY <1>6, <2>3 DEF UndoParticipant
    <3>2. /\ Elsewhere(r)
          /\ shard[r].mark = "undo-staged" => Same(r)
          /\ shard[r].mark # "undo-staged" => ArmedWith(r, "undo", IF answer = "unsure" THEN "undo-staging" ELSE "undo-staged")
      BY <3>1, StagedEffect DEF Backward
    <3>3. CASE r # s
      BY <1>1, <2>1, <3>1, <3>2, <3>3, MarkFrame DEF Elsewhere, ControlTypes
    <3>4. CASE r = s
      <4>1. part'[s] = IF answer = "ok" THEN "rollback_staged" ELSE "rollback_pending"
        BY <2>1, <3>1, <3>4 DEF ControlTypes
      <4>2. shard'[s].armed = "undo" /\ shard'[s].mark = (IF answer = "unsure" /\ shard[r].mark # "undo-staged" THEN "undo-staging" ELSE "undo-staged")
        BY <1>1, <2>1, <3>2, <3>4 DEF ArmedWith, Same, MarkOK, MarkFits, Early, Armed, Back
      <4>3. CASE answer = "ok"
        <5>1. MarkFits(part'[s], shard'[s].mark, "undo") /\ part'[s] # "rollback_not_needed"
          BY <4>1, <4>2, <4>3 DEF MarkFits, Early, Armed, Back
        <5>2. QED
          BY <2>1, <4>2, <5>1 DEF MarkOK
      <4>4. CASE answer # "ok"
        <5>1. MarkFits(part'[s], shard'[s].mark, "undo") /\ part'[s] # "rollback_not_needed"
          BY <4>1, <4>2, <4>4 DEF MarkFits, Early, Armed, Back
        <5>2. QED
          BY <2>1, <4>2, <5>1 DEF MarkOK
      <4>5. QED
        BY <4>3, <4>4
    <3>5. QED
      BY <3>3, <3>4
  <2>4. QED
    BY <2>2, <2>3
<1>7. ASSUME NEW r \in Shards, NEW ok \in BOOLEAN, ActivateUndo(r, ok) \/ VerifyUndo(r, ok)
      PROVE  MarkOK(s)'
  <2>1. Closed /\ Closed' /\ UNCHANGED stray /\ part[r] \in {"rollback_staged", "rollback_activation_requested"}
    BY <1>7, RestoreQuiet, QuietAt DEF ActivateUndo, VerifyUndo, Undoes, StageTrue, Over, Previewing
  <2>2. /\ Elsewhere(r)
        /\ \/ Same(r) /\ part' = [part EXCEPT ![r] = "rollback_activation_requested"]
           \/ Same(r) /\ shard[r].mark # "undo-staged" /\ part' = [part EXCEPT ![r] = "rollback_verified"]
           \/ Same(r) /\ part' = part
           \/ shard[r].mark = "undo-staged" /\ (shard[r].armed = "undo" => UndoneTo(r))
              /\ part' \in {part, [part EXCEPT ![r] = "rollback_activation_requested"]}
    <3>1. CASE ActivateUndo(r, ok)
      <4>1. Applied1(r, "undo-staged", ok) /\ "undo-staged" \in Marks /\ part' = [part EXCEPT ![r] = "rollback_activation_requested"]
        BY <3>1 DEF ActivateUndo, Marks
      <4>2. QED
        BY <4>1, AppliedEffect
    <3>2. CASE VerifyUndo(r, ok)
      <4>1. CASE VerifiedUndone(shard[r])
        BY <3>2, <4>1 DEF VerifyUndo, VerifiedUndone, Elsewhere, Same
      <4>2. CASE ~VerifiedUndone(shard[r])
        <5>1. Applied1(r, "undo-staged", ok) /\ "undo-staged" \in Marks /\ part' = part
          BY <3>2, <4>2 DEF VerifyUndo, Marks
        <5>2. QED
          BY <5>1, AppliedEffect
      <4>3. QED
        BY <4>1, <4>2
    <3>3. QED
      BY <1>7, <3>1, <3>2
  <2>3. CASE r # s
    BY <1>1, <2>1, <2>2, <2>3, MarkFrame DEF Elsewhere, ControlTypes
  <2>4. CASE r = s
    <3>1. \/ shard[s].mark = "undo-staged" /\ shard[s].armed = "undo"
          \/ shard[s].mark = "staging" /\ shard[s].armed = "none"
      BY <1>1, <2>1, <2>4 DEF MarkOK, MarkFits, Armed, Early, Back
    <3>2. \/ part'[s] \in {"rollback_staged", "rollback_activation_requested"}
          \/ part'[s] = "rollback_verified" /\ Same(s) /\ shard[s].mark # "undo-staged"
      BY <2>1, <2>2, <2>4 DEF ControlTypes
    <3>3. CASE Same(s)
      <4>1. MarkFits(part'[s], shard[s].mark, shard[s].armed) /\ part'[s] # "rollback_not_needed"
        BY <3>1, <3>2 DEF MarkFits, Armed, Early, Back
      <4>2. QED
        BY <1>1, <2>1, <3>3, <4>1 DEF MarkOK, Same
    <3>4. CASE ~Same(s)
      <4>1. UndoneTo(s) /\ part'[s] \in {"rollback_staged", "rollback_activation_requested"}
        BY <2>2, <2>4, <3>1, <3>2, <3>4
      <4>2. shard'[s].mark = "staging" /\ shard'[s].armed = "none" /\ part'[s] # "rollback_not_needed"
        BY <4>1 DEF UndoneTo
      <4>3. MarkFits(part'[s], "staging", "none")
        BY <4>1 DEF MarkFits, Armed, Early, Back
      <4>4. QED
        BY <2>1, <4>2, <4>3 DEF MarkOK
    <3>5. QED
      BY <3>3, <3>4
  <2>5. QED
    BY <2>3, <2>4
<1>8. ASSUME NEW r \in Shards, NEW ok \in BOOLEAN, ReleaseUndone(r, ok)
      PROVE  MarkOK(s)'
  <2>1. Closed /\ Closed' /\ UNCHANGED stray
    BY <1>8, RestoreQuiet, QuietAt DEF ReleaseUndone, StageTrue, Over, Previewing, RollingBack
  <2>2. Elsewhere(r) /\ OnlyMark(r, "none")
    BY <1>8, FenceEffect DEF ReleaseUndone, Marks
  <2>3. part[r] \in {"rollback_verified", "rollback_not_needed"} /\ part' \in {part, [part EXCEPT ![r] = "rollback_released"]}
    BY <1>8, FirstOfStatus DEF ReleaseUndone, Next1, With
  <2>4. CASE r # s
    BY <1>1, <2>1, <2>2, <2>3, <2>4, MarkFrame DEF Elsewhere, ControlTypes
  <2>5. CASE r = s
    <3>1. part'[s] \in {"rollback_verified", "rollback_not_needed", "rollback_released"}
          /\ (part'[s] = "rollback_verified" => part[s] = "rollback_verified")
      BY <2>3, <2>5 DEF ControlTypes
    <3>2. shard[s].armed # "undo" /\ (part[s] = "rollback_verified" => shard[s].armed = "none")
          /\ (~stray => shard[s].armed # "target")
      BY <1>1, <2>1, <2>3, <2>5 DEF MarkOK, MarkFits, Armed, Early, Back
    <3>3. MarkFits(part'[s], "none", shard[s].armed)
      BY <3>1, <3>2 DEF MarkFits, Armed, Early, Back
    <3>4. shard'[s].mark = "none" /\ shard'[s].armed = shard[s].armed
      BY <2>2, <2>5 DEF OnlyMark
    <3>5. QED
      BY <2>1, <3>2, <3>3, <3>4 DEF MarkOK
  <2>6. QED
    BY <2>4, <2>5
<1>9. QED
  BY <1>2, <1>3, <1>4, <1>5, <1>6, <1>7, <1>8 DEF RollbackNext1

\* Every step keeps the markers as the statuses have them.
LEMMA MarkStep ==
  ASSUME ControlTypes, ActorTypes, StageTrue, PartTrue, MarkTrue, [Next]_vars
  PROVE  MarkTrue'
<1>1. CASE UNCHANGED vars
  <2>1. UNCHANGED <<shard, part, op, stray, Closed>>
    BY <1>1 DEF vars, control, actors, Closed
  <2>2. QED
    BY <2>1, MarkFrame DEF MarkTrue
<1>2. QED
  BY <1>1, ShardMark, CoordinatorMark, PreviewMark, RestoreMark, RollbackMark DEF Next

-----------------------------------------------------------------------------
(* Barriers. *)

LEMMA HoldFree ==
  ASSUME NEW s \in Shards, hold'[s] = Free
  PROVE  HoldOK(s)'
BY DEF HoldOK, Free

\* A request keeps its barrier.
LEMMA HoldKept ==
  ASSUME NEW s \in Shards, HoldOK(s), hold'[s] = hold[s],
         \A t \in Txs : row[t].state = "committed" => row'[t].state = "committed",
         shard'[s].db = shard[s].db, shard'[s].mark \in {"none", shard[s].mark},
         Closed' /\ part'[s] \notin {"previewed", "rollback_not_needed"} => hold[s] = Free
  PROVE  HoldOK(s)'
BY DEF HoldOK

\* A request is admitted as the shard and the coordinator's row have it, and
\* ends at its shard.
LEMMA ShardHold ==
  ASSUME ControlTypes, ActorTypes, MarkTrue, HoldTrue, ShardNext
  PROVE  HoldTrue'
<1> USE DEF ActorTypes
<1>0. UNCHANGED <<part, row, Closed>>
  BY ShardFrame DEF control, Closed
<1>1. SUFFICES ASSUME NEW r \in Shards PROVE HoldOK(r)'
  BY DEF HoldTrue
<1>2. HoldOK(r) /\ MarkOK(r)
  BY DEF HoldTrue, MarkTrue
<1>3. CASE hold'[r] = hold[r] /\ shard'[r] = shard[r]
  BY <1>0, <1>2, <1>3, HoldKept DEF HoldOK
<1>4. ASSUME NEW s \in Shards, NEW what, NEW t, Admit(s, what, t), <<what, t>> \in Held PROVE HoldOK(r)'
  <2>1. ~Closed /\ UNCHANGED shard /\ hold' = [hold EXCEPT ![s] = <<what, t>>] /\ Wanted(s, what, t)
    BY <1>4 DEF Admit, Closed
  <2>2. CASE r = s
    <3>1. hold'[r] = <<what, t>> /\ shard'[r].mark = "none" /\ ~Closed'
      BY <1>0, <1>2, <2>1, <2>2 DEF MarkOK
    <3>2. /\ what = "prepare" => shard[r].db.tx[t] = "none"
          /\ what = "commit" => shard[r].db.tx[t] = "prepared" /\ row[t].state = "committed"
          /\ what = "abort" => shard[r].db.tx[t] \in {"none", "prepared"}
      BY <2>1, <2>2 DEF Wanted
    <3>3. QED
      BY <1>0, <2>1, <3>1, <3>2 DEF HoldOK, Free
  <2>3. CASE r # s
    BY <1>3, <2>1, <2>3
  <2>4. QED
    BY <2>2, <2>3
<1>5. ASSUME NEW s \in Shards, NEW certify \in BOOLEAN, Mutate(s, certify) PROVE HoldOK(r)'
  <2>1. hold' = [hold EXCEPT ![s] = Free] /\ Elsewhere(s)
    BY <1>5, MutateEffect DEF Mutate
  <2>2. QED
    BY <1>3, <2>1, HoldFree DEF Elsewhere
<1>6. ASSUME NEW s \in Shards, RestartShard(s) PROVE HoldOK(r)'
  <2>1. hold' = [hold EXCEPT ![s] = Free] /\ Elsewhere(s)
    BY <1>6, RestartEffect DEF RestartShard
  <2>2. QED
    BY <1>3, <2>1, HoldFree DEF Elsewhere
<1>7. QED
  BY <1>4, <1>5, <1>6 DEF ShardNext, Held

\* A coordinator's commit decision is final.
LEMMA RowsStayCommitted ==
  ASSUME ActorTypes, CoordinatorNext
  PROVE  \A t \in Txs : row[t].state = "committed" => row'[t].state = "committed"
<1>1. PICK t \in Txs : \/ RegisterNew(t) \/ AskGate(t) \/ BeginRow(t) \/ Vote(t)
                       \/ \E by \in {"request", "alarm"} : RegisterLate(t, by) \/ RegisterOpen(t, by)
                       \/ DecideCommit(t) \/ DecideAbort(t) \/ DiscardMissed(t) \/ Leave(t)
  BY DEF CoordinatorNext
<1>2. \/ UNCHANGED row
      \/ row[t].state # "committed" /\ \E to : row' = [row EXCEPT ![t].state = to]
      \/ \E n : row' = [row EXCEPT ![t].discard = n]
  BY <1>1 DEF RegisterNew, AskGate, BeginRow, Vote, RegisterLate, RegisterOpen, DecideCommit, DecideAbort,
     DiscardMissed, Leave, Permitted
<1>3. QED
  BY <1>2 DEF ActorTypes, TxRow

\* A coordinator's visit leaves the admitted requests justified.
LEMMA CoordinatorHold ==
  ASSUME ControlTypes, ActorTypes, StageTrue, HoldTrue, CoordinatorNext
  PROVE  HoldTrue'
<1>1. UNCHANGED <<shard, part, hold, gate>>
  BY CoordinatorFrame
<1>2. UNCHANGED Closed
  BY <1>1 DEF Closed
<1>3. QED
  BY <1>1, <1>2, RowsStayCommitted, HoldKept DEF HoldTrue, HoldOK

\* The steps of an operation wait for the barriers.
LEMMA OperationHold ==
  ASSUME ControlTypes, ActorTypes, StageTrue, PartTrue, MarkTrue, HoldTrue,
         PreviewNext \/ RestoreNext \/ RollbackNext1
  PROVE  HoldTrue'
<1> USE DEF ActorTypes
<1>0. SUFFICES ASSUME NEW s \in Shards, hold[s] # Free PROVE HoldOK(s)'
  BY OperationFrame, HoldFree DEF HoldTrue
<1>1. HoldOK(s) /\ MarkOK(s) /\ UNCHANGED hold
  BY OperationFrame DEF HoldTrue, MarkTrue
<1>2. shard[s].mark = "none" /\ (Closed => part[s] \in {"previewed", "rollback_not_needed"})
  BY <1>0, <1>1 DEF HoldOK
<1>3. ASSUME \A t \in Txs : row[t].state = "committed" => row'[t].state = "committed",
             shard'[s].db = shard[s].db, shard'[s].mark = shard[s].mark,
             Closed' => part'[s] \in {"previewed", "rollback_not_needed"}
      PROVE  HoldOK(s)'
  BY <1>1, <1>3, HoldKept
<1>4. CASE PreviewNext
  <2>1. UNCHANGED row
    BY <1>4 DEF PreviewNext, PassCutoff, Preview, CloseManifest, EnumerateManifest, MaterializeEnvelopes,
       PreviewParticipant, FinalizePlan, MoveTopology, Execute, actors
  <2>2. shard'[s].db = shard[s].db /\ shard'[s].mark = shard[s].mark
    BY <1>4, CutoffEffect DEF PreviewNext, Preview, CloseManifest, EnumerateManifest, MaterializeEnvelopes,
       PreviewParticipant, FinalizePlan, MoveTopology, Execute, actors
  <2>3. CASE Execute
    <3>1. part'[s] = "previewed"
      BY <2>3, PreviewStages DEF Execute, PartTrue, StatusOf
    <3>2. QED
      BY <1>3, <2>1, <2>2, <3>1
  <2>4. CASE Preview \/ CloseManifest \/ EnumerateManifest \/ MaterializeEnvelopes \/ FinalizePlan
    BY <1>3, <2>1, <2>2, <2>4, PreviewStages
  <2>5. CASE PassCutoff \/ MoveTopology \/ \E r \in Shards : PreviewParticipant(r)
    <3>1. ~Closed
      BY <2>5 DEF PassCutoff, MoveTopology, PreviewParticipant, StageTrue, Over, Previewing
    <3>2. Closed' <=> Closed
      BY <2>5 DEF PassCutoff, MoveTopology, PreviewParticipant, Closed
    <3>3. QED
      BY <1>3, <2>1, <2>2, <3>1, <3>2
  <2>6. QED
    BY <1>4, <2>3, <2>4, <2>5 DEF PreviewNext
<1>5. CASE RestoreNext
  <2>1. CASE FenceCatalogs \/ RevalidationEnds \/ LossMaterialized \/ ParticipantsRestored
             \/ TransactionsReconciled \/ ParticipantsVerified \/ CoordinatorsDiscarded
             \/ \E late \in BOOLEAN : FencingEnds(late)
    <3>1. UNCHANGED <<part, shard, row>>
      BY <2>1 DEF FenceCatalogs, RevalidationEnds, LossMaterialized, ParticipantsRestored, TransactionsReconciled,
         ParticipantsVerified, CoordinatorsDiscarded, FencingEnds, actors
    <3>2. Closed
      BY <2>1, RestoreStages, FencingEndsStage
    <3>3. QED
      BY <1>2, <1>3, <3>1, <3>2
  <2>2. CASE CompleteRestore
    <3>1. UNCHANGED <<shard, row>> /\ ~Closed'
      BY <2>2, RestoreStages DEF CompleteRestore, actors
    <3>2. QED
      BY <1>3, <3>1
  <2>3. ASSUME NEW r \in Shards, RevalidateParticipant(r) \/ MaterializeShardLoss(r) \/ VerifyParticipant(r)
        PROVE  HoldOK(s)'
    <3>1. UNCHANGED <<shard, row, Closed>> /\ Closed
      BY <2>3, RestoreQuiet, QuietAt DEF RevalidateParticipant, MaterializeShardLoss, VerifyParticipant, actors,
         StageTrue, Over, Previewing
    <3>2. part[r] \in {"fenced", "ready", "restored"}
      <4>1. ASSUME NEW status, Next1(r, {status}) PROVE part[r] = status
        BY <4>1, FirstOfStatus DEF Next1, With
      <4>2. QED
        BY <2>3, <4>1 DEF RevalidateParticipant, MaterializeShardLoss, VerifyParticipant
    <3>3. \E status : part' = [part EXCEPT ![r] = status]
      BY <2>3 DEF RevalidateParticipant, MaterializeShardLoss, VerifyParticipant
    <3>4. QED
      BY <1>2, <1>3, <3>1, <3>2, <3>3 DEF ControlTypes
  <2>4. ASSUME NEW r \in Shards, NEW ok \in BOOLEAN, \/ FenceParticipant(r, ok) \/ ActivateParticipant(r, ok)
                                                     \/ VerifyActivation(r, ok) \/ ReleaseParticipant(r, ok)
        PROVE  HoldOK(s)'
    <3>1. UNCHANGED <<row, Closed>> /\ Closed
      BY <2>4, RestoreQuiet, QuietAt DEF FenceParticipant, ActivateParticipant, VerifyActivation, ReleaseParticipant,
         Restores, StageTrue, Over, Previewing
    <3>2. r # s
      BY <1>0, <1>2, <2>4, <3>1 DEF FenceParticipant, ActivateParticipant, VerifyActivation, ReleaseParticipant, Restores
    <3>3. (shard'[s] = shard[s]) /\ part'[s] = part[s]
      <4>1. part'[s] = part[s]
        BY <2>4, <3>2 DEF FenceParticipant, ActivateParticipant, VerifyActivation, ReleaseParticipant, ControlTypes
      <4>2. shard'[s] = shard[s]
        BY <2>4, <3>2 DEF FenceParticipant, ActivateParticipant, VerifyActivation, ReleaseParticipant, Applied1
      <4>3. QED
        BY <4>1, <4>2
    <3>4. QED
      BY <1>2, <1>3, <3>1, <3>3
  <2>5. ASSUME NEW r \in Shards, NEW answer \in {"ok", "lost", "unsure"}, StageParticipant(r, answer)
        PROVE  HoldOK(s)'
    <3>1. UNCHANGED row /\ Closed /\ Closed' /\ r # s
      BY <1>0, <2>5, StageParticipantStage DEF StageParticipant
    <3>2. part'[s] = part[s] /\ shard'[s] = shard[s]
      BY <2>5, <3>1, StagedEffect DEF StageParticipant, ControlTypes, Elsewhere
    <3>3. QED
      BY <1>2, <1>3, <3>1, <3>2
  <2>6. ASSUME NEW upto \in Prefixes, FailBeforeRestore(upto)
        PROVE  HoldOK(s)'
    <3>1. UNCHANGED <<part, row>> /\ Closed
      BY <2>6, FailBeforeStage DEF FailBeforeRestore
    <3>2. OnlyMark(s, IF s <= upto THEN "none" ELSE shard[s].mark)
      BY <2>6, FailEffect DEF Prefixes
    <3>3. shard'[s].db = shard[s].db /\ shard'[s].mark = shard[s].mark
      BY <1>2, <3>2 DEF OnlyMark
    <3>4. QED
      BY <1>2, <1>3, <3>1, <3>3
  <2>7. CASE \/ \E t \in Txs, upto \in Prefixes : ReconcileTransaction(t, upto)
             \/ \E t \in Txs, ok \in BOOLEAN : DiscardCoordinator(t, ok)
    BY <1>0, <2>7 DEF ReconcileTransaction, DiscardCoordinator
  <2>8. ASSUME NEW t \in Txs, MaterializeCoordinatorLoss(t)
        PROVE  HoldOK(s)'
    <3>1. UNCHANGED <<shard, row, part, Closed>> /\ Closed
      BY <2>8 DEF MaterializeCoordinatorLoss, actors, Closed, StageTrue, Over, Previewing
    <3>2. QED
      BY <1>2, <1>3, <3>1
  <2>9. QED
    BY <1>5, <2>1, <2>2, <2>3, <2>4, <2>5, <2>6, <2>7, <2>8 DEF RestoreNext
<1>6. CASE RollbackNext1
  <2>0. UNCHANGED row
    BY <1>6 DEF RollbackNext1, RetriesRunOut, Resume, Rollback, ParticipantsUndone, CompleteRollback,
       UndoParticipant, ActivateUndo, VerifyUndo, ReleaseUndone, actors
  <2>1. CASE RetriesRunOut \/ Resume \/ ParticipantsUndone
    <3>1. UNCHANGED <<shard, part>> /\ (Closed' => Closed)
      BY <2>1, RetriesStage, ResumeStage, UndoneStages DEF RetriesRunOut, Resume, ParticipantsUndone, actors, ControlTypes
    <3>2. QED
      BY <1>2, <1>3, <2>0, <3>1
  <2>2. CASE Rollback
    <3>1. /\ UNCHANGED shard /\ Closed /\ At \in Fencing \cup Losing
          /\ part'[s] = IF s \in undo THEN "rollback_pending" ELSE "rollback_not_needed"
      BY <2>2, RollbackStage DEF Rollback, actors
    <3>2. s \notin undo
      BY <1>2, <3>1 DEF PartTrue, Armed, Back
    <3>3. QED
      BY <1>3, <2>0, <3>1, <3>2
  <2>3. CASE CompleteRollback
    <3>1. UNCHANGED shard /\ ~Closed'
      BY <2>3, UndoneStages DEF CompleteRollback, actors
    <3>2. QED
      BY <1>3, <2>0, <3>1
  <2>4. ASSUME NEW r \in Shards, NEW answer \in {"ok", "lost", "unsure"}, UndoParticipant(r, answer)
        PROVE  HoldOK(s)'
    <3>1. Closed /\ Closed' /\ r # s
      BY <1>0, <2>4, UndoParticipantStage DEF UndoParticipant
    <3>2. part'[s] = part[s] /\ shard'[s] = shard[s]
      BY <2>4, <3>1, StagedEffect DEF UndoParticipant, ControlTypes, Elsewhere
    <3>3. QED
      BY <1>2, <1>3, <2>0, <3>1, <3>2
  <2>5. ASSUME NEW r \in Shards, NEW ok \in BOOLEAN, ActivateUndo(r, ok) \/ VerifyUndo(r, ok) \/ ReleaseUndone(r, ok)
        PROVE  HoldOK(s)'
    <3>1. UNCHANGED Closed /\ Closed
      BY <2>5, RestoreQuiet, QuietAt DEF ActivateUndo, VerifyUndo, ReleaseUndone, Undoes, StageTrue, Over, Previewing
    <3>2. r # s
      BY <1>0, <1>2, <2>5, <3>1 DEF ActivateUndo, VerifyUndo, ReleaseUndone, Undoes
    <3>3. part'[s] = part[s] /\ shard'[s] = shard[s]
      <4>1. part'[s] = part[s]
        BY <2>5, <3>2 DEF ActivateUndo, VerifyUndo, ReleaseUndone, ControlTypes
      <4>2. shard'[s] = shard[s]
        BY <2>5, <3>2 DEF ActivateUndo, VerifyUndo, ReleaseUndone, Applied1
      <4>3. QED
        BY <4>1, <4>2
    <3>4. QED
      BY <1>2, <1>3, <2>0, <3>1, <3>3
  <2>6. QED
    BY <1>6, <2>1, <2>2, <2>3, <2>4, <2>5 DEF RollbackNext1
<1>7. QED
  BY <1>4, <1>5, <1>6

\* Every step keeps the admitted requests justified, and fenced shards
\* without one.
LEMMA HoldStep ==
  ASSUME ControlTypes, ActorTypes, StageTrue, PartTrue, MarkTrue, HoldTrue, [Next]_vars
  PROVE  HoldTrue'
<1>1. CASE UNCHANGED vars
  <2>1. UNCHANGED <<shard, part, hold, row, Closed>>
    BY <1>1 DEF vars, control, actors, Closed
  <2>2. QED
    BY <2>1, HoldKept DEF HoldTrue, HoldOK
<1>2. QED
  BY <1>1, ShardHold, CoordinatorHold, OperationHold DEF Next

-----------------------------------------------------------------------------
(* What a step of a closed operation makes of a participant and its shard. *)

Calm(s) == part'[s] = part[s] /\ Same(s)

\* The coordinator takes note of what the shard is.
Noted(s) == Same(s) /\
  \/ part[s] = "fenced" /\ part'[s] = "ready"
  \/ part[s] = "ready" /\ part'[s] = "loss_materialized" /\ MaterializeShardLoss(s)
  \/ part[s] = "staged" /\ part'[s] = "activation_requested"
  \/ part[s] = "activation_requested" /\ part'[s] = "restored" /\ shard[s].mark = "none"
  \/ part[s] = "restored" /\ part'[s] = "verified"
  \/ part[s] = "rollback_staged" /\ part'[s] = "rollback_activation_requested"
  \/ /\ part[s] = "rollback_activation_requested" /\ part'[s] = "rollback_verified"
     /\ shard[s].mark \notin {"undo-staging", "undo-staged"}

\* The marker is set or lifted.
Marked(s) == OnlyMark(s, shard'[s].mark) /\
  \/ part[s] = "previewed" /\ part'[s] \in {"previewed", "fenced"} /\ shard'[s].mark = "install"
  \/ part[s] \in {"previewed", "fenced"} /\ part'[s] = part[s] /\ shard'[s].mark \in {"none", shard[s].mark}
  \/ part[s] = "verified" /\ part'[s] \in {"verified", "released"} /\ shard'[s].mark = "none"
  \/ /\ part[s] \in {"rollback_verified", "rollback_not_needed"}
     /\ part'[s] \in {part[s], "rollback_released"} /\ shard'[s].mark = "none"

\* The provider is armed, to rewind or to undo.
Arms(s) ==
  /\ part[s] = "loss_materialized" /\ part'[s] \in {"loss_materialized", "staged"}
  /\ \/ Same(s) /\ shard[s].mark = "staged" /\ shard[s].armed = "target"
     \/ ArmedWith(s, "target", shard'[s].mark) /\ shard'[s].mark \in {"staging", "staged"}
  /\ part'[s] = "staged" => shard'[s].mark = "staged"
  /\ shard[s].mark = "none" => stray'
ArmsUndo(s) ==
  /\ part[s] = "rollback_pending" /\ part'[s] \in {"rollback_pending", "rollback_staged"}
  /\ \/ Same(s) /\ shard[s].mark = "undo-staged"
     \/ ArmedWith(s, "undo", shard'[s].mark) /\ shard'[s].mark \in {"undo-staging", "undo-staged"}

\* What is armed is applied.
Rewinds(s) ==
  /\ part[s] \in Armed /\ part'[s] = "activation_requested"
  /\ shard[s].mark = "staged" /\ shard[s].armed = "target" /\ RewoundTo(s)
Returns(s) ==
  /\ part[s] \in {"rollback_staged", "rollback_activation_requested"}
  /\ part'[s] = "rollback_activation_requested"
  /\ shard[s].mark = "undo-staged" /\ shard[s].armed = "undo" /\ UndoneTo(s)

\* Decisions are replayed, or made undone.
Replays(s) == part'[s] = part[s] /\ \E t \in Txs, upto \in Prefixes :
  ReconcileTransaction(t, upto) /\ IF s <= upto THEN OnlyTx(s, t, "committed") ELSE Same(s)
Discards(s) == part'[s] = part[s] /\ \E t \in Txs, ok \in BOOLEAN :
  DiscardCoordinator(t, ok) /\ OnlyTx(s, t, IF shard[s].db.tx[t] = "committed" THEN "committed" ELSE "aborted")

\* A rollback begins.
Turns(s) == Rollback /\ Same(s) /\ part'[s] = IF s \in undo THEN "rollback_pending" ELSE "rollback_not_needed"

Move(s) == \/ Calm(s) \/ Noted(s) \/ Marked(s) \/ Arms(s) \/ ArmsUndo(s) \/ Rewinds(s) \/ Returns(s)
           \/ Replays(s) \/ Discards(s) \/ Turns(s)

\* The shard an action takes has the status it looks for.
LEMMA StatusOfNext ==
  ASSUME NEW s, NEW status, Next1(s, {status})
  PROVE  part[s] = status
<1>1. With({status}) # {} /\ s = First(With({status})) /\ With({status}) \in SUBSET Shards
  BY DEF Next1, With
<1>2. s \in With({status})
  BY <1>1, FirstOfStatus
<1>3. QED
  BY <1>2 DEF With

\* A restore's step is, at each shard, one of the moves.
LEMMA RestoreMoves ==
  ASSUME ControlTypes, ActorTypes, StageTrue, PartTrue, MarkTrue, RestoreNext, NEW s \in Shards
  PROVE  Move(s)
<1> USE DEF ActorTypes
<1>1. MarkOK(s) /\ part[s] \in PartStatus /\ shard[s] \in ShardRow
  BY DEF MarkTrue, ControlTypes
<1>2. CASE FenceCatalogs \/ RevalidationEnds \/ LossMaterialized \/ ParticipantsRestored
             \/ TransactionsReconciled \/ ParticipantsVerified \/ CoordinatorsDiscarded \/ CompleteRestore
             \/ (\E late \in BOOLEAN : FencingEnds(late)) \/ \E t \in Txs : MaterializeCoordinatorLoss(t)
  <2>1. UNCHANGED <<shard, part>>
    BY <1>2 DEF FenceCatalogs, RevalidationEnds, LossMaterialized, ParticipantsRestored, TransactionsReconciled,
       ParticipantsVerified, CoordinatorsDiscarded, CompleteRestore, FencingEnds, MaterializeCoordinatorLoss, actors
  <2>2. QED
    BY <2>1 DEF Move, Calm, Same
<1>3. ASSUME NEW r \in Shards, RevalidateParticipant(r) \/ MaterializeShardLoss(r) \/ VerifyParticipant(r)
      PROVE  Move(s)
  <2>1. UNCHANGED shard
    BY <1>3 DEF RevalidateParticipant, MaterializeShardLoss, VerifyParticipant, actors
  <2>2. \/ part[r] = "fenced" /\ part' = [part EXCEPT ![r] = "ready"]
        \/ part[r] = "ready" /\ part' = [part EXCEPT ![r] = "loss_materialized"] /\ MaterializeShardLoss(r)
        \/ part[r] = "restored" /\ part' = [part EXCEPT ![r] = "verified"]
    <3>1. ASSUME NEW status, Next1(r, {status}) PROVE part[r] = status
      BY <3>1, StatusOfNext
    <3>2. QED
      BY <1>3, <3>1 DEF RevalidateParticipant, MaterializeShardLoss, VerifyParticipant
  <2>3. CASE r = s
    BY <2>1, <2>2, <2>3 DEF Move, Noted, Same, ControlTypes
  <2>4. CASE r # s
    BY <2>1, <2>2, <2>4 DEF Move, Calm, Same, ControlTypes
  <2>5. QED
    BY <2>3, <2>4
<1>4. ASSUME NEW r \in Shards, NEW ok \in BOOLEAN, FenceParticipant(r, ok) \/ ReleaseParticipant(r, ok)
      PROVE  Move(s)
  <2>1. \/ /\ Elsewhere(r) /\ OnlyMark(r, "install")
           /\ part[r] = "previewed" /\ part' \in {part, [part EXCEPT ![r] = "fenced"]}
        \/ /\ Elsewhere(r) /\ OnlyMark(r, "none")
           /\ part[r] = "verified" /\ part' \in {part, [part EXCEPT ![r] = "released"]}
    <3>1. ASSUME NEW status, Next1(r, {status}) PROVE part[r] = status
      BY <3>1, StatusOfNext
    <3>2. CASE FenceParticipant(r, ok)
      <4>1. shard' = [shard EXCEPT ![r] = LocalFence(@, "install")] /\ part[r] = "previewed"
            /\ part' \in {part, [part EXCEPT ![r] = "fenced"]}
        BY <3>1, <3>2 DEF FenceParticipant
      <4>2. QED
        BY <4>1, FenceEffect DEF Marks
    <3>3. CASE ReleaseParticipant(r, ok)
      <4>1. shard' = [shard EXCEPT ![r] = LocalFence(@, "none")] /\ part[r] = "verified"
            /\ part' \in {part, [part EXCEPT ![r] = "released"]}
        BY <3>1, <3>3 DEF ReleaseParticipant
      <4>2. QED
        BY <4>1, FenceEffect DEF Marks
    <3>4. QED
      BY <1>4, <3>2, <3>3
  <2>2. CASE r = s
    BY <2>1, <2>2 DEF Move, Marked, OnlyMark, ControlTypes
  <2>3. CASE r # s
    BY <2>1, <2>3 DEF Move, Calm, Same, Elsewhere, ControlTypes
  <2>4. QED
    BY <2>2, <2>3
<1>5. ASSUME NEW upto \in Prefixes, FailBeforeRestore(upto)
      PROVE  Move(s)
  <2>1. At \in {"fencing_catalogs", "fencing_participants"} /\ UNCHANGED part
    BY <1>5, FailBeforeStage DEF FailBeforeRestore
  <2>2. OnlyMark(s, IF s <= upto THEN "none" ELSE shard[s].mark)
    BY <1>5, FailEffect DEF Prefixes
  <2>3. part[s] \in {"previewed", "fenced"}
    BY <2>1 DEF PartTrue, StatusOf
  <2>4. QED
    BY <2>1, <2>2, <2>3 DEF Move, Marked, OnlyMark
<1>6. ASSUME NEW r \in Shards, NEW answer \in {"ok", "lost", "unsure"}, StageParticipant(r, answer)
      PROVE  Move(s)
  <2>1. Closed /\ part[r] = "loss_materialized"
    BY <1>6, StageParticipantStage DEF StageParticipant, Restores
  <2>2. CASE UNCHANGED <<shard, part>>
    BY <2>2 DEF Move, Calm, Same
  <2>3. CASE ~UNCHANGED <<shard, part>>
    <3>1. Staged(r, Forward, "target", answer) /\ part' = IF answer = "ok" THEN [part EXCEPT ![r] = "staged"] ELSE part
      BY <1>6, <2>3 DEF StageParticipant
    <3>2. /\ Elsewhere(r)
          /\ shard[r].mark = "staged" => Same(r)
          /\ shard[r].mark # "staged" => ArmedWith(r, "target", IF answer = "unsure" THEN "staging" ELSE "staged")
      BY <3>1, StagedEffect DEF Forward
    <3>3. CASE r # s
      BY <3>1, <3>2, <3>3 DEF Move, Calm, Same, Elsewhere, ControlTypes
    <3>4. CASE r = s
      <4>1. /\ part'[s] = IF answer = "ok" THEN "staged" ELSE "loss_materialized"
        BY <2>1, <3>1, <3>4 DEF ControlTypes
      <4>2. shard[s].mark = "none" => stray'
        BY <1>6, <2>3, <3>4 DEF StageParticipant
      <4>3. shard[s].mark = "staged" => shard[s].armed = "target"
        BY <1>1, <2>1, <3>4 DEF MarkOK, MarkFits, Early, Armed, Back
      <4>4. \/ Same(s) /\ shard[s].mark = "staged" /\ shard[s].armed = "target"
            \/ ArmedWith(s, "target", shard'[s].mark) /\ shard'[s].mark \in {"staging", "staged"}
        BY <3>2, <3>4, <4>3 DEF ArmedWith
      <4>5. answer = "ok" => shard'[s].mark = "staged"
        BY <3>2, <3>4 DEF ArmedWith, Same
      <4>6. Arms(s)
        BY <2>1, <3>4, <4>1, <4>2, <4>4, <4>5 DEF Arms
      <4>7. QED
        BY <4>6 DEF Move
    <3>5. QED
      BY <3>3, <3>4
  <2>4. QED
    BY <2>2, <2>3
<1>7. ASSUME NEW r \in Shards, NEW ok \in BOOLEAN, ActivateParticipant(r, ok) \/ VerifyActivation(r, ok)
      PROVE  Move(s)
  <2>1. Closed /\ part[r] \in Armed
    BY <1>7 DEF ActivateParticipant, VerifyActivation, Restores, StageTrue, Over, Previewing, Armed
  <2>2. /\ Elsewhere(r)
        /\ \/ Same(r) /\ part[r] = "staged" /\ part' = [part EXCEPT ![r] = "activation_requested"]
           \/ Same(r) /\ part[r] = "activation_requested" /\ shard[r].mark = "none" /\ part' = [part EXCEPT ![r] = "restored"]
           \/ Same(r) /\ part' = part
           \/ shard[r].mark = "staged" /\ (shard[r].armed = "target" => RewoundTo(r))
              /\ part' = [part EXCEPT ![r] = "activation_requested"]
    <3>1. CASE ActivateParticipant(r, ok)
      <4>1. /\ Applied1(r, "staged", ok) /\ "staged" \in Marks /\ part' = [part EXCEPT ![r] = "activation_requested"]
            /\ part[r] = "staged"
        BY <3>1 DEF ActivateParticipant, Marks, Restores
      <4>2. QED
        BY <4>1, AppliedEffect
    <3>2. CASE VerifyActivation(r, ok)
      <4>0. part[r] = "activation_requested"
        BY <3>2 DEF VerifyActivation, Restores
      <4>1. CASE Verified(shard[r])
        BY <3>2, <4>0, <4>1 DEF VerifyActivation, Verified, Elsewhere, Same
      <4>2. CASE ~Verified(shard[r])
        <5>1. Applied1(r, "staged", ok) /\ "staged" \in Marks /\ part' = part
          BY <3>2, <4>2 DEF VerifyActivation, Marks
        <5>2. part = [part EXCEPT ![r] = "activation_requested"]
          BY <4>0 DEF ControlTypes
        <5>3. QED
          BY <5>1, <5>2, AppliedEffect
      <4>3. QED
        BY <4>1, <4>2
    <3>3. QED
      BY <1>7, <3>1, <3>2
  <2>3. CASE r # s
    BY <2>2, <2>3 DEF Move, Calm, Same, Elsewhere, ControlTypes
  <2>4. CASE r = s
    <3>1. shard[s].mark = "staged" => shard[s].armed = "target"
      BY <1>1, <2>1, <2>4 DEF MarkOK, MarkFits, Armed, Early, Back
    <3>2. \/ Noted(s) \/ Calm(s) \/ Rewinds(s)
      BY <2>1, <2>2, <2>4, <3>1 DEF Noted, Calm, Rewinds, ControlTypes
    <3>3. QED
      BY <3>2 DEF Move
  <2>5. QED
    BY <2>3, <2>4
<1>8. ASSUME NEW t \in Txs, NEW upto \in Prefixes, ReconcileTransaction(t, upto)
      PROVE  Move(s)
  <2>1. part' = part /\ IF s <= upto THEN OnlyTx(s, t, "committed") ELSE Same(s)
    BY <1>8, ReconcileEffect DEF ReconcileTransaction, Prefixes
  <2>2. QED
    BY <1>8, <2>1 DEF Move, Replays
<1>9. ASSUME NEW t \in Txs, NEW ok \in BOOLEAN, DiscardCoordinator(t, ok)
      PROVE  Move(s)
  <2>1. part' = part /\ OnlyTx(s, t, IF shard[s].db.tx[t] = "committed" THEN "committed" ELSE "aborted")
    BY <1>9, DiscardEffect DEF DiscardCoordinator
  <2>2. QED
    BY <1>9, <2>1 DEF Move, Discards
<1>10. QED
  BY <1>2, <1>3, <1>4, <1>5, <1>6, <1>7, <1>8, <1>9 DEF RestoreNext

\* A rollback's step is, at each shard, one of the moves.
LEMMA RollbackMoves ==
  ASSUME ControlTypes, ActorTypes, StageTrue, PartTrue, MarkTrue, RollbackNext1, NEW s \in Shards
  PROVE  Move(s)
<1> USE DEF ActorTypes
<1>1. MarkOK(s) /\ part[s] \in PartStatus /\ shard[s] \in ShardRow
  BY DEF MarkTrue, ControlTypes
<1>2. CASE RetriesRunOut \/ Resume \/ ParticipantsUndone \/ CompleteRollback
  <2>1. UNCHANGED <<shard, part>>
    BY <1>2 DEF RetriesRunOut, Resume, ParticipantsUndone, CompleteRollback, actors
  <2>2. QED
    BY <2>1 DEF Move, Calm, Same
<1>3. CASE Rollback
  <2>1. shard' = shard /\ part'[s] = IF s \in undo THEN "rollback_pending" ELSE "rollback_not_needed"
    BY <1>3 DEF Rollback, actors
  <2>2. QED
    BY <1>3, <2>1 DEF Move, Turns, Same
<1>4. ASSUME NEW r \in Shards, NEW answer \in {"ok", "lost", "unsure"}, UndoParticipant(r, answer)
      PROVE  Move(s)
  <2>1. part[r] = "rollback_pending"
    BY <1>4 DEF UndoParticipant, Undoes
  <2>2. CASE UNCHANGED <<shard, part>>
    BY <2>2 DEF Move, Calm, Same
  <2>3. CASE ~UNCHANGED <<shard, part>>
    <3>1. Staged(r, Backward, "undo", answer) /\ part' = IF answer = "ok" THEN [part EXCEPT ![r] = "rollback_staged"] ELSE part
      BY <1>4, <2>3 DEF UndoParticipant
    <3>2. /\ Elsewhere(r)
          /\ shard[r].mark = "undo-staged" => Same(r)
          /\ shard[r].mark # "undo-staged" => ArmedWith(r, "undo", IF answer = "unsure" THEN "undo-staging" ELSE "undo-staged")
      BY <3>1, StagedEffect DEF Backward
    <3>3. CASE r # s
      BY <3>1, <3>2, <3>3 DEF Move, Calm, Same, Elsewhere, ControlTypes
    <3>4. CASE r = s
      <4>1. part'[s] \in {"rollback_staged", "rollback_pending"}
        BY <2>1, <3>1, <3>4 DEF ControlTypes
      <4>2. \/ Same(s) /\ shard[s].mark = "undo-staged"
            \/ ArmedWith(s, "undo", shard'[s].mark) /\ shard'[s].mark \in {"undo-staging", "undo-staged"}
        BY <3>2, <3>4 DEF ArmedWith
      <4>3. QED
        BY <2>1, <3>4, <4>1, <4>2 DEF Move, ArmsUndo
    <3>5. QED
      BY <3>3, <3>4
  <2>4. QED
    BY <2>2, <2>3
<1>5. ASSUME NEW r \in Shards, NEW ok \in BOOLEAN, ActivateUndo(r, ok) \/ VerifyUndo(r, ok)
      PROVE  Move(s)
  <2>1. Closed /\ part[r] \in {"rollback_staged", "rollback_activation_requested"}
    BY <1>5 DEF ActivateUndo, VerifyUndo, Undoes, StageTrue, Over, Previewing
  <2>2. /\ Elsewhere(r)
        /\ \/ Same(r) /\ part[r] = "rollback_staged" /\ part' = [part EXCEPT ![r] = "rollback_activation_requested"]
           \/ Same(r) /\ part[r] = "rollback_activation_requested" /\ part' = [part EXCEPT ![r] = "rollback_verified"]
              /\ shard[r].mark \notin {"undo-staging", "undo-staged"}
           \/ Same(r) /\ part' = part
           \/ shard[r].mark = "undo-staged" /\ (shard[r].armed = "undo" => UndoneTo(r))
              /\ part' = [part EXCEPT ![r] = "rollback_activation_requested"]
    <3>1. CASE ActivateUndo(r, ok)
      <4>1. /\ Applied1(r, "undo-staged", ok) /\ "undo-staged" \in Marks /\ part[r] = "rollback_staged"
            /\ part' = [part EXCEPT ![r] = "rollback_activation_requested"]
        BY <3>1 DEF ActivateUndo, Marks, Undoes
      <4>2. QED
        BY <4>1, AppliedEffect
    <3>2. CASE VerifyUndo(r, ok)
      <4>0. part[r] = "rollback_activation_requested"
        BY <3>2 DEF VerifyUndo, Undoes
      <4>1. CASE VerifiedUndone(shard[r])
        BY <3>2, <4>0, <4>1 DEF VerifyUndo, VerifiedUndone, Elsewhere, Same
      <4>2. CASE ~VerifiedUndone(shard[r])
        <5>1. Applied1(r, "undo-staged", ok) /\ "undo-staged" \in Marks /\ part' = part
          BY <3>2, <4>2 DEF VerifyUndo, Marks
        <5>2. part = [part EXCEPT ![r] = "rollback_activation_requested"]
          BY <4>0 DEF ControlTypes
        <5>3. QED
          BY <5>1, <5>2, AppliedEffect
      <4>3. QED
        BY <4>1, <4>2
    <3>3. QED
      BY <1>5, <3>1, <3>2
  <2>3. CASE r # s
    BY <2>2, <2>3 DEF Move, Calm, Same, Elsewhere, ControlTypes
  <2>4. CASE r = s
    <3>1. shard[s].mark = "undo-staged" => shard[s].armed = "undo"
      BY <1>1, <2>1, <2>4 DEF MarkOK, MarkFits, Armed, Early, Back
    <3>2. Noted(s) \/ Calm(s) \/ Returns(s)
      BY <2>1, <2>2, <2>4, <3>1 DEF Noted, Calm, Returns, ControlTypes
    <3>3. QED
      BY <3>2 DEF Move
  <2>5. QED
    BY <2>3, <2>4
<1>6. ASSUME NEW r \in Shards, NEW ok \in BOOLEAN, ReleaseUndone(r, ok)
      PROVE  Move(s)
  <2>1. Elsewhere(r) /\ OnlyMark(r, "none")
    BY <1>6, FenceEffect DEF ReleaseUndone, Marks
  <2>2. part[r] \in {"rollback_verified", "rollback_not_needed"} /\ part' \in {part, [part EXCEPT ![r] = "rollback_released"]}
    BY <1>6, FirstOfStatus DEF ReleaseUndone, Next1, With
  <2>3. CASE r # s
    BY <2>1, <2>2, <2>3 DEF Move, Calm, Same, Elsewhere, ControlTypes
  <2>4. CASE r = s
    BY <2>1, <2>2, <2>4 DEF Move, Marked, OnlyMark, ControlTypes
  <2>5. QED
    BY <2>3, <2>4
<1>7. QED
  BY <1>2, <1>3, <1>4, <1>5, <1>6 DEF RollbackNext1

-----------------------------------------------------------------------------
(* The course of an operation, and what it leaves alone. *)

LEMMA PreviewCourse ==
  ASSUME ControlTypes, StageTrue, PreviewNext
  PROVE  /\ ~Closed /\ UNCHANGED <<row, stray, losses, ended, registry>>
         /\ PassCutoff \/ UNCHANGED <<shard, cutoff>>
         /\ Closed' => Execute
         /\ At' \notin Losing \cup RollingBack
         /\ op'.stage = "complete" => op.stage = "complete" /\ op' = op
<1>0. {"previewed", "closing_manifest", "enumerating_manifest", "materializing_envelopes", "previewing_participants", "fencing_catalogs"}
        \cap (Losing \cup RollingBack) = {}
  BY DEF Losing, Restoring, RollingBack
<1>1. UNCHANGED <<row, stray, losses, ended, registry>>
  BY DEF PreviewNext, PassCutoff, Preview, CloseManifest, EnumerateManifest, MaterializeEnvelopes,
     PreviewParticipant, FinalizePlan, MoveTopology, Execute, actors
<1>2. PassCutoff \/ UNCHANGED <<shard, cutoff>>
  BY DEF PreviewNext, Preview, CloseManifest, EnumerateManifest, MaterializeEnvelopes,
     PreviewParticipant, FinalizePlan, MoveTopology, Execute, actors
<1>3. CASE Preview \/ CloseManifest \/ EnumerateManifest \/ MaterializeEnvelopes \/ FinalizePlan \/ Execute
  <2>1. At' \in {"previewed", "closing_manifest", "enumerating_manifest", "materializing_envelopes", "previewing_participants", "fencing_catalogs"}
        /\ ~Closed /\ (Closed' => Execute)
    BY <1>3, PreviewStages
  <2>2. op'.stage # "complete"
    BY <2>1 DEF At
  <2>3. QED
    BY <1>0, <1>1, <1>2, <2>1, <2>2
<1>4. CASE PassCutoff \/ MoveTopology \/ \E s \in Shards : PreviewParticipant(s)
  <2>1. Quiet
    BY <1>4, RestoreQuiet
  <2>2. op' = op /\ UNCHANGED <<At, Closed>> /\ ~Closed
    BY <1>4, <2>1, QuietAt DEF Quiet, PassCutoff, MoveTopology, PreviewParticipant, StageTrue, Over, Previewing
  <2>3. At = op.stage /\ At \notin Losing \cup RollingBack
    BY <2>2, WhereItIs DEF ControlTypes, Over, Previewing, Losing, Restoring, RollingBack
  <2>4. QED
    BY <1>1, <1>2, <2>2, <2>3
<1>5. QED
  BY <1>3, <1>4 DEF PreviewNext

\* A restore goes from its fences to its losses, never back, and ends
\* complete or failed.
LEMMA RestoreCourse ==
  ASSUME ControlTypes, StageTrue, RestoreNext
  PROVE  /\ Closed /\ op'.plan = op.plan /\ op'.existed = op.existed
         /\ At \in Fencing \cup Losing
         /\ ~Closed' => CompleteRestore \/ (At' = "failed" /\ At \in Fencing)
         /\ Closed' => At' \in Fencing \cup Losing
         /\ At' \in Losing => At \in Losing \/ At = "revalidating_participants"
         /\ At \in Losing /\ Closed' => At' \in Losing
         /\ op'.stage = "complete" => CompleteRestore
<1> DEFINE Holds == /\ Closed /\ op'.plan = op.plan /\ op'.existed = op.existed
                    /\ At \in Fencing \cup Losing
                    /\ ~Closed' => CompleteRestore \/ (At' = "failed" /\ At \in Fencing)
                    /\ Closed' => At' \in Fencing \cup Losing
                    /\ At' \in Losing => At \in Losing \/ At = "revalidating_participants"
                    /\ At \in Losing /\ Closed' => At' \in Losing
                    /\ op'.stage = "complete" => CompleteRestore
<1>0. /\ {"fencing_catalogs", "fencing_participants", "revalidating_participants"} = Fencing
      /\ {"materializing_loss", "restoring_participants", "reconciling", "verifying_participants",
          "discarding_coordinators", "releasing_participants"} = Losing
      /\ Fencing \cap Losing = {} /\ "complete" \notin Fencing \cup Losing
  BY DEF Fencing, Losing, Restoring
<1>1. CASE FenceCatalogs \/ RevalidationEnds \/ LossMaterialized \/ ParticipantsRestored
             \/ TransactionsReconciled \/ ParticipantsVerified \/ CoordinatorsDiscarded
  <2>1. SameRow /\ Closed /\ Closed' /\ At \in Fencing \cup Losing /\ At' \in Fencing \cup Losing
        /\ (At' \in Losing => At \in Losing \/ At = "revalidating_participants") /\ (At \in Losing => At' \in Losing)
    BY <1>0, <1>1, RestoreStages
  <2>2. op'.stage # "complete"
    BY <1>0, <2>1 DEF At
  <2>3. QED
    BY <2>1, <2>2 DEF SameRow
<1>2. CASE CompleteRestore
  <2>1. SameRow /\ Closed /\ ~Closed' /\ At = "releasing_participants" /\ At' = "complete"
    BY <1>2, RestoreStages
  <2>2. QED
    BY <1>0, <1>2, <2>1 DEF SameRow
<1>3. ASSUME NEW late \in BOOLEAN, FencingEnds(late) PROVE Holds
  <2>1. Closed /\ Closed' /\ At = "fencing_participants" /\ SameRow
         /\ At' \in {"fencing_participants", "revalidating_participants"}
    BY <1>3, FencingEndsStage
  <2>2. op'.stage # "complete"
    BY <2>1 DEF At
  <2>3. QED
    BY <1>0, <2>1, <2>2 DEF SameRow
<1>4. ASSUME NEW upto \in Prefixes, FailBeforeRestore(upto) PROVE Holds
  <2>1. /\ Closed /\ At \in {"fencing_catalogs", "fencing_participants"} /\ SameRow
        /\ upto = Cardinality(Shards) => ~Closed' /\ At' = "failed"
        /\ upto # Cardinality(Shards) => Closed' /\ At' = At
    BY <1>4, FailBeforeStage
  <2>2. op'.stage # "complete" /\ "failed" \notin Losing
    BY <1>0, <2>1 DEF At
  <2>3. QED
    BY <1>0, <2>1, <2>2 DEF SameRow
<1>5. ASSUME Closed, Closed', At' = At, At \in Fencing \cup Losing, op'.plan = op.plan, op'.existed = op.existed PROVE Holds
  <2>1. op'.stage # "complete"
    BY <1>0, <1>5 DEF At
  <2>2. QED
    BY <1>5, <2>1
<1>6. ASSUME NEW s \in Shards, NEW answer \in {"ok", "lost", "unsure"}, StageParticipant(s, answer) PROVE Holds
  BY <1>0, <1>5, <1>6, StageParticipantStage DEF SameRow
<1>7. ASSUME NEW t \in Txs, NEW upto \in Prefixes, ReconcileTransaction(t, upto) PROVE Holds
  BY <1>0, <1>5, <1>7, ReconcileStage, ReconcileOp DEF ControlTypes
<1>8. ASSUME NEW t \in Txs, NEW ok \in BOOLEAN, DiscardCoordinator(t, ok) PROVE Holds
  BY <1>0, <1>5, <1>8, DiscardStage DEF SameRow
<1>9. CASE \/ \E s \in Shards : RevalidateParticipant(s) \/ MaterializeShardLoss(s) \/ VerifyParticipant(s)
           \/ \E s \in Shards, ok \in BOOLEAN :
                FenceParticipant(s, ok) \/ ActivateParticipant(s, ok) \/ VerifyActivation(s, ok) \/ ReleaseParticipant(s, ok)
           \/ \E t \in Txs : MaterializeCoordinatorLoss(t)
  <2>1. Quiet
    BY <1>9, RestoreQuiet
  <2>2. op.stage \in Fencing \cup Losing
    BY <1>0, <1>9 DEF RevalidateParticipant, MaterializeShardLoss, VerifyParticipant, FenceParticipant, ActivateParticipant,
       VerifyActivation, ReleaseParticipant, MaterializeCoordinatorLoss, Restores
  <2>3. At = op.stage /\ Closed
    BY <2>2 DEF At, StageTrue, Fencing, Losing, Restoring, Over, Previewing
  <2>4. QED
    BY <1>5, <2>1, <2>2, <2>3, QuietAt DEF SameRow
<1>10. QED
  BY <1>1, <1>2, <1>3, <1>4, <1>6, <1>7, <1>8, <1>9 DEF RestoreNext

\* A rollback never turns into a restore, and ends with every shard released.
LEMMA RollbackCourse ==
  ASSUME ControlTypes, StageTrue, RollbackNext1
  PROVE  /\ SameRow /\ (Closed' => Closed)
         /\ Closed /\ ~Closed' => CompleteRollback
         /\ ~Closed => RetriesRunOut
         /\ At' \in Losing => At \in Losing
         /\ At' \in RollingBack => At \in RollingBack \/ Rollback
         /\ At \in RollingBack /\ Closed' => At' \in RollingBack
         /\ Closed /\ At \notin RollingBack => Rollback \/ (Closed' /\ At' = At)
         /\ op'.stage # "complete"
<1> DEFINE Holds == /\ SameRow /\ (Closed' => Closed)
                    /\ Closed /\ ~Closed' => CompleteRollback
                    /\ ~Closed => RetriesRunOut
                    /\ At' \in Losing => At \in Losing
                    /\ At' \in RollingBack => At \in RollingBack \/ Rollback
                    /\ At \in RollingBack /\ Closed' => At' \in RollingBack
                    /\ Closed /\ At \notin RollingBack => Rollback \/ (Closed' /\ At' = At)
                    /\ op'.stage # "complete"
<1>0. /\ {"rollback_participants", "rollback_releasing_participants"} = RollingBack
      /\ {"failed", "rolled_back"} \cap (Losing \cup RollingBack) = {} /\ RollingBack \cap Losing = {}
      /\ "complete" \notin ClosedStages
  BY DEF RollingBack, Losing, Restoring, ClosedStages, Fencing
<1>1. ASSUME Closed, Closed', At' = At, SameRow PROVE Holds
  <2>1. op'.stage # "complete"
    BY <1>0, <1>1, WhereItIs DEF At, ControlTypes
  <2>2. QED
    BY <1>1, <2>1
<1>2. CASE RetriesRunOut
  <2>1. CASE Closed
    BY <1>1, <1>2, <2>1, RetriesStage
  <2>2. CASE ~Closed
    <3>1. ~Closed' /\ At' = "failed" /\ SameRow
      BY <1>2, <2>2, RetriesStage
    <3>2. op'.stage # "complete"
      BY <3>1 DEF At
    <3>3. QED
      BY <1>0, <1>2, <2>2, <3>1, <3>2
  <2>3. QED
    BY <2>1, <2>2
<1>3. CASE Resume
  BY <1>1, <1>3, ResumeStage DEF ControlTypes
<1>4. CASE Rollback
  <2>1. Closed /\ Closed' /\ SameRow /\ At' = "rollback_participants"
    BY <1>4, RollbackStage
  <2>2. op'.stage # "complete"
    BY <2>1 DEF At
  <2>3. QED
    BY <1>0, <1>4, <2>1, <2>2
<1>5. CASE ParticipantsUndone \/ CompleteRollback
  <2>1. /\ SameRow /\ Closed /\ At \in RollingBack
        /\ ParticipantsUndone => Closed' /\ At' = "rollback_releasing_participants"
        /\ CompleteRollback => ~Closed' /\ At' = "rolled_back"
    BY <1>0, <1>5, UndoneStages
  <2>2. op'.stage # "complete"
    BY <1>5, <2>1 DEF At
  <2>3. QED
    BY <1>0, <1>5, <2>1, <2>2
<1>6. ASSUME NEW s \in Shards, NEW answer \in {"ok", "lost", "unsure"}, UndoParticipant(s, answer) PROVE Holds
  BY <1>1, <1>6, UndoParticipantStage
<1>7. ASSUME NEW s \in Shards, NEW ok \in BOOLEAN, ActivateUndo(s, ok) \/ VerifyUndo(s, ok) \/ ReleaseUndone(s, ok) PROVE Holds
  <2>1. Quiet
    BY <1>7, RestoreQuiet
  <2>2. op.stage \in RollingBack
    BY <1>0, <1>7 DEF ActivateUndo, VerifyUndo, ReleaseUndone, Undoes
  <2>3. Closed
    BY <2>2 DEF StageTrue, RollingBack, Over, Previewing
  <2>4. QED
    BY <1>1, <2>1, <2>3, QuietAt
<1>8. QED
  BY <1>2, <1>3, <1>4, <1>5, <1>6, <1>7 DEF RollbackNext1

\* Only a discard writes a coordinator's row, and only it and the reading of
\* the losses write the inventory.
Discarding(t) == /\ row' = [row EXCEPT ![t].discard = restores] /\ row[t].discard \in {0, restores}
                 /\ At = "discarding_coordinators" /\ work[t] = "discard_required"
\* A restore only adds losses and undo bookmarks, and records itself when it
\* completes.
LEMMA RestoreFrames ==
  ASSUME RestoreNext
  PROVE  /\ cutoff'.decided = cutoff.decided /\ restores' = restores /\ losses \subseteq losses'
         /\ UNCHANGED row \/ \E t \in Txs : Discarding(t) /\ work' \in {work, [work EXCEPT ![t] = "discarded"]}
         /\ \/ UNCHANGED work
            \/ \E t \in Txs : MaterializeCoordinatorLoss(t)
            \/ \E t \in Txs : Discarding(t) /\ work' = [work EXCEPT ![t] = "discarded"]
         /\ UNCHANGED ended \/ CompleteRestore
         /\ undo \subseteq undo'
<1>1. cutoff'.decided = cutoff.decided
  <2>1. CASE CompleteRestore
    <3>1. cutoff' = [cutoff EXCEPT !.set = FALSE]
      BY <2>1 DEF CompleteRestore
    <3>2. QED
      BY <3>1
  <2>2. CASE ~CompleteRestore
    BY <2>2 DEF RestoreNext, FenceCatalogs, RevalidationEnds, LossMaterialized, ParticipantsRestored,
       TransactionsReconciled, ParticipantsVerified, CoordinatorsDiscarded, FencingEnds,
       RevalidateParticipant, MaterializeShardLoss, VerifyParticipant, FenceParticipant,
       ActivateParticipant, VerifyActivation, ReleaseParticipant, StageParticipant, FailBeforeRestore,
       ReconcileTransaction, MaterializeCoordinatorLoss, DiscardCoordinator
  <2>3. QED
    BY <2>1, <2>2
<1>2. restores' = restores /\ losses \subseteq losses' /\ undo \subseteq undo'
  BY DEF RestoreNext, FenceCatalogs, RevalidationEnds, LossMaterialized, ParticipantsRestored,
       TransactionsReconciled, ParticipantsVerified, CoordinatorsDiscarded, CompleteRestore, FencingEnds,
       RevalidateParticipant, MaterializeShardLoss, VerifyParticipant, FenceParticipant,
       ActivateParticipant, VerifyActivation, ReleaseParticipant, StageParticipant, FailBeforeRestore,
       ReconcileTransaction, MaterializeCoordinatorLoss, DiscardCoordinator
<1>3. UNCHANGED ended \/ CompleteRestore
  BY DEF RestoreNext, FenceCatalogs, RevalidationEnds, LossMaterialized, ParticipantsRestored,
       TransactionsReconciled, ParticipantsVerified, CoordinatorsDiscarded, FencingEnds,
       RevalidateParticipant, MaterializeShardLoss, VerifyParticipant, FenceParticipant,
       ActivateParticipant, VerifyActivation, ReleaseParticipant, StageParticipant, FailBeforeRestore,
       ReconcileTransaction, MaterializeCoordinatorLoss, DiscardCoordinator
<1>4. ASSUME NEW t \in Txs, NEW ok \in BOOLEAN, DiscardCoordinator(t, ok)
      PROVE  \/ UNCHANGED <<row, work>>
             \/ Discarding(t) /\ work' \in {work, [work EXCEPT ![t] = "discarded"]}
  <2>1. op.stage = "discarding_coordinators" /\ At = op.stage /\ work[t] = "discard_required"
    BY <1>4 DEF DiscardCoordinator, At
  <2>2. CASE row[t].discard \notin {0, restores}
    BY <1>4, <2>2 DEF DiscardCoordinator
  <2>3. CASE row[t].discard \in {0, restores}
    <3>1. row' = [row EXCEPT ![t].discard = restores] /\ work' = IF ok THEN [work EXCEPT ![t] = "discarded"] ELSE work
      BY <1>4, <2>3 DEF DiscardCoordinator
    <3>2. QED
      BY <2>1, <2>3, <3>1 DEF Discarding
  <2>4. QED
    BY <2>2, <2>3
<1>5. CASE ~\E t \in Txs, ok \in BOOLEAN : DiscardCoordinator(t, ok)
  <2>1. CASE \E t \in Txs : MaterializeCoordinatorLoss(t)
    <3>1. UNCHANGED row
      BY <2>1 DEF MaterializeCoordinatorLoss, actors
    <3>2. QED
      BY <1>1, <1>2, <1>3, <2>1, <3>1
  <2>2. CASE ~\E t \in Txs : MaterializeCoordinatorLoss(t)
    <3>1. UNCHANGED row
      BY <1>5, <2>2 DEF RestoreNext, FenceCatalogs, RevalidationEnds, LossMaterialized, ParticipantsRestored,
       TransactionsReconciled, ParticipantsVerified, CoordinatorsDiscarded, CompleteRestore, FencingEnds,
       RevalidateParticipant, MaterializeShardLoss, VerifyParticipant, FenceParticipant,
       ActivateParticipant, VerifyActivation, ReleaseParticipant, StageParticipant, FailBeforeRestore,
       ReconcileTransaction, actors
    <3>2. UNCHANGED work
      BY <1>5, <2>2 DEF RestoreNext, FenceCatalogs, RevalidationEnds, LossMaterialized, ParticipantsRestored,
       TransactionsReconciled, ParticipantsVerified, CoordinatorsDiscarded, CompleteRestore, FencingEnds,
       RevalidateParticipant, MaterializeShardLoss, VerifyParticipant, FenceParticipant,
       ActivateParticipant, VerifyActivation, ReleaseParticipant, StageParticipant, FailBeforeRestore,
       ReconcileTransaction
    <3>3. QED
      BY <1>1, <1>2, <1>3, <3>1, <3>2
  <2>3. QED
    BY <2>1, <2>2
<1>6. QED
  BY <1>1, <1>2, <1>3, <1>4, <1>5

\* A rollback leaves the inventory, the losses and the cutoff as they are.
LEMMA RollbackFrames ==
  ASSUME RollbackNext1
  PROVE  UNCHANGED <<undo, work, losses, ended, cutoff, restores, row>>
BY DEF RollbackNext1, RetriesRunOut, Resume, Rollback, ParticipantsUndone, CompleteRollback,
     UndoParticipant, ActivateUndo, VerifyUndo, ReleaseUndone, actors

-----------------------------------------------------------------------------
(* Decisions and cutoffs. *)

SameData(s) == /\ shard'[s].db = shard[s].db /\ shard'[s].last = shard[s].last
               /\ shard'[s].target = shard[s].target /\ shard'[s].head = shard[s].head

\* A shard that keeps its data stays rewound, or what it was.
LEMMA DecidedFrame ==
  ASSUME NEW s \in Shards, RewoundOK(s), Decided \subseteq Decided', cutoff'.decided = cutoff.decided, SameData(s),
         Closed' /\ part'[s] \in Back => Closed /\ (part[s] \in Back \/ (part[s] \in Armed /\ shard[s].mark = "none")),
         Closed' /\ part'[s] \in Armed /\ shard'[s].mark = "none" => Closed /\ part[s] \in Armed /\ shard[s].mark = "none"
  PROVE  RewoundOK(s)'
<1>1. UNCHANGED Rewound(s)
  BY DEF Rewound, SameData, Committed
<1>2. /\ Committed(shard'[s].db) = Committed(shard[s].db) /\ Committed(shard'[s].last) = Committed(shard[s].last)
      /\ Committed(shard'[s].target) = Committed(shard[s].target) /\ Committed(shard'[s].head) = Committed(shard[s].head)
  BY DEF SameData
<1>3. QED
  BY <1>1, <1>2 DEF RewoundOK, Committed

\* A shard commits what its coordinator decided, and not while it is rewound.
LEMMA ShardDecided ==
  ASSUME ControlTypes, ActorTypes, MarkTrue, HoldTrue, DecidedTrue, ShardNext
  PROVE  DecidedTrue'
<1> USE DEF ActorTypes
<1>0. UNCHANGED <<part, op, gate, cutoff, registry, row, Closed, Decided>>
  BY ShardFrame DEF control, Closed, Decided
<1>1. SUFFICES ASSUME NEW r \in Shards PROVE RewoundOK(r)'
  BY <1>0 DEF DecidedTrue
<1>2. RewoundOK(r) /\ MarkOK(r) /\ HoldOK(r) /\ cutoff.decided \subseteq Decided /\ shard[r] \in ShardRow
  BY DEF DecidedTrue, MarkTrue, HoldTrue
<1>3. CASE shard'[r] = shard[r]
  BY <1>0, <1>2, <1>3, DecidedFrame DEF SameData
<1>4. ASSUME NEW certify \in BOOLEAN, Mutate(r, certify), shard[r].mark = "none" PROVE RewoundOK(r)'
  <2>1. hold[r] # Free /\ (Closed => part[r] \in {"previewed", "rollback_not_needed"})
    BY <1>2, <1>4 DEF Mutate, HoldOK
  <2>2. ~(Closed' /\ part'[r] \in Armed \cup Back)
    BY <1>0, <2>1 DEF Armed, Back
  <2>3. Served(r) /\ shard'[r].last \in {shard[r].last, shard'[r].db}
        /\ shard'[r].target = shard[r].target /\ shard'[r].head = shard[r].head
    BY <1>4, MutateEffect
  <2>4. Committed(shard'[r].db) \subseteq Decided
    <3>1. CASE hold[r] = <<"write", "none">>
      <4>1. shard'[r].db.tx = shard[r].db.tx
        BY <2>3, <3>1 DEF Served
      <4>2. QED
        BY <1>2, <4>1 DEF Committed, RewoundOK
    <3>2. ASSUME NEW what \in {"prepare", "commit", "abort"}, NEW t \in Txs, hold[r] = <<what, t>>,
                 shard'[r].db.tx[t] = Outcome(what), \A u \in Txs \ {t} : shard'[r].db.tx[u] = shard[r].db.tx[u]
          PROVE  Committed(shard'[r].db) \subseteq Decided
      <4>1. Outcome(what) = "committed" => t \in Decided
        BY <1>2, <3>2 DEF Outcome, HoldOK, Decided
      <4>2. Committed(shard[r].db) \subseteq Decided
        BY <1>2 DEF RewoundOK
      <4>3. QED
        BY <3>2, <4>1, <4>2 DEF Committed
    <3>3. QED
      BY <2>3, <3>1, <3>2 DEF Served
  <2>5. /\ Committed(shard'[r].last) \subseteq Decided /\ Committed(shard'[r].head) \subseteq Decided
        /\ Committed(shard'[r].target) \subseteq cutoff.decided
    BY <1>2, <2>3, <2>4 DEF RewoundOK
  <2>6. QED
    BY <1>0, <2>2, <2>4, <2>5 DEF RewoundOK, Committed, Rewound
<1>5. ASSUME NEW s \in Shards, NEW certify \in BOOLEAN, Mutate(s, certify) PROVE RewoundOK(r)'
  <2>1. r # s \/ shard[r].mark # "none" => shard'[r] = shard[r]
    BY <1>5, MutateEffect DEF Elsewhere, Same
  <2>2. QED
    BY <1>3, <1>4, <1>5, <2>1
<1>6. ASSUME NEW s \in Shards, RestartShard(s) PROVE RewoundOK(r)'
  <2>1. shard' = [shard EXCEPT ![s] = Restarted(s, shard[s])]
    BY <1>6 DEF RestartShard
  <2>2. /\ Elsewhere(s)
        /\ shard[s].armed = "target" => RewoundTo(s)
        /\ shard[s].armed = "undo" => UndoneTo(s)
        /\ shard[s].armed = "none" => Same(s)
    <3>1. shard[s] \in ShardRow
      OBVIOUS
    <3>2. QED
      BY <2>1, <3>1, RestartEffect DEF Same
  <2>3. CASE r # s
    BY <1>3, <2>2, <2>3 DEF Elsewhere
  <2>4. CASE r = s /\ shard[s].armed = "target"
    <3>1. shard'[r].db = shard[r].target /\ shard'[r].last = shard[r].target
          /\ shard'[r].target = shard[r].target /\ shard'[r].head = shard[r].head
      BY <2>2, <2>4 DEF RewoundTo
    <3>2. Committed(shard[r].target) \subseteq cutoff.decided
      BY <1>2 DEF RewoundOK
    <3>3. QED
      BY <1>0, <1>2, <3>1, <3>2 DEF RewoundOK, Committed, Rewound
  <2>5. CASE r = s /\ shard[s].armed = "undo"
    <3>1. UndoneTo(r)
      BY <2>2, <2>5
    <3>2. ~(Closed /\ part[r] \in Back)
      BY <1>2, <2>5 DEF MarkOK, MarkFits, Early, Armed, Back
    <3>3. QED
      BY <1>0, <1>2, <3>1, <3>2 DEF RewoundOK, Committed, Rewound, UndoneTo
  <2>6. CASE r = s /\ shard[s].armed = "none"
    BY <1>3, <2>2, <2>6 DEF Same
  <2>7. QED
    BY <2>3, <2>4, <2>5, <2>6 DEF ShardRow
<1>7. CASE shard' = shard
  BY <1>3, <1>7
<1>8. QED
  BY <1>5, <1>6, <1>7 DEF ShardNext, Admit

\* A decision comes through an open gate and of a registered coordinator.
LEMMA CoordinatorDecided ==
  ASSUME ControlTypes, ActorTypes, StageTrue, DecidedTrue, WorkTrue, CoordinatorNext
  PROVE  DecidedTrue'
<1>1. UNCHANGED <<gate, part, cutoff, shard, Closed>>
  BY CoordinatorFrame DEF Closed
<1>2. PICK t \in Txs : \/ RegisterNew(t) \/ AskGate(t) \/ BeginRow(t) \/ Vote(t)
                       \/ \E by \in {"request", "alarm"} : RegisterLate(t, by) \/ RegisterOpen(t, by)
                       \/ DecideCommit(t) \/ DecideAbort(t) \/ DiscardMissed(t) \/ Leave(t)
  BY DEF CoordinatorNext
<1>3. op'.plan = op.plan
  BY <1>2, LateFields DEF RegisterNew, AskGate, BeginRow, Vote, RegisterOpen, DecideCommit,
     DecideAbort, DiscardMissed, Leave, Permitted, control, ControlTypes
<1>4. registry \subseteq registry' /\ (DecideCommit(t) => t \in registry)
  BY <1>2 DEF RegisterNew, AskGate, BeginRow, Vote, RegisterLate, RegisterOpen, DecideCommit,
     DecideAbort, DiscardMissed, Leave, Permitted, control, WorkTrue
<1>5. Decided \subseteq Decided'
  BY RowsStayCommitted DEF Decided
<1>6. Decided' \subseteq Decided \cup (IF DecideCommit(t) THEN {t} ELSE {})
  BY <1>2 DEF RegisterNew, AskGate, BeginRow, Vote, RegisterLate, RegisterOpen, DecideCommit,
     DecideAbort, DiscardMissed, Leave, Permitted, Decided, ActorTypes, TxRow
<1>7. \A s \in Shards : RewoundOK(s)'
  BY <1>1, <1>5, DecidedFrame DEF DecidedTrue, SameData
<1>8. QED
  BY <1>1, <1>3, <1>4, <1>5, <1>6, <1>7 DEF DecidedTrue

\* The steps of a closed operation.
LEMMA MovesDecided ==
  ASSUME ControlTypes, ActorTypes, StageTrue, PartTrue, MarkTrue, DecidedTrue, RestoreNext \/ RollbackNext1,
         NEW s \in Shards, Decided' = Decided, cutoff'.decided = cutoff.decided
  PROVE  RewoundOK(s)'
<1>1. RewoundOK(s) /\ MarkOK(s) /\ cutoff.decided \subseteq Decided /\ op.plan \subseteq cutoff.decided
      /\ shard[s] \in ShardRow
  BY DEF DecidedTrue, MarkTrue, ActorTypes
<1>2. Closed' => Closed
  BY RestoreCourse, RollbackCourse
<1>3. Move(s)
  BY RestoreMoves, RollbackMoves
<1>4. ASSUME SameData(s),
             part'[s] \in Back => part[s] \in Back \/ (part[s] \in Armed /\ shard[s].mark = "none"),
             part'[s] \in Armed /\ shard'[s].mark = "none" => part[s] \in Armed /\ shard[s].mark = "none"
      PROVE  RewoundOK(s)'
  BY <1>1, <1>2, <1>4, DecidedFrame
<1>5. CASE Calm(s) \/ Noted(s)
  <2>1. SameData(s) /\ shard'[s].mark = shard[s].mark
    BY <1>5 DEF Calm, Noted, Same, SameData
  <2>2. /\ part'[s] \in Back => part[s] \in Back \/ (part[s] \in Armed /\ shard[s].mark = "none")
        /\ part'[s] \in Armed => part[s] \in Armed
    BY <1>5 DEF Calm, Noted, Armed, Back
  <2>3. QED
    BY <1>4, <2>1, <2>2
<1>6. CASE Marked(s) \/ Turns(s)
  <2>1. SameData(s)
    BY <1>6 DEF Marked, Turns, OnlyMark, Same, SameData
  <2>2. part'[s] \notin Armed /\ (part'[s] \in Back => part[s] \in Back)
    BY <1>6 DEF Marked, Turns, Armed, Back
  <2>3. QED
    BY <1>4, <2>1, <2>2
<1>7. CASE Arms(s) \/ ArmsUndo(s)
  <2>1. /\ shard'[s].db = shard[s].db /\ shard'[s].last = shard[s].last /\ shard'[s].target = shard[s].target
        /\ shard'[s].head \in {shard[s].head, shard[s].db}
    BY <1>7 DEF Arms, ArmsUndo, Same, ArmedWith
  <2>2. part'[s] \notin Back /\ ~(part'[s] \in Armed /\ shard'[s].mark = "none")
    BY <1>7 DEF Arms, ArmsUndo, Armed, Back
  <2>3. QED
    BY <1>1, <2>1, <2>2 DEF RewoundOK, Committed
<1>8. CASE Rewinds(s)
  <2>1. shard'[s].db = shard[s].target /\ shard'[s].last = shard[s].target
          /\ shard'[s].target = shard[s].target /\ shard'[s].head = shard[s].head
    BY <1>8 DEF Rewinds, RewoundTo
  <2>2. QED
    BY <1>1, <2>1 DEF RewoundOK, Committed, Rewound
<1>9. CASE Returns(s)
  <2>1. UndoneTo(s) /\ part'[s] \notin Armed \cup Back
    BY <1>9 DEF Returns, Armed, Back
  <2>2. QED
    BY <1>1, <2>1 DEF RewoundOK, Committed, UndoneTo
<1>10. CASE Replays(s)
  <2>1. PICK t \in op.plan : OnlyTx(s, t, "committed") \/ Same(s)
    BY <1>10 DEF Replays, ReconcileTransaction
  <2>2. t \in cutoff.decided /\ part'[s] = part[s]
    BY <1>1, <1>10, <2>1 DEF Replays
  <2>3. CASE Same(s)
    BY <1>4, <2>2, <2>3 DEF Same, SameData
  <2>4. CASE OnlyTx(s, t, "committed")
    <3>1. /\ Committed(shard'[s].db) \subseteq Committed(shard[s].db) \cup {t}
          /\ shard'[s].last = shard[s].last /\ shard'[s].target = shard[s].target /\ shard'[s].head = shard[s].head
          /\ shard'[s].mark = shard[s].mark
      BY <2>4 DEF OnlyTx, Committed
    <3>2. QED
      BY <1>1, <1>2, <2>2, <3>1 DEF RewoundOK, Rewound, Committed
  <2>5. QED
    BY <2>1, <2>3, <2>4
<1>11. CASE Discards(s)
  <2>1. /\ Committed(shard'[s].db) \subseteq Committed(shard[s].db) /\ part'[s] = part[s]
        /\ shard'[s].last = shard[s].last /\ shard'[s].target = shard[s].target /\ shard'[s].head = shard[s].head
        /\ shard'[s].mark = shard[s].mark
    <3>1. PICK t \in Txs : OnlyTx(s, t, IF shard[s].db.tx[t] = "committed" THEN "committed" ELSE "aborted")
      BY <1>11 DEF Discards
    <3>2. QED
      BY <1>11, <3>1 DEF OnlyTx, Committed, Discards
  <2>2. QED
    BY <1>1, <1>2, <2>1 DEF RewoundOK, Rewound, Committed
<1>12. QED
  BY <1>3, <1>5, <1>6, <1>7, <1>8, <1>9, <1>10, <1>11 DEF Move

\* A preview takes its cutoff and plan from what is decided.
LEMMA PreviewDecided ==
  ASSUME ControlTypes, ActorTypes, StageTrue, PartTrue, DecidedTrue, PreviewNext
  PROVE  DecidedTrue'
<1>1. UNCHANGED <<row, registry, Decided>> /\ ~Closed /\ (PassCutoff \/ UNCHANGED <<shard, cutoff>>) /\ (Closed' => Execute)
  BY PreviewCourse DEF Decided
<1>2. Closed' => \A s \in Shards : part'[s] = "previewed"
  BY <1>1, PreviewStages DEF Execute, PartTrue, StatusOf
<1>3. \A s \in Shards : ~(Closed' /\ part'[s] \in Armed \cup Back)
  BY <1>2 DEF Armed, Back
<1>4. CASE PassCutoff
  <2>1. cutoff'.decided = Decided /\ op' = op
    BY <1>4 DEF PassCutoff, Decided
  <2>2. \A s \in Shards : /\ shard'[s].target = shard[s].last
                          /\ shard'[s].db = shard[s].db /\ shard'[s].last = shard[s].last
                          /\ shard'[s].head = shard[s].head
    BY <1>4, CutoffEffect DEF ActorTypes
  <2>3. \A s \in Shards : RewoundOK(s)'
    BY <1>1, <1>3, <2>1, <2>2 DEF DecidedTrue, RewoundOK, Committed
  <2>4. QED
    BY <1>1, <2>1, <2>3 DEF DecidedTrue
<1>5. CASE UNCHANGED <<shard, cutoff>>
  <2>1. op'.plan \subseteq cutoff.decided
    <3>1. CASE Preview
      <4>1. op'.plan = {}
        BY <3>1 DEF Preview
      <4>2. QED
        BY <4>1
    <3>2. CASE EnumerateManifest
      <4>1. op'.plan = cutoff.decided \ DiscardedBefore
        BY <3>2 DEF EnumerateManifest, ControlTypes, OpRow
      <4>2. QED
        BY <4>1
    <3>3. CASE ~Preview /\ ~EnumerateManifest
      <4>1. op'.plan = op.plan
        BY <3>3, PreviewStages, RestoreQuiet, QuietAt DEF PreviewNext, SameRow
      <4>2. QED
        BY <4>1 DEF DecidedTrue
    <3>4. QED
      BY <3>1, <3>2, <3>3
  <2>2. \A s \in Shards : RewoundOK(s)'
    BY <1>1, <1>3, <1>5, DecidedFrame DEF DecidedTrue, SameData
  <2>3. QED
    BY <1>1, <1>5, <2>1, <2>2 DEF DecidedTrue
<1>6. QED
  BY <1>1, <1>4, <1>5

\* Every step keeps commits among the decided, those of a rewound shard
\* among the cutoff's.
LEMMA DecidedStep ==
  ASSUME ControlTypes, ActorTypes, StageTrue, PartTrue, MarkTrue, HoldTrue, DecidedTrue, WorkTrue, [Next]_vars
  PROVE  DecidedTrue'
<1>1. CASE UNCHANGED vars
  <2>1. UNCHANGED <<op, cutoff, row, registry, part, shard, Closed>>
    BY <1>1 DEF vars, control, actors, Closed
  <2>2. QED
    BY <2>1 DEF DecidedTrue, Decided, RewoundOK, Rewound, Committed
<1>2. CASE RestoreNext \/ RollbackNext1
  <2>1. UNCHANGED registry /\ op'.plan = op.plan
    BY <1>2, OperationFrame, RestoreCourse, RollbackCourse DEF SameRow
  <2>2. cutoff'.decided = cutoff.decided
    BY <1>2, RestoreFrames, RollbackFrames
  <2>3. Decided' = Decided
    <3>1. UNCHANGED row \/ \E t \in Txs : row' = [row EXCEPT ![t].discard = restores]
      BY <1>2, RestoreFrames, RollbackFrames DEF Discarding
    <3>2. QED
      BY <3>1 DEF Decided, ActorTypes, TxRow
  <2>4. \A s \in Shards : RewoundOK(s)'
    BY <1>2, <2>2, <2>3, MovesDecided
  <2>5. QED
    BY <2>1, <2>2, <2>3, <2>4 DEF DecidedTrue
<1>3. QED
  BY <1>1, <1>2, ShardDecided, CoordinatorDecided, PreviewDecided DEF Next

-----------------------------------------------------------------------------
(* The inventory, and the operations that have ended. *)

\* What is decided, or discarded, stays so.
RowGrows(t) ==
  /\ row[t].state # "none" => row'[t].state # "none"
  /\ row[t].state = "aborted" => row'[t].state = "aborted"
  /\ row[t].state = "committed" => row'[t].state = "committed"
  /\ row[t].discard # 0 => row'[t].discard # 0
  /\ row[t].state # "committed" /\ row'[t].state = "committed" => DecideCommit(t)

\* The restore that a missed transaction is discarded for.
LEMMA MissedOne ==
  ASSUME ControlTypes, EndedTrue, NEW t \in Txs, Missed(t) # {}
  PROVE  \E i \in DOMAIN ended : First(Missed(t)) = i /\ i \in Missed(t) /\ ended[i].id # 0
<1>1. First(Missed(t)) \in Missed(t)
  BY FirstOfMissed DEF ControlTypes
<1>2. QED
  BY <1>1 DEF Missed, EndedTrue, EndedOK

\* A coordinator's visit takes back no decision and no discard.
LEMMA CoordinatorRows ==
  ASSUME ControlTypes, ActorTypes, WorkTrue, EndedTrue, CoordinatorNext
  PROVE  \A t \in Txs : RowGrows(t)
<1> USE DEF ActorTypes
<1>1. PICK t \in Txs : \/ RegisterNew(t) \/ AskGate(t) \/ BeginRow(t) \/ Vote(t)
                       \/ \E by \in {"request", "alarm"} : RegisterLate(t, by) \/ RegisterOpen(t, by)
                       \/ DecideCommit(t) \/ DecideAbort(t) \/ DiscardMissed(t) \/ Leave(t)
  BY DEF CoordinatorNext
<1>2. CASE UNCHANGED row
  BY <1>2 DEF RowGrows
<1>3. CASE BeginRow(t) \/ Vote(t) \/ DecideCommit(t) \/ DecideAbort(t)
  BY <1>3 DEF BeginRow, Vote, DecideCommit, DecideAbort, Permitted, TxRow, RowGrows
<1>4. CASE DiscardMissed(t)
  <2>1. Missed(t) # {}
    BY <1>4 DEF DiscardMissed, WorkTrue
  <2>2. ended[First(Missed(t))].id # 0
    BY <2>1, MissedOne
  <2>3. row' = [row EXCEPT ![t].discard = ended[First(Missed(t))].id]
    BY <1>4 DEF DiscardMissed
  <2>4. QED
    BY <2>2, <2>3 DEF TxRow, RowGrows
<1>5. QED
  BY <1>1, <1>2, <1>3, <1>4 DEF RegisterNew, AskGate, RegisterLate, RegisterOpen, Leave

\* No step takes back a decision or a discard.
LEMMA RowsStep ==
  ASSUME ControlTypes, ActorTypes, StageTrue, WorkTrue, EndedTrue, [Next]_vars
  PROVE  \A t \in Txs : RowGrows(t)
<1>1. CASE UNCHANGED vars \/ ShardNext \/ PreviewNext
  <2>1. UNCHANGED row
    BY <1>1, ShardFrame, PreviewCourse DEF vars, actors
  <2>2. QED
    BY <2>1 DEF RowGrows
<1>2. CASE RestoreNext \/ RollbackNext1
  <2>1. UNCHANGED row \/ \E t \in Txs : row' = [row EXCEPT ![t].discard = restores] /\ restores # 0
    <3>1. \A t \in Txs : Discarding(t) => restores # 0
      BY DEF Discarding, StageTrue, At
    <3>2. QED
      BY <1>2, <3>1, RestoreFrames, RollbackFrames DEF Discarding
  <2>2. QED
    BY <2>1 DEF RowGrows, ActorTypes, TxRow
<1>3. QED
  BY <1>1, <1>2, CoordinatorRows DEF Next

\* The completed restores stay on record.
LEMMA EndedGrows ==
  ASSUME ControlTypes, StageTrue, [Next]_vars
  PROVE  /\ UNCHANGED ended \/ CompleteRestore
         /\ DOMAIN ended \subseteq DOMAIN ended' /\ \A i \in DOMAIN ended : ended'[i] = ended[i]
<1>1. UNCHANGED ended \/ CompleteRestore
  BY ShardFrame, CoordinatorFrame, PreviewCourse, RestoreFrames, RollbackFrames DEF Next, vars, control
<1>2. CASE CompleteRestore
  <2>1. \E e : ended' = Append(ended, e)
    BY <1>2 DEF CompleteRestore
  <2>2. QED
    BY <1>2, <2>1, AppendProperties, LenProperties DEF ControlTypes
<1>3. QED
  BY <1>1, <1>2

\* What a restore missed stays missed, and only a completed restore misses
\* more.
LEMMA MissedGrows ==
  ASSUME ControlTypes, StageTrue, [Next]_vars, NEW t
  PROVE  Missed(t) \subseteq Missed(t)' /\ (UNCHANGED ended => Missed(t)' = Missed(t))
BY EndedGrows DEF Missed

\* A visit registers before it decides, and asks what restores made of its
\* transaction.
LEMMA CoordinatorWork ==
  ASSUME ControlTypes, ActorTypes, StageTrue, WorkTrue, EndedTrue, CoordinatorNext
  PROVE  WorkTrue'
<1> USE DEF ActorTypes
<1>1. UNCHANGED <<gate, ended, cutoff, Closed>>
  BY CoordinatorFrame DEF Closed
<1>2. PICK t \in Txs : \/ RegisterNew(t) \/ AskGate(t) \/ BeginRow(t) \/ Vote(t)
                       \/ \E by \in {"request", "alarm"} : RegisterLate(t, by) \/ RegisterOpen(t, by)
                       \/ DecideCommit(t) \/ DecideAbort(t) \/ DiscardMissed(t) \/ Leave(t)
  BY DEF CoordinatorNext
<1>3. op'.existed = op.existed
  BY <1>2, LateFields DEF RegisterNew, AskGate, BeginRow, Vote, RegisterOpen, DecideCommit,
     DecideAbort, DiscardMissed, Leave, Permitted, control, ControlTypes
<1>4. \A u \in Txs : Missed(u)' = Missed(u)
  BY <1>1 DEF Missed
<1>5. \A u \in Txs : RowGrows(u)
  BY CoordinatorRows
<1>6. /\ registry \subseteq registry' /\ registry' \subseteq registry \cup {t}
      /\ \A u \in Txs \ {t} : visit'[u] = visit[u]
      /\ visit'[t].step \in {"registered", "late", "permit"} => t \in registry'
      /\ visit'[t].step = "cleanup" => visit[t].step = "cleanup" \/ MustDiscard(t)
  <2>1. CASE RegisterNew(t) \/ \E by \in {"request", "alarm"} : RegisterLate(t, by) \/ RegisterOpen(t, by)
    <3>1. registry' = registry \cup {t} /\ \E step, by : visit' = [visit EXCEPT ![t] = [step |-> step, by |-> by]]
              /\ (step = "cleanup" => MustDiscard(t))
      BY <2>1 DEF RegisterNew, RegisterLate, RegisterOpen
    <3>2. QED
      BY <3>1
  <2>2. CASE AskGate(t)
    <3>1. registry' = registry /\ visit[t].step \in {"registered", "late"}
          /\ visit' \in {[visit EXCEPT ![t] = [@ EXCEPT !.step = "permit"]], [visit EXCEPT ![t] = Idle]}
      BY <2>2 DEF AskGate
    <3>2. QED
      BY <3>1 DEF WorkTrue, Idle, Visit
  <2>3. CASE BeginRow(t) \/ DecideCommit(t) \/ DecideAbort(t)
    <3>1. visit[t].step = "permit" /\ registry' = registry
          /\ visit' \in {[visit EXCEPT ![t] = [step |-> "registered", by |-> "request"]], [visit EXCEPT ![t] = Idle]}
      BY <2>3 DEF BeginRow, DecideCommit, DecideAbort, Permitted, control
    <3>2. QED
      BY <3>1 DEF WorkTrue, Idle
  <2>4. CASE Vote(t)
    BY <2>4 DEF Vote, control, WorkTrue
  <2>5. CASE DiscardMissed(t) \/ Leave(t)
    BY <2>5 DEF DiscardMissed, Leave, control, Idle
  <2>6. QED
    BY <1>2, <2>1, <2>2, <2>3, <2>4, <2>5
<1>7. /\ Closed /\ registry' # registry => \E by : RegisterLate(t, by)
      /\ work' = work \/ (work[t] = "none" /\ work' = [work EXCEPT ![t] = "pending_loss"])
      /\ (\E by : RegisterLate(t, by)) => work'[t] # "none"
  <2>1. ASSUME NEW by, RegisterLate(t, by)
        PROVE  /\ work' = work \/ (work[t] = "none" /\ work' = [work EXCEPT ![t] = "pending_loss"])
               /\ work'[t] # "none"
    <3>1. work' = [work EXCEPT ![t] = IF @ = "none" THEN "pending_loss" ELSE @]
      BY <2>1 DEF RegisterLate
    <3>2. QED
      BY <3>1 DEF ControlTypes
  <2>2. CASE ~\E by : RegisterLate(t, by)
    BY <1>2, <2>2 DEF RegisterNew, AskGate, BeginRow, Vote, RegisterOpen, DecideCommit,
       DecideAbort, DiscardMissed, Leave, Permitted, control, Closed
  <2>3. QED
    BY <2>1, <2>2
<1>8. /\ \A u \in Txs : visit'[u].step \in {"registered", "late", "permit"} => u \in registry'
      /\ \A u \in Txs : visit'[u].step = "cleanup" => Missed(u)' # {}
  BY <1>4, <1>6 DEF WorkTrue, MustDiscard
<1>9. Closed => \A u \in registry' : work'[u] # "none"
  <2>1. CASE registry' = registry
    BY <1>7, <2>1 DEF WorkTrue, ControlTypes
  <2>2. CASE registry' # registry
    BY <1>6, <1>7, <2>2 DEF WorkTrue, ControlTypes
  <2>3. QED
    BY <2>1, <2>2
<1>10. Closed => \A u \in Txs :
       /\ work'[u] \in {"discard_required", "discarded"} => u \notin cutoff.decided
       /\ work'[u] = "discarded" => row'[u].discard # 0
       /\ work'[u] = "retained" /\ u \in op.existed => row'[u].state = "aborted" \/ u \in cutoff.decided
  <2>1. \A u \in Txs : work'[u] = work[u] \/ work'[u] = "pending_loss"
    BY <1>7 DEF ControlTypes
  <2>2. QED
    BY <1>5, <2>1 DEF WorkTrue, RowGrows
<1>11. \A u \in op.existed : row'[u].state # "none"
  BY <1>5 DEF WorkTrue, RowGrows, ControlTypes, OpRow
<1>12. QED
  BY <1>1, <1>3, <1>8, <1>9, <1>10, <1>11 DEF WorkTrue

\* An operation lists each registered coordinator, and discards none that
\* its cutoff has.
LEMMA OperationWork ==
  ASSUME ControlTypes, ActorTypes, StageTrue, WorkTrue, EndedTrue, PreviewNext \/ RestoreNext \/ RollbackNext1
  PROVE  WorkTrue'
<1> USE DEF ActorTypes
<1>1. UNCHANGED <<visit, registry>>
  BY OperationFrame
<1>2. \A t \in Txs : Missed(t) \subseteq Missed(t)' /\ RowGrows(t)
  BY MissedGrows, RowsStep DEF Next
<1>3. \A t \in Txs : /\ visit'[t].step \in {"registered", "late", "permit"} => t \in registry'
                     /\ visit'[t].step = "cleanup" => Missed(t)' # {}
  BY <1>1, <1>2 DEF WorkTrue
<1>4. CASE PreviewNext /\ ~Execute
  <2>1. ~Closed' /\ UNCHANGED row
    BY <1>4, PreviewCourse
  <2>2. op'.existed \in {op.existed, {}}
    <3>1. CASE Preview
      <4>1. op'.existed = {}
        BY <3>1 DEF Preview
      <4>2. QED
        BY <4>1
    <3>2. CASE EnumerateManifest
      BY <3>2 DEF EnumerateManifest, ControlTypes, OpRow
    <3>3. CASE ~Preview /\ ~EnumerateManifest
      BY <1>4, <3>3, PreviewStages, RestoreQuiet, QuietAt DEF PreviewNext, SameRow
    <3>4. QED
      BY <3>1, <3>2, <3>3
  <2>3. QED
    BY <1>3, <2>1, <2>2 DEF WorkTrue
<1>5. CASE Execute
  <2>1. /\ op'.existed = {t \in Txs : row[t].state # "none"}
        /\ work' = [t \in Txs |-> IF t \in registry THEN "pending_loss" ELSE "none"]
        /\ UNCHANGED row
    BY <1>5 DEF Execute, ControlTypes, OpRow, actors
  <2>2. registry \subseteq Txs
    BY DEF ControlTypes
  <2>3. \A t \in registry' : work'[t] # "none"
    BY <1>1, <2>1, <2>2
  <2>4. \A t \in Txs : work'[t] \notin {"discard_required", "discarded", "retained"}
    BY <2>1
  <2>5. \A t \in op'.existed : row'[t].state # "none"
    BY <2>1
  <2>6. QED
    BY <1>3, <2>3, <2>4, <2>5 DEF WorkTrue
<1>6. CASE RestoreNext \/ RollbackNext1
  <2>1. (Closed' => Closed) /\ op'.existed = op.existed
    BY <1>6, RestoreCourse, RollbackCourse DEF SameRow
  <2>2. cutoff'.decided = cutoff.decided
    BY <1>6, RestoreFrames, RollbackFrames
  <2>3. \A t \in op.existed : row'[t].state # "none"
    BY <1>2 DEF WorkTrue, RowGrows, ControlTypes, OpRow
  <2>4. CASE UNCHANGED work
    BY <1>1, <1>2, <1>3, <2>1, <2>2, <2>3, <2>4 DEF WorkTrue, RowGrows
  <2>5. ASSUME NEW t \in Txs, MaterializeCoordinatorLoss(t) PROVE WorkTrue'
    <3>1. UNCHANGED row /\ work' = [work EXCEPT ![t] = IF RequiresDiscard(t, cutoff.decided) THEN "discard_required" ELSE "retained"]
      BY <2>5 DEF MaterializeCoordinatorLoss, actors
    <3>2. \A u \in Txs \ {t} : work'[u] = work[u]
      BY <3>1 DEF ControlTypes
    <3>3. work'[t] = IF RequiresDiscard(t, cutoff.decided) THEN "discard_required" ELSE "retained"
      BY <3>1 DEF ControlTypes
    <3>4. t \in op.existed => row[t].state # "none"
      BY DEF WorkTrue
    <3>5. /\ work'[t] \notin {"none", "discarded"} /\ (work'[t] = "discard_required" => t \notin cutoff.decided)
          /\ work'[t] = "retained" /\ t \in op.existed => row[t].state = "aborted" \/ t \in cutoff.decided
      BY <3>3, <3>4 DEF RequiresDiscard
    <3>6. \A u \in Txs :
            /\ Closed /\ u \in registry => work'[u] # "none"
            /\ Closed => /\ work'[u] \in {"discard_required", "discarded"} => u \notin cutoff.decided
                         /\ work'[u] = "discarded" => row[u].discard # 0
                         /\ work'[u] = "retained" /\ u \in op.existed => row[u].state = "aborted" \/ u \in cutoff.decided
      BY <3>2, <3>5 DEF WorkTrue
    <3>7. QED
      BY <1>1, <1>3, <2>1, <2>2, <2>3, <3>1, <3>6 DEF WorkTrue, ControlTypes
  <2>6. ASSUME NEW t \in Txs, Discarding(t), work' = [work EXCEPT ![t] = "discarded"] PROVE WorkTrue'
    <3>1. /\ \A u \in Txs \ {t} : work'[u] = work[u]
          /\ work'[t] = "discarded" /\ work[t] = "discard_required" /\ row'[t].discard # 0
      BY <2>6 DEF ControlTypes, Discarding, StageTrue, At, TxRow
    <3>2. \A u \in Txs :
            /\ Closed /\ u \in registry => work'[u] # "none"
            /\ Closed => /\ work'[u] \in {"discard_required", "discarded"} => u \notin cutoff.decided
                         /\ work'[u] = "discarded" => row'[u].discard # 0
                         /\ work'[u] = "retained" /\ u \in op.existed => row'[u].state = "aborted" \/ u \in cutoff.decided
      BY <1>2, <3>1 DEF WorkTrue, RowGrows
    <3>3. QED
      BY <1>1, <1>3, <2>1, <2>2, <2>3, <3>2 DEF WorkTrue, ControlTypes
  <2>7. QED
    BY <1>6, <2>4, <2>5, <2>6, RestoreFrames, RollbackFrames
<1>7. QED
  BY <1>4, <1>5, <1>6

\* Every step keeps the inventory true.
LEMMA WorkStep ==
  ASSUME ControlTypes, ActorTypes, StageTrue, WorkTrue, EndedTrue, [Next]_vars
  PROVE  WorkTrue'
<1>1. CASE UNCHANGED vars \/ ShardNext
  <2>1. UNCHANGED <<op, gate, work, registry, ended, cutoff, row, visit>>
    BY <1>1, ShardFrame DEF vars, control, actors
  <2>2. QED
    BY <2>1 DEF WorkTrue, Closed, Missed
<1>2. QED
  BY <1>1, CoordinatorWork, OperationWork DEF Next

\* A permit is never used for a transaction that a restore missed.
LEMMA EndedStep ==
  ASSUME ControlTypes, ActorTypes, StageTrue, DecidedTrue, WorkTrue, EndedTrue, DoomTrue, [Next]_vars
  PROVE  EndedTrue'
<1>1. /\ UNCHANGED ended \/ CompleteRestore
      /\ DOMAIN ended \subseteq DOMAIN ended' /\ \A i \in DOMAIN ended : ended'[i] = ended[i]
  BY EndedGrows
<1>2. (\A t \in Txs : RowGrows(t)) /\ (stray => stray')
  BY RowsStep, StrayGrows
<1>3. ASSUME NEW i \in DOMAIN ended PROVE EndedOK(i)'
  <2> SUFFICES ASSUME NEW t \in Txs
      PROVE  /\ t \in ended[i].existed => row'[t].state # "none"
             /\ ended[i].id # 0
             /\ ended[i].work[t] \in {"none", "retained", "discarded"}
             /\ ended[i].work[t] = "discarded" => row'[t].discard # 0
             /\ ended[i].work[t] \in {"none", "discarded"} => t \notin ended[i].decided
             /\ ended[i].work[t] = "retained" /\ t \in ended[i].existed => row'[t].state = "aborted" \/ t \in ended[i].decided
             /\ ~stray' /\ t \in ended[i].existed /\ ended[i].work[t] = "none" => row'[t].state # "committed"
    BY <1>1, <1>3 DEF EndedOK
  <2>1. /\ t \in ended[i].existed => row[t].state # "none"
        /\ ended[i].id # 0
        /\ ended[i].work[t] \in {"none", "retained", "discarded"}
        /\ ended[i].work[t] = "discarded" => row[t].discard # 0
        /\ ended[i].work[t] \in {"none", "discarded"} => t \notin ended[i].decided
        /\ ended[i].work[t] = "retained" /\ t \in ended[i].existed => row[t].state = "aborted" \/ t \in ended[i].decided
        /\ ~stray /\ t \in ended[i].existed /\ ended[i].work[t] = "none" => row[t].state # "committed"
    BY <1>3 DEF EndedTrue, EndedOK
  <2>2. ASSUME ~stray', t \in ended[i].existed, ended[i].work[t] = "none", DecideCommit(t) PROVE FALSE
    <3>1. i \in Missed(t)
      BY <1>3, <2>2 DEF Missed
    <3>2. visit[t].step = "permit" /\ row[t].discard = 0 /\ row[t].state # "aborted"
      BY <2>2 DEF DecideCommit, Permitted
    <3>3. QED
      BY <1>2, <2>2, <3>1, <3>2 DEF DoomTrue, DoomedVisits
  <2>3. QED
    BY <1>2, <2>1, <2>2 DEF RowGrows
<1>4. CASE CompleteRestore
  <2> DEFINE e == [id |-> restores, work |-> work, existed |-> op.existed, decided |-> cutoff.decided]
  <2>1. /\ ended' = Append(ended, e) /\ UNCHANGED row /\ Closed /\ restores # 0
        /\ \A t \in Txs : work[t] \in {"none", "retained", "discarded"}
    BY <1>4, RestoreStages DEF CompleteRestore, actors, StageTrue
  <2>2. PICK n : DOMAIN ended' = DOMAIN ended \cup {n} /\ ended'[n] = e
    BY <2>1, AppendProperties, LenProperties DEF ControlTypes
  <2>3. \A t \in Txs : work[t] = "none" => t \notin Decided /\ t \notin cutoff.decided
    BY <2>1 DEF WorkTrue, DecidedTrue
  <2>4. EndedOK(n)'
    <3>1. SUFFICES ASSUME NEW t \in Txs
          PROVE  /\ t \in op.existed => row[t].state # "none"
                 /\ restores # 0
                 /\ work[t] \in {"none", "retained", "discarded"}
                 /\ work[t] = "discarded" => row[t].discard # 0
                 /\ work[t] \in {"none", "discarded"} => t \notin cutoff.decided
                 /\ work[t] = "retained" /\ t \in op.existed => row[t].state = "aborted" \/ t \in cutoff.decided
                 /\ t \in op.existed /\ work[t] = "none" => row[t].state # "committed"
      BY <2>1, <2>2 DEF EndedOK
    <3>2. QED
      BY <2>1, <2>3 DEF WorkTrue, Decided
  <2>5. QED
    BY <1>3, <2>2, <2>4 DEF EndedTrue
<1>5. QED
  BY <1>1, <1>3, <1>4 DEF EndedTrue

-----------------------------------------------------------------------------
(* Doomed transactions. *)

LEMMA DoomStays ==
  ASSUME ControlTypes, ActorTypes, StageTrue, WorkTrue, EndedTrue, [Next]_vars, NEW t \in Txs, Doomed(t)
  PROVE  Doomed(t)'
BY RowsStep, MissedGrows DEF RowGrows, Doomed

\* A committed row that was not discarded was missed by no restore.
LEMMA CommittedNotMissed ==
  ASSUME EndedTrue, ~stray, NEW t \in Decided, row[t].discard = 0 \/ t \notin DiscardedBefore
  PROVE  Missed(t) = {}
<1>1. SUFFICES ASSUME NEW i \in Missed(t) PROVE FALSE
  OBVIOUS
<1>2. i \in DOMAIN ended /\ t \in ended[i].existed /\ ended[i].work[t] \in {"none", "discarded"} /\ EndedOK(i)
  BY DEF Missed, EndedTrue
<1>3. t \in Txs /\ row[t].state = "committed"
  BY DEF Decided
<1>4. CASE ended[i].work[t] = "none"
  BY <1>2, <1>3, <1>4 DEF EndedOK
<1>5. CASE ended[i].work[t] = "discarded"
  BY <1>2, <1>3, <1>5 DEF EndedOK, DiscardedBefore
<1>6. QED
  BY <1>2, <1>4, <1>5

\* A coordinator that need not be discarded was not missed, or has aborted.
LEMMA NoDiscardNeeded ==
  ASSUME ControlTypes, EndedTrue, NEW t \in Txs, ~MustDiscard(t), row[t].state # "aborted"
  PROVE  Missed(t) = {}
<1>1. SUFFICES ASSUME Missed(t) # {} PROVE FALSE
  OBVIOUS
<1>2. PICK i \in DOMAIN ended : First(Missed(t)) = i /\ i \in Missed(t)
  BY <1>1, MissedOne
<1>3. t \in ended[i].existed /\ ended[i].work[t] \in {"none", "discarded"} /\ EndedOK(i)
  BY <1>2 DEF Missed, EndedTrue
<1>4. row[t].state # "none" /\ t \notin ended[i].decided
  BY <1>3 DEF EndedOK
<1>5. QED
  BY <1>1, <1>2, <1>4 DEF MustDiscard, RequiresDiscard

\* When a restore lets go of a transaction, no shard has it committed.
Gone(t) == /\ t \notin cutoff.decided /\ Closed /\ At \in {"discarding_coordinators", "releasing_participants"}
           /\ \A s \in Shards : part[s] \in Back

\* A transaction becomes doomed before it is decided, or when no shard has
\* it committed.
LEMMA Falls ==
  ASSUME ControlTypes, ActorTypes, StageTrue, PartTrue, DecidedTrue, WorkTrue, EndedTrue, [Next]_vars,
         NEW t \in Txs, ~Doomed(t), Doomed(t)'
  PROVE  t \notin Decided \/ (Gone(t) /\ RestoreNext)
<1> USE DEF ActorTypes
<1>1. CASE UNCHANGED vars \/ ShardNext \/ PreviewNext
  <2>1. UNCHANGED <<row, ended>>
    BY <1>1, ShardFrame, PreviewCourse DEF vars, control, actors
  <2>2. QED
    BY <2>1 DEF Doomed, Missed
<1>2. CASE CoordinatorNext
  <2>1. UNCHANGED <<ended, Missed(t)>>
    BY <1>2, CoordinatorFrame DEF Missed
  <2>2. PICK u \in Txs : \/ RegisterNew(u) \/ AskGate(u) \/ BeginRow(u) \/ Vote(u)
                         \/ \E by \in {"request", "alarm"} : RegisterLate(u, by) \/ RegisterOpen(u, by)
                         \/ DecideCommit(u) \/ DecideAbort(u) \/ DiscardMissed(u) \/ Leave(u)
    BY <1>2 DEF CoordinatorNext
  <2>3. CASE DecideAbort(u)
    <3>1. row[u].state \in {"open", "prepared"} /\ row' = [row EXCEPT ![u].state = "aborted"]
      BY <2>3 DEF DecideAbort, Permitted
    <3>2. QED
      BY <2>1, <3>1 DEF Doomed, Decided, TxRow
  <2>4. CASE DiscardMissed(u)
    <3>1. Missed(u) # {} /\ \E n : row' = [row EXCEPT ![u].discard = n]
      BY <2>4 DEF DiscardMissed, WorkTrue
    <3>2. QED
      BY <2>1, <3>1 DEF Doomed, TxRow
  <2>5. CASE BeginRow(u) \/ Vote(u) \/ DecideCommit(u)
    <3>1. \E state \in {"open", "prepared", "committed"} : row' = [row EXCEPT ![u].state = state]
      BY <2>5 DEF BeginRow, Vote, DecideCommit, Permitted
    <3>2. QED
      BY <2>1, <3>1 DEF Doomed, TxRow
  <2>6. CASE RegisterNew(u) \/ AskGate(u) \/ Leave(u) \/ \E by \in {"request", "alarm"} : RegisterLate(u, by) \/ RegisterOpen(u, by)
    <3>1. UNCHANGED row
      BY <2>6 DEF RegisterNew, AskGate, RegisterLate, RegisterOpen, Leave
    <3>2. QED
      BY <2>1, <3>1 DEF Doomed
  <2>7. QED
    BY <2>2, <2>3, <2>4, <2>5, <2>6
<1>3. CASE RestoreNext
  <2>1. CASE CompleteRestore
    <3>1. Closed /\ At = "releasing_participants" /\ part = [s \in Shards |-> "released"] /\ UNCHANGED row
          /\ ended' = Append(ended, [id |-> restores, work |-> work, existed |-> op.existed, decided |-> cutoff.decided])
      BY <2>1, RestoreStages DEF CompleteRestore, actors
    <3>2. Missed(t)' # {} /\ Missed(t) = {}
      BY <3>1 DEF Doomed
    <3>3. work[t] \in {"none", "discarded"}
      <4>1. PICK n : /\ DOMAIN ended' = DOMAIN ended \cup {n}
                     /\ ended'[n] = [id |-> restores, work |-> work, existed |-> op.existed, decided |-> cutoff.decided]
                     /\ \A i \in DOMAIN ended : ended'[i] = ended[i]
        BY <3>1, AppendProperties, LenProperties DEF ControlTypes
      <4>2. n \in Missed(t)'
        BY <3>2, <4>1 DEF Missed
      <4>3. QED
        BY <4>1, <4>2 DEF Missed
    <3>4. t \notin cutoff.decided
      BY <3>1, <3>3 DEF WorkTrue, DecidedTrue
    <3>5. \A s \in Shards : part[s] \in Back
      BY <3>1 DEF Back
    <3>6. QED
      BY <1>3, <3>1, <3>4, <3>5 DEF Gone
  <2>2. CASE ~CompleteRestore
    <3>1. UNCHANGED <<ended, Missed(t)>>
      BY <1>3, <2>2, RestoreFrames DEF Missed
    <3>2. PICK u \in Txs : Discarding(u)
      BY <1>3, <3>1, RestoreFrames DEF Doomed
    <3>3. t = u
      BY <3>1, <3>2 DEF Discarding, Doomed, TxRow
    <3>4. At = "discarding_coordinators" /\ work[t] = "discard_required" /\ Closed
      BY <1>3, <3>2, <3>3, RestoreCourse DEF Discarding
    <3>5. t \notin cutoff.decided
      BY <3>4 DEF WorkTrue
    <3>6. \A s \in Shards : part[s] \in Back
      BY <3>4 DEF PartTrue, StatusOf, Back
    <3>7. QED
      BY <1>3, <3>4, <3>5, <3>6 DEF Gone
  <2>3. QED
    BY <2>1, <2>2
<1>4. CASE RollbackNext1
  <2>1. UNCHANGED <<row, ended>>
    BY <1>4, RollbackFrames
  <2>2. QED
    BY <2>1 DEF Doomed, Missed
<1>5. QED
  BY <1>1, <1>2, <1>3, <1>4 DEF Next

\* What falls is committed nowhere, nor about to be.
LEMMA FallsNowhere ==
  ASSUME ControlTypes, ActorTypes, StageTrue, PartTrue, HoldTrue, DecidedTrue, WorkTrue, EndedTrue, [Next]_vars,
         NEW t \in Txs, ~Doomed(t), Doomed(t)', NEW s \in Shards
  PROVE  /\ t \notin Committed(shard[s].db) \cup Committed(shard[s].last) \cup Committed(shard[s].target)
         /\ hold[s] # <<"commit", t>>
         /\ t \notin op.plan
<1>1. RewoundOK(s) /\ HoldOK(s) /\ cutoff.decided \subseteq Decided /\ op.plan \subseteq cutoff.decided
  BY DEF DecidedTrue, HoldTrue
<1>2. t \notin Decided \/ Gone(t)
  BY Falls
<1>3. CASE t \notin Decided
  BY <1>1, <1>3 DEF RewoundOK, HoldOK, Decided
<1>4. CASE Gone(t)
  <2>1. part[s] \in Back /\ Closed /\ t \notin cutoff.decided
    BY <1>4 DEF Gone
  <2>2. hold[s] = Free
    BY <1>1, <2>1 DEF HoldOK, Back
  <2>3. QED
    BY <1>1, <2>1, <2>2 DEF RewoundOK, Rewound, Free
<1>5. QED
  BY <1>2, <1>3, <1>4

\* A request that has its permit is for a transaction no restore missed.
LEMMA VisitsStep ==
  ASSUME ControlTypes, ActorTypes, StageTrue, DecidedTrue, WorkTrue, EndedTrue, DoomTrue, [Next]_vars, ~stray'
  PROVE  DoomedVisits'
<1> USE DEF ActorTypes
<1>0. ~stray /\ DoomedVisits
  BY StrayGrows DEF DoomTrue
<1>1. CASE UNCHANGED vars \/ ShardNext \/ PreviewNext \/ RollbackNext1
  <2>1. UNCHANGED <<row, ended, visit>>
    BY <1>1, ShardFrame, OperationFrame, PreviewCourse, RollbackFrames DEF vars, control, actors
  <2>2. QED
    BY <1>0, <2>1 DEF DoomedVisits, Missed
<1>2. CASE RestoreNext
  <2>1. UNCHANGED visit /\ Closed /\ \A t \in Txs : RowGrows(t)
    BY <1>2, OperationFrame, RestoreCourse, RowsStep
  <2>2. SUFFICES ASSUME NEW t \in Txs, visit[t].step \in {"registered", "permit"}, row'[t].discard = 0, row'[t].state # "aborted"
        PROVE  Missed(t)' = {}
    BY <2>1 DEF DoomedVisits
  <2>3. row[t].discard = 0 /\ row[t].state # "aborted" /\ Missed(t) = {} /\ t \in registry
    BY <1>0, <2>1, <2>2 DEF RowGrows, DoomedVisits, WorkTrue
  <2>4. CASE UNCHANGED ended
    BY <2>3, <2>4 DEF Missed
  <2>5. CASE CompleteRestore
    <3>1. ended' = Append(ended, [id |-> restores, work |-> work, existed |-> op.existed, decided |-> cutoff.decided])
      BY <2>5 DEF CompleteRestore
    <3>2. PICK n : /\ DOMAIN ended' = DOMAIN ended \cup {n}
                   /\ ended'[n] = [id |-> restores, work |-> work, existed |-> op.existed, decided |-> cutoff.decided]
                   /\ \A i \in DOMAIN ended : ended'[i] = ended[i]
      <4>1. ended \in Seq(EndedRow) /\ work \in [Txs -> WorkStatus] /\ op.existed \subseteq Txs /\ cutoff.decided \subseteq Txs /\ restores \in Nat
        BY BoundsAreNat DEF ControlTypes, OpRow
      <4>2. [id |-> restores, work |-> work, existed |-> op.existed, decided |-> cutoff.decided] \in EndedRow
        BY <4>1 DEF EndedRow
      <4> HIDE DEF ActorTypes
      <4>3. QED
        BY <3>1, <4>1, <4>2, AppendProperties, LenProperties
    <3>3. work[t] \notin {"none", "discarded"}
      BY <2>1, <2>3 DEF WorkTrue
    <3>4. Missed(t)' \subseteq Missed(t)
      BY <3>2, <3>3 DEF Missed
    <3>5. QED
      BY <2>3, <3>4
  <2>6. QED
    BY <1>2, <2>4, <2>5, RestoreFrames
<1>3. CASE CoordinatorNext
  <2>1. \A t \in Txs : Missed(t)' = Missed(t)
    BY <1>3, CoordinatorFrame DEF Missed
  <2>2. PICK u \in Txs : \/ RegisterNew(u) \/ AskGate(u) \/ BeginRow(u) \/ Vote(u)
                         \/ \E by \in {"request", "alarm"} : RegisterLate(u, by) \/ RegisterOpen(u, by)
                         \/ DecideCommit(u) \/ DecideAbort(u) \/ DiscardMissed(u) \/ Leave(u)
    BY <1>3 DEF CoordinatorNext
  <2>3. \A t \in Txs : RowGrows(t)
    BY <1>3, CoordinatorRows
  <2>4. ASSUME NEW t \in Txs, visit'[t] = visit[t] \/ visit[t].step = "permit" \/ visit'[t].step \notin {"registered", "permit"}
        PROVE  visit'[t].step \in {"registered", "permit"} /\ row'[t].discard = 0 /\ row'[t].state # "aborted" => Missed(t)' = {}
    BY <1>0, <2>1, <2>3, <2>4 DEF DoomedVisits, RowGrows
  <2>5. ASSUME NEW t \in Txs, ~MustDiscard(t)
        PROVE  visit'[t].step \in {"registered", "permit"} /\ row'[t].discard = 0 /\ row'[t].state # "aborted" => Missed(t)' = {}
    BY <2>1, <2>3, <2>5, NoDiscardNeeded DEF RowGrows
  <2>6. \A t \in Txs \ {u} : visit'[t] = visit[t]
    BY <2>2 DEF RegisterNew, AskGate, BeginRow, Vote, RegisterLate, RegisterOpen, DecideCommit, DecideAbort,
       DiscardMissed, Leave, Permitted
  <2>7. CASE RegisterNew(u)
    <3>1. Missed(u) = {}
      BY <2>7 DEF RegisterNew, Missed, EndedTrue, EndedOK
    <3>2. QED
      BY <2>1, <2>4, <2>6, <3>1 DEF DoomedVisits
  <2>8. CASE \E by \in {"request", "alarm"} : RegisterOpen(u, by)
    <3>1. MustDiscard(u) => visit'[u].step = "cleanup"
      BY <2>8 DEF RegisterOpen
    <3>2. QED
      BY <2>4, <2>5, <2>6, <3>1 DEF DoomedVisits
  <2>9. CASE AskGate(u)
    <3>1. visit[u].step \in {"registered", "late"} /\ (visit'[u].step = "none" \/ (visit'[u].step = "permit" /\ ~Closed))
      <4>1. visit[u].step \in {"registered", "late"}
            /\ visit' = [visit EXCEPT ![u] = IF gate = "open" THEN [@ EXCEPT !.step = "permit"] ELSE Idle]
        BY <2>9 DEF AskGate
      <4>2. visit[u] \in Visit
        OBVIOUS
      <4>3. visit'[u] = IF gate = "open" THEN [visit[u] EXCEPT !.step = "permit"] ELSE Idle
        BY <4>1
      <4>4. QED
        BY <4>1, <4>2, <4>3 DEF Idle, Closed, Visit
    <3>2. visit[u].step = "late" /\ visit'[u].step = "permit" => ~MustDiscard(u)
      BY <2>9, <3>1 DEF AskGate, Closed
    <3>3. visit[u].step = "registered" => (row'[u].discard = 0 /\ row'[u].state # "aborted" => Missed(u)' = {})
      BY <1>0, <2>1, <2>3 DEF DoomedVisits, RowGrows
    <3>4. QED
      BY <2>4, <2>5, <2>6, <3>1, <3>2, <3>3 DEF DoomedVisits
  <2>10. CASE BeginRow(u) \/ DecideCommit(u) \/ DecideAbort(u)
    <3>1. visit[u].step = "permit"
      BY <2>10 DEF BeginRow, DecideCommit, DecideAbort, Permitted
    <3>2. QED
      BY <2>4, <2>6, <3>1 DEF DoomedVisits
  <2>11. CASE Vote(u)
    BY <2>4, <2>11 DEF Vote, DoomedVisits
  <2>12. CASE DiscardMissed(u) \/ Leave(u) \/ \E by \in {"request", "alarm"} : RegisterLate(u, by)
    <3>1. visit'[u].step \notin {"registered", "permit"}
      BY <2>12 DEF DiscardMissed, Leave, RegisterLate, Idle
    <3>2. QED
      BY <2>4, <2>6, <3>1 DEF DoomedVisits
  <2>13. QED
    BY <2>2, <2>7, <2>8, <2>9, <2>10, <2>11, <2>12
<1>4. QED
  BY <1>1, <1>2, <1>3 DEF Next

\* A decided transaction is discarded only by a restore that goes through.
RowExcused(t) ==
  \/ t \in DiscardedBefore
  \/ Closed /\ At \in Losing /\ row[t].discard = restores /\ work[t] \in {"discard_required", "discarded"}

\* A discard of a decided transaction stays one of a restore that goes through.
LEMMA RowExcusedStays ==
  ASSUME ControlTypes, ActorTypes, StageTrue, WorkTrue, EndedTrue, [Next]_vars, ~stray', NEW t \in Decided,
         RowExcused(t), row'[t].discard = row[t].discard
  PROVE  RowExcused(t)'
<1>1. DiscardedBefore \subseteq DiscardedBefore'
  BY EndedGrows DEF DiscardedBefore
<1>2. SUFFICES ASSUME Closed, At \in Losing, row[t].discard = restores, work[t] \in {"discard_required", "discarded"}
      PROVE  RowExcused(t)'
  BY <1>1 DEF RowExcused
<1>3. ASSUME Closed', At' \in Losing, restores' = restores, work'[t] \in {"discard_required", "discarded"} PROVE RowExcused(t)'
  BY <1>2, <1>3 DEF RowExcused
<1>4. t \in Txs
  BY DEF Decided
<1>5. CASE UNCHANGED vars \/ ShardNext
  <2>1. UNCHANGED <<op, gate, restores, work, At, Closed>>
    BY <1>5, ShardFrame DEF vars, control, At, Closed
  <2>2. QED
    BY <1>2, <1>3, <2>1
<1>6. CASE CoordinatorNext
  <2>1. UNCHANGED <<gate, Closed, restores>>
    BY <1>6, CoordinatorFrame DEF Closed
  <2>2. CASE Quiet /\ UNCHANGED work
    BY <1>2, <1>3, <2>1, <2>2, QuietAt
  <2>3. CASE \E u \in Txs, by \in {"request", "alarm"} : RegisterLate(u, by)
    <3>1. PICK u \in Txs, by \in {"request", "alarm"} : RegisterLate(u, by)
      BY <2>3
    <3>2. At' \in Losing
      BY <1>2, <3>1, LateStage DEF ControlTypes, Losing
    <3>3. work' = [work EXCEPT ![u] = IF @ = "none" THEN "pending_loss" ELSE @]
      BY <3>1 DEF RegisterLate
    <3>4. work'[t] = work[t]
      BY <1>2, <1>4, <3>3 DEF ControlTypes
    <3>5. QED
      BY <1>2, <1>3, <2>1, <3>2, <3>4
  <2>4. QED
    BY <1>6, <2>2, <2>3, QuietSteps DEF CoordinatorNext, RegisterNew, AskGate, BeginRow, Vote, RegisterOpen, DecideCommit,
       DecideAbort, DiscardMissed, Leave, Permitted, control
<1>7. CASE PreviewNext
  BY <1>2, <1>7, PreviewCourse
<1>8. CASE RestoreNext
  <2>1. CASE CompleteRestore
    <3>1. /\ ended' = Append(ended, [id |-> restores, work |-> work, existed |-> op.existed, decided |-> cutoff.decided])
          /\ work[t] \in {"none", "retained", "discarded"}
      BY <1>4, <2>1 DEF CompleteRestore
    <3>2. \E n \in DOMAIN ended' : ended'[n].work = work
      BY <3>1, AppendProperties, LenProperties DEF ControlTypes
    <3>3. t \in DiscardedBefore'
      BY <1>2, <1>4, <3>1, <3>2 DEF DiscardedBefore
    <3>4. QED
      BY <3>3 DEF RowExcused
  <2>2. CASE ~CompleteRestore
    <3>1. Closed' /\ At' \in Losing /\ restores' = restores
      <4>1. At \notin Fencing
        BY <1>2 DEF Losing, Restoring, Fencing
      <4>2. QED
        BY <1>2, <1>8, <2>2, <4>1, RestoreCourse, RestoreFrames
    <3>2. work'[t] \in {"discard_required", "discarded"}
      <4>1. CASE UNCHANGED work
        BY <1>2, <4>1
      <4>2. ASSUME NEW u \in Txs, MaterializeCoordinatorLoss(u) PROVE work'[t] \in {"discard_required", "discarded"}
        <5>1. work[u] = "pending_loss" /\ \E to : work' = [work EXCEPT ![u] = to]
          BY <4>2 DEF MaterializeCoordinatorLoss
        <5>2. QED
          BY <1>2, <1>4, <5>1 DEF ControlTypes
      <4>3. ASSUME NEW u \in Txs, work' = [work EXCEPT ![u] = "discarded"] PROVE work'[t] \in {"discard_required", "discarded"}
        BY <1>2, <1>4, <4>3 DEF ControlTypes
      <4>4. QED
        BY <1>8, <4>1, <4>2, <4>3, RestoreFrames
    <3>3. QED
      BY <1>3, <3>1, <3>2
  <2>3. QED
    BY <2>1, <2>2
<1>9. CASE RollbackNext1
  <2>1. ~Rollback
    <3>1. SUFFICES ASSUME Rollback PROVE FALSE
      OBVIOUS
    <3>2. Forgotten = {} /\ work[t] # "discarded"
      BY <1>4, <3>1 DEF Rollback
    <3>3. QED
      BY <1>2, <1>4, <3>2 DEF Forgotten
  <2>2. At \notin RollingBack
    BY <1>2 DEF Losing, Restoring, RollingBack
  <2>3. Closed' /\ At' = At /\ UNCHANGED <<restores, work>>
    BY <1>2, <1>9, <2>1, <2>2, RollbackCourse, RollbackFrames
  <2>4. QED
    BY <1>2, <1>3, <2>3
<1>10. QED
  BY <1>5, <1>6, <1>7, <1>8, <1>9 DEF Next

\* Every step keeps decided transactions undiscarded but by such a restore.
LEMMA RowsDoomStep ==
  ASSUME ControlTypes, ActorTypes, StageTrue, WorkTrue, EndedTrue, DoomTrue, [Next]_vars, ~stray'
  PROVE  DoomedRows'
<1>0. ~stray /\ \A t \in Decided : row[t].discard # 0 => RowExcused(t)
  BY StrayGrows DEF DoomTrue, DoomedRows, RowExcused
<1>1. SUFFICES ASSUME NEW t \in Txs, row'[t].state = "committed", row'[t].discard # 0 PROVE RowExcused(t)'
  BY DEF DoomedRows, RowExcused, Decided
<1>2. CASE t \in Decided /\ row'[t].discard = row[t].discard
  BY <1>0, <1>1, <1>2, RowExcusedStays
<1>3. CASE ~(t \in Decided /\ row'[t].discard = row[t].discard)
  <2>1. CASE CoordinatorNext
    <3>1. PICK u \in Txs : \/ RegisterNew(u) \/ AskGate(u) \/ BeginRow(u) \/ Vote(u)
                           \/ \E by \in {"request", "alarm"} : RegisterLate(u, by) \/ RegisterOpen(u, by)
                           \/ DecideCommit(u) \/ DecideAbort(u) \/ DiscardMissed(u) \/ Leave(u)
      BY <2>1 DEF CoordinatorNext
    <3>2. DiscardMissed(u) /\ t = u
      <4>1. ASSUME NEW from, NEW to, NEW next, Permitted(u, from, to, next) PROVE row[u].discard = 0 /\ row' = [row EXCEPT ![u].state = to]
        BY <4>1 DEF Permitted
      <4>2. CASE BeginRow(u) \/ Vote(u) \/ DecideCommit(u) \/ DecideAbort(u)
        <5>1. row[u].discard = 0 /\ \E to : row' = [row EXCEPT ![u].state = to]
          BY <4>1, <4>2 DEF BeginRow, Vote, DecideCommit, DecideAbort
        <5>2. QED
          BY <1>1, <1>3, <5>1 DEF ActorTypes, TxRow, Decided
      <4>3. CASE RegisterNew(u) \/ AskGate(u) \/ Leave(u) \/ \E by \in {"request", "alarm"} : RegisterLate(u, by) \/ RegisterOpen(u, by)
        <5>1. UNCHANGED row
          BY <4>3 DEF RegisterNew, AskGate, Leave, RegisterLate, RegisterOpen
        <5>2. QED
          BY <1>1, <1>3, <5>1 DEF Decided
      <4>4. CASE DiscardMissed(u)
        <5>1. \E n : row' = [row EXCEPT ![u].discard = n]
          BY <4>4 DEF DiscardMissed
        <5>2. QED
          BY <1>1, <1>3, <4>4, <5>1 DEF ActorTypes, TxRow, Decided
      <4>5. QED
        BY <3>1, <4>2, <4>3, <4>4
    <3>3. t \in Decided /\ Missed(t) # {}
      BY <1>1, <3>2 DEF DiscardMissed, WorkTrue, Decided, ActorTypes, TxRow
    <3>4. t \in DiscardedBefore
      BY <1>0, <3>3, CommittedNotMissed
    <3>5. QED
      BY <3>4, EndedGrows DEF RowExcused, DiscardedBefore
  <2>2. CASE RestoreNext
    <3>1. PICK u \in Txs : Discarding(u) /\ work' \in {work, [work EXCEPT ![u] = "discarded"]}
      BY <1>1, <1>3, <2>2, RestoreFrames DEF Decided
    <3>2. t = u
      BY <1>1, <1>3, <3>1 DEF Discarding, ActorTypes, TxRow, Decided
    <3>3. At = "discarding_coordinators" /\ row'[t].discard = restores /\ work'[t] \in {"discard_required", "discarded"}
      BY <3>1, <3>2 DEF Discarding, ActorTypes, TxRow, ControlTypes
    <3>4. Closed' /\ At' \in Losing /\ restores' = restores
      <4>1. At \in Losing /\ At \notin Fencing /\ ~CompleteRestore
        BY <3>3, RestoreStages DEF Losing, Restoring, Fencing
      <4>2. QED
        BY <2>2, <4>1, RestoreCourse, RestoreFrames
    <3>5. QED
      BY <3>3, <3>4 DEF RowExcused
  <2>3. CASE UNCHANGED row
    BY <1>1, <1>3, <2>3 DEF Decided
  <2>4. QED
    BY <2>1, <2>2, <2>3, ShardFrame, PreviewCourse, RollbackFrames DEF Next, vars, actors
<1>4. QED
  BY <1>2, <1>3

\* The plan of an operation is made once, of what no restore discarded.
LEMMA PlanGrows ==
  ASSUME ControlTypes, StageTrue, [Next]_vars, op'.stage \notin Over
  PROVE  \/ EnumerateManifest
         \/ op'.plan = {}
         \/ op'.plan = op.plan /\ op.stage \notin Over
<1>0. Closed => op.stage \notin Over
  BY DEF StageTrue
<1>1. CASE UNCHANGED vars \/ ShardNext
  <2>1. op' = op
    BY <1>1, ShardFrame DEF vars, control
  <2>2. QED
    BY <2>1
<1>2. CASE CoordinatorNext
  <2>1. CASE Quiet
    BY <2>1 DEF Quiet
  <2>2. CASE \E t \in Txs, by \in {"request", "alarm"} : RegisterLate(t, by)
    BY <1>0, <2>2, LateStage DEF ControlTypes, SameRow
  <2>3. QED
    BY <1>2, <2>1, <2>2, QuietSteps
<1>3. CASE PreviewNext
  <2>1. CASE Preview
    <3>1. op'.plan = {}
      BY <2>1 DEF Preview
    <3>2. QED
      BY <3>1
  <2>2. CASE CloseManifest \/ MaterializeEnvelopes \/ FinalizePlan \/ Execute
    BY <2>2, PreviewStages DEF SameRow, CloseManifest, MaterializeEnvelopes, FinalizePlan, Execute, Over
  <2>3. CASE PassCutoff \/ MoveTopology \/ \E s \in Shards : PreviewParticipant(s)
    <3>1. op' = op
      BY <2>3, RestoreQuiet DEF Quiet
    <3>2. QED
      BY <3>1
  <2>4. QED
    BY <1>3, <2>1, <2>2, <2>3 DEF PreviewNext
<1>4. CASE RestoreNext
  BY <1>0, <1>4, RestoreCourse
<1>5. CASE RollbackNext1
  <2>1. ~Closed => op.stage \in Working
    BY <1>5, RollbackCourse DEF RetriesRunOut
  <2>2. QED
    BY <1>0, <1>5, <2>1, RollbackCourse DEF SameRow, Over, Working, Previewing, Fencing, Restoring, RollingBack
<1>6. QED
  BY <1>1, <1>2, <1>3, <1>4, <1>5 DEF Next

\* Every step keeps the plan free of doomed transactions.
LEMMA PlanStep ==
  ASSUME ControlTypes, ActorTypes, StageTrue, PartTrue, HoldTrue, DecidedTrue, WorkTrue, EndedTrue, DoomTrue,
         [Next]_vars, ~stray'
  PROVE  DoomedPlan'
<1>0. ~stray /\ DoomedPlan /\ DoomedRows
  BY StrayGrows DEF DoomTrue
<1>1. SUFFICES ASSUME op'.stage \notin Over, NEW t \in op'.plan PROVE ~Doomed(t)'
  BY DEF DoomedPlan
<1>2. CASE op'.plan = op.plan /\ op.stage \notin Over
  <2>1. t \in op.plan /\ t \in Txs /\ ~Doomed(t)
    BY <1>0, <1>1, <1>2 DEF DoomedPlan, ControlTypes, OpRow
  <2>2. PICK s \in Shards : TRUE
    BY RestoreAssumption
  <2>3. QED
    BY <2>1, <2>2, FallsNowhere
<1>3. CASE EnumerateManifest
  <2>1. op'.plan = cutoff.decided \ DiscardedBefore /\ UNCHANGED <<row, ended, Closed>>
    BY <1>3 DEF EnumerateManifest, ControlTypes, OpRow, actors, Closed
  <2>2. ~Closed /\ t \in Decided /\ t \notin DiscardedBefore
    BY <1>1, <1>3, <2>1, PreviewStages DEF DecidedTrue
  <2>3. row[t].discard = 0
    BY <1>0, <2>2 DEF DoomedRows
  <2>4. Missed(t) = {} /\ row[t].state = "committed"
    BY <1>0, <2>2, CommittedNotMissed DEF Decided
  <2>5. QED
    BY <2>1, <2>3, <2>4 DEF Doomed, Missed
<1>4. CASE op'.plan = {}
  BY <1>1, <1>4
<1>5. QED
  BY <1>1, <1>2, <1>3, <1>4, PlanGrows

\* What a shard has stays doomed, or stays safe.
LEMMA OldData ==
  ASSUME ControlTypes, ActorTypes, StageTrue, PartTrue, HoldTrue, DecidedTrue, WorkTrue, EndedTrue, DoomTrue,
         [Next]_vars, ~stray', NEW s \in Shards
  PROVE  /\ \A X \in {shard[s].db, shard[s].last, shard[s].target, shard[s].head} : \A t \in Aborted(X) : Doomed(t)'
         /\ \A X \in {shard[s].db, shard[s].last, shard[s].target} : \A t \in Committed(X) : ~Doomed(t)'
         /\ \A t \in Txs : /\ hold[s] = <<"commit", t>> => ~Doomed(t)'
                           /\ hold[s] = <<"abort", t>> => Doomed(t)'
<1>1. DoomedShard(s)
  BY StrayGrows DEF DoomTrue
<1>2. \A t \in Txs : Doomed(t) => Doomed(t)'
  BY DoomStays
<1>3. \A t \in Txs : ~Doomed(t) /\ Doomed(t)' =>
        /\ t \notin Committed(shard[s].db) \cup Committed(shard[s].last) \cup Committed(shard[s].target)
        /\ hold[s] # <<"commit", t>>
  BY FallsNowhere
<1>4. \A X : Aborted(X) \subseteq Txs /\ Committed(X) \subseteq Txs
  BY DEF Aborted, Committed
<1>5. \A X \in {shard[s].db, shard[s].last, shard[s].target, shard[s].head} : \A t \in Aborted(X) : Doomed(t)'
  BY <1>1, <1>2, <1>4 DEF DoomedShard
<1>6. \A X \in {shard[s].db, shard[s].last, shard[s].target} : \A t \in Committed(X) : ~Doomed(t)'
  BY <1>1, <1>3, <1>4 DEF DoomedShard
<1>7. \A t \in Txs : /\ hold[s] = <<"commit", t>> => ~Doomed(t)'
                     /\ hold[s] = <<"abort", t>> => Doomed(t)'
  BY <1>1, <1>2, <1>3 DEF DoomedShard
<1>8. QED
  BY <1>5, <1>6, <1>7

\* What an undo would bring back.
SafeHead(s) == \A t \in Committed(shard[s].head) :
  /\ At \in Losing => Missed(t) = {} /\ row[t].discard \in {0, restores}
  /\ At \in RollingBack => ~Doomed(t)
SafeHeadNext(s) == \A t \in Committed(shard[s].head) :
  /\ At' \in Losing => Missed(t)' = {} /\ row'[t].discard \in {0, restores'}
  /\ At' \in RollingBack => ~Doomed(t)'

\* What an undo would bring back stays safe to bring back.
LEMMA HeadStays ==
  ASSUME ControlTypes, ActorTypes, StageTrue, PartTrue, DecidedTrue, WorkTrue, EndedTrue,
         [Next]_vars, ~stray', NEW s \in undo, SafeHead(s)
  PROVE  SafeHeadNext(s)
<1>0. Committed(shard[s].head) \subseteq Decided /\ Decided \subseteq Txs
  BY DEF DecidedTrue, RewoundOK, ControlTypes, Decided
<1>1. SUFFICES ASSUME NEW t \in Committed(shard[s].head)
      PROVE  /\ At' \in Losing => Missed(t)' = {} /\ row'[t].discard \in {0, restores'}
             /\ At' \in RollingBack => ~Doomed(t)'
  BY DEF SafeHeadNext
<1>2. /\ t \in Decided /\ t \in Txs
      /\ At \in Losing => Missed(t) = {} /\ row[t].discard \in {0, restores}
      /\ At \in RollingBack => ~Doomed(t)
  BY <1>0, <1>1 DEF SafeHead
<1>3. At \notin Fencing
  BY DEF PartTrue
<1>4. Losing \cap RollingBack = {} /\ "materializing_loss" \in Losing /\ "materializing_loss" \notin RollingBack
      /\ ClosedStages \ RollingBack = Fencing \cup Losing /\ Fencing \cap RollingBack = {}
  BY DEF Losing, Restoring, RollingBack, ClosedStages, Fencing
<1>5. CASE UNCHANGED vars \/ ShardNext
  <2>1. UNCHANGED <<row, ended, restores, At>>
    BY <1>5, ShardFrame DEF vars, control, actors, At
  <2>2. QED
    BY <1>2, <2>1 DEF Doomed, Missed
<1>6. CASE CoordinatorNext
  <2>1. UNCHANGED <<ended, Missed(t), restores>>
    BY <1>6, CoordinatorFrame DEF Missed
  <2>2. At' = At \/ (At \in Losing /\ At' \in Losing)
    <3>1. CASE Quiet
      BY <3>1, QuietAt
    <3>2. CASE \E u \in Txs, by \in {"request", "alarm"} : RegisterLate(u, by)
      BY <1>3, <1>4, <3>2, LateStage DEF ControlTypes
    <3>3. QED
      BY <1>6, <3>1, <3>2, QuietSteps
  <2>3. Missed(t) = {} => row'[t].discard = row[t].discard
    <3>1. PICK u \in Txs : \/ RegisterNew(u) \/ AskGate(u) \/ BeginRow(u) \/ Vote(u)
                           \/ \E by \in {"request", "alarm"} : RegisterLate(u, by) \/ RegisterOpen(u, by)
                           \/ DecideCommit(u) \/ DecideAbort(u) \/ DiscardMissed(u) \/ Leave(u)
      BY <1>6 DEF CoordinatorNext
    <3>2. \/ UNCHANGED row
          \/ \E to : row' = [row EXCEPT ![u].state = to]
          \/ Missed(u) # {} /\ \E n : row' = [row EXCEPT ![u].discard = n]
      BY <3>1 DEF RegisterNew, AskGate, BeginRow, Vote, RegisterLate, RegisterOpen, DecideCommit, DecideAbort,
         DiscardMissed, Leave, Permitted, WorkTrue
    <3>3. QED
      BY <1>2, <3>2 DEF ActorTypes, TxRow
  <2>4. row'[t].state = "committed" /\ row[t].state = "committed"
    BY <1>2, <1>6, RowsStayCommitted DEF Decided
  <2>5. QED
    BY <1>2, <1>4, <2>1, <2>2, <2>3, <2>4 DEF Doomed
<1>7. CASE PreviewNext
  BY <1>7, PreviewCourse
<1>8. CASE RestoreNext
  <2>1. At \in Losing
    BY <1>3, <1>8, RestoreCourse
  <2>2. Closed' => At' \in Losing /\ ~CompleteRestore
    BY <1>8, <2>1, RestoreCourse, RestoreStages
  <2>3. CASE ~Closed'
    <3>1. CompleteRestore \/ At' = "failed"
      BY <1>8, <2>3, RestoreCourse
    <3>2. At' \in {"complete", "failed"}
      BY <3>1, RestoreStages
    <3>3. QED
      BY <3>2 DEF Losing, Restoring, RollingBack
  <2>4. CASE Closed'
    <3>1. UNCHANGED <<ended, restores, Missed(t)>>
      BY <1>8, <2>2, <2>4, RestoreFrames DEF Missed
    <3>2. row'[t].discard \in {row[t].discard, restores}
      <4>1. UNCHANGED row \/ \E u \in Txs : row' = [row EXCEPT ![u].discard = restores]
        BY <1>8, RestoreFrames DEF Discarding
      <4>2. QED
        BY <1>2, <4>1 DEF ActorTypes, TxRow
    <3>3. QED
      BY <1>2, <1>4, <2>1, <2>2, <2>4, <3>1, <3>2
  <2>5. QED
    BY <2>3, <2>4
<1>9. CASE RollbackNext1
  <2>1. UNCHANGED <<row, ended, restores, Doomed(t), Missed(t)>>
    BY <1>9, RollbackFrames DEF Doomed, Missed
  <2>2. CASE Rollback
    <3>1. At \in Losing /\ At' = "rollback_participants"
      BY <1>3, <2>2, RollbackStage
    <3>2. Forgotten = {} /\ work[t] # "discarded"
      BY <1>2, <2>2 DEF Rollback
    <3>3. row[t].discard = 0 /\ Missed(t) = {} /\ row[t].state = "committed"
      BY <1>2, <3>1, <3>2 DEF Forgotten, Decided
    <3>4. ~Doomed(t)
      BY <3>3 DEF Doomed
    <3>5. QED
      BY <2>1, <3>1, <3>4 DEF Losing, Restoring
  <2>3. CASE ~Rollback
    <3>1. (At' \in Losing => At \in Losing) /\ (At' \in RollingBack => At \in RollingBack)
      BY <1>9, <2>3, RollbackCourse
    <3>2. QED
      BY <1>2, <2>1, <3>1
  <2>4. QED
    BY <2>2, <2>3
<1>10. QED
  BY <1>5, <1>6, <1>7, <1>8, <1>9 DEF Next

\* A shard's next state, from what each part of it is made of.
LEMMA DoomedFrom ==
  ASSUME NEW s \in Shards,
         \A X \in {shard'[s].db, shard'[s].last, shard'[s].target, shard'[s].head} : \A t \in Aborted(X) : Doomed(t)',
         \A X \in {shard'[s].db, shard'[s].last, shard'[s].target} : \A t \in Committed(X) : ~Doomed(t)',
         \A t \in Txs : /\ hold'[s] = <<"commit", t>> => ~Doomed(t)'
                        /\ hold'[s] = <<"abort", t>> => Doomed(t)',
         s \in undo' => SafeHead(s)'
  PROVE  DoomedShard(s)'
BY DEF DoomedShard, SafeHead, Aborted, Committed

\* What an undo brings back is safe: the shard is as it was, or was just armed.
LEMMA HeadFrom ==
  ASSUME ControlTypes, ActorTypes, StageTrue, PartTrue, HoldTrue, DecidedTrue, WorkTrue, EndedTrue, DoomTrue,
         [Next]_vars, ~stray', NEW s \in Shards,
         \/ s \in undo /\ shard'[s].head = shard[s].head
         \/ shard'[s].head = shard[s].db
         \/ At' \notin Losing \cup RollingBack
  PROVE  SafeHead(s)'
<1>1. CASE s \in undo /\ shard'[s].head = shard[s].head
  <2>1. SafeHead(s)
    BY <1>1, StrayGrows DEF DoomTrue, DoomedShard, SafeHead
  <2>2. SafeHeadNext(s)
    BY <1>1, <2>1, HeadStays
  <2>3. QED
    BY <1>1, <2>2 DEF SafeHead, SafeHeadNext, Committed
<1>2. CASE shard'[s].head = shard[s].db
  <2>1. \A t \in Committed(shard[s].db) : ~Doomed(t)'
    BY OldData
  <2>2. Committed(shard[s].db) = Committed(shard'[s].head)
    BY <1>2
  <2>3. \A t \in Committed(shard'[s].head) : ~Doomed(t)'
    BY <2>1, <2>2
  <2>4. \A t \in Committed(shard'[s].head) : Missed(t)' = {} /\ row'[t].discard = 0
    BY <2>3 DEF Doomed
  <2>5. QED
    BY <2>3, <2>4 DEF SafeHead, Committed
<1>3. CASE At' \notin Losing \cup RollingBack
  BY <1>3 DEF SafeHead
<1>4. QED
  BY <1>1, <1>2, <1>3

\* A step that leaves the shard's data where it was.
LEMMA DoomedSame ==
  ASSUME ControlTypes, ActorTypes, StageTrue, PartTrue, HoldTrue, DecidedTrue, WorkTrue, EndedTrue, DoomTrue,
         [Next]_vars, ~stray', NEW s \in Shards, SameData(s), hold'[s] = hold[s],
         s \in undo' => s \in undo \/ At' \notin Losing \cup RollingBack
  PROVE  DoomedShard(s)'
<1>1. s \in undo' => SafeHead(s)'
  BY HeadFrom DEF SameData
<1>2. QED
  BY <1>1, OldData, DoomedFrom DEF SameData

\* Requests are let in for what the coordinator says of the transaction.
LEMMA AdmitDoom ==
  ASSUME ControlTypes, ActorTypes, WorkTrue, EndedTrue, ~stray, NEW s \in Shards, NEW what, NEW t \in Txs, Admit(s, what, t)
  PROVE  /\ what = "commit" => ~Doomed(t)
         /\ what = "abort" => Doomed(t)
<1>1. Wanted(s, what, t)
  BY DEF Admit
<1>2. CASE what = "commit"
  <2>1. row[t].state = "committed" /\ row[t].discard = 0
    BY <1>1, <1>2 DEF Wanted
  <2>2. Missed(t) = {}
    BY <2>1, CommittedNotMissed DEF Decided
  <2>3. QED
    BY <1>2, <2>1, <2>2 DEF Doomed
<1>3. CASE what = "abort"
  <2>1. row[t].state = "aborted" \/ visit[t].step = "cleanup"
    BY <1>1, <1>3 DEF Wanted
  <2>2. QED
    BY <1>3, <2>1 DEF Doomed, WorkTrue
<1>4. QED
  BY <1>2, <1>3

\* A session that an undo returns has nothing that was let go.
LEMMA HeadComesBack ==
  ASSUME ControlTypes, ActorTypes, StageTrue, PartTrue, HoldTrue, DecidedTrue, WorkTrue, EndedTrue, DoomTrue,
         [Next]_vars, ~stray', NEW s \in Shards, Closed, part[s] \in RollbackNext
  PROVE  \A t \in Committed(shard[s].head) : ~Doomed(t)'
<1>1. At \in RollingBack /\ s \in undo
  <2>1. At \in ClosedStages /\ part[s] \in StatusOf(At)
    BY WhereItIs DEF ControlTypes, PartTrue
  <2>2. At = "rollback_participants"
    BY <2>1 DEF StatusOf, ClosedStages, Fencing, Restoring, RollingBack, RollbackNext, Early, Begun, Armed, Back
  <2>3. QED
    BY <2>2 DEF RollingBack, PartTrue
<1>2. \A t \in Committed(shard[s].head) : ~Doomed(t) /\ t \in Decided /\ t \in Txs
  BY <1>1, StrayGrows DEF DoomTrue, DoomedShard, DecidedTrue, RewoundOK, Committed
<1>3. At \notin {"discarding_coordinators", "releasing_participants"}
  BY <1>1 DEF RollingBack
<1>4. QED
  BY <1>2, <1>3, Falls DEF Gone

\* A request aborts only what is doomed and commits only what is not.
LEMMA ShardDoom ==
  ASSUME ControlTypes, ActorTypes, StageTrue, PartTrue, MarkTrue, HoldTrue, DecidedTrue, WorkTrue, EndedTrue, DoomTrue,
         ShardNext, ~stray'
  PROVE  \A s \in Shards : DoomedShard(s)'
<1> USE DEF ActorTypes
<1>0. UNCHANGED <<control, row, undo, part, op, gate, At, Closed, stray>> /\ [Next]_vars
  BY ShardFrame DEF control, At, Closed, Next
<1>1. SUFFICES ASSUME NEW r \in Shards PROVE DoomedShard(r)'
  OBVIOUS
<1>2. \A t \in Txs : Doomed(t)' = Doomed(t)
  BY <1>0 DEF Doomed, Missed, control
<1>3. CASE shard'[r] = shard[r] /\ hold'[r] = hold[r]
  BY <1>0, <1>3, DoomedSame DEF SameData
<1>4. ASSUME shard'[r].head = shard[r].head PROVE r \in undo' => SafeHead(r)'
  BY <1>0, <1>4, HeadFrom
<1>5. ASSUME NEW s \in Shards, NEW what, NEW t, Admit(s, what, t), <<what, t>> \in Held PROVE DoomedShard(r)'
  <2>1. UNCHANGED shard /\ hold' = [hold EXCEPT ![s] = <<what, t>>]
    BY <1>5 DEF Admit
  <2>2. CASE r = s
    <3>1. \A u \in Txs : /\ hold'[r] = <<"commit", u>> => ~Doomed(u)'
                         /\ hold'[r] = <<"abort", u>> => Doomed(u)'
      BY <1>0, <1>2, <1>5, <2>1, <2>2, AdmitDoom
    <3>2. QED
      BY <1>0, <1>4, <2>1, <3>1, OldData, DoomedFrom
  <2>3. QED
    BY <1>3, <2>1, <2>2
<1>6. ASSUME NEW s \in Shards, NEW certify \in BOOLEAN, Mutate(s, certify) PROVE DoomedShard(r)'
  <2>1. hold' = [hold EXCEPT ![s] = Free] /\ Elsewhere(s)
    BY <1>6, MutateEffect DEF Mutate
  <2>2. CASE r # s
    BY <1>3, <2>1, <2>2 DEF Elsewhere
  <2>3. CASE r = s
    <3>0. \A t \in Txs : hold'[r] # <<"commit", t>> /\ hold'[r] # <<"abort", t>>
      BY <2>1, <2>3 DEF Free
    <3>1. CASE shard[r].mark # "none"
      <4>1. Same(r)
        BY <1>6, <2>3, <3>1, MutateEffect
      <4>2. QED
        BY <1>0, <1>4, <3>0, <4>1, OldData, DoomedFrom DEF Same
    <3>2. CASE shard[r].mark = "none"
      <4>1. Served(r) /\ shard'[r].last \in {shard[r].last, shard'[r].db}
            /\ shard'[r].target = shard[r].target /\ shard'[r].head = shard[r].head
        BY <1>6, <2>3, <3>2, MutateEffect
      <4>2. (\A t \in Aborted(shard'[r].db) : Doomed(t)') /\ (\A t \in Committed(shard'[r].db) : ~Doomed(t)')
        <5>1. CASE hold[r] = <<"write", "none">> /\ shard'[r].db.tx = shard[r].db.tx
          <6>1. Aborted(shard'[r].db) = Aborted(shard[r].db) /\ Committed(shard'[r].db) = Committed(shard[r].db)
            BY <5>1 DEF Aborted, Committed
          <6>2. QED
            BY <1>0, <6>1, OldData
        <5>2. ASSUME NEW what \in {"prepare", "commit", "abort"}, NEW t \in Txs, hold[r] = <<what, t>>,
                     shard'[r].db.tx[t] = Outcome(what), \A u \in Txs \ {t} : shard'[r].db.tx[u] = shard[r].db.tx[u]
              PROVE  (\A u \in Aborted(shard'[r].db) : Doomed(u)') /\ (\A u \in Committed(shard'[r].db) : ~Doomed(u)')
          <6>1. /\ \A u \in Aborted(shard[r].db) : Doomed(u)'
                /\ \A u \in Committed(shard[r].db) : ~Doomed(u)'
                /\ hold[r] = <<"commit", t>> => ~Doomed(t)'
                /\ hold[r] = <<"abort", t>> => Doomed(t)'
            BY <1>0, OldData
          <6>2. /\ Aborted(shard'[r].db) \subseteq Aborted(shard[r].db) \cup (IF what = "abort" THEN {t} ELSE {})
                /\ Committed(shard'[r].db) \subseteq Committed(shard[r].db) \cup (IF what = "commit" THEN {t} ELSE {})
            BY <5>2 DEF Aborted, Committed, Outcome
          <6>3. QED
            BY <5>2, <6>1, <6>2
        <5>3. QED
          BY <4>1, <5>1, <5>2 DEF Served
      <4>3. QED
        BY <1>0, <1>4, <3>0, <4>1, <4>2, OldData, DoomedFrom
    <3>3. QED
      BY <3>1, <3>2
  <2>4. QED
    BY <2>2, <2>3
<1>7. ASSUME NEW s \in Shards, RestartShard(s) PROVE DoomedShard(r)'
  <2>1. shard' = [shard EXCEPT ![s] = Restarted(s, shard[s])] /\ hold' = [hold EXCEPT ![s] = Free]
    BY <1>7 DEF RestartShard
  <2>2. /\ Elsewhere(s)
        /\ shard[s].armed = "target" => RewoundTo(s)
        /\ shard[s].armed = "undo" => UndoneTo(s)
        /\ shard[s].armed = "none" => Same(s)
    <3>1. shard[s] \in ShardRow
      OBVIOUS
    <3>2. QED
      BY <2>1, <3>1, RestartEffect DEF Same
  <2>3. CASE r # s
    BY <1>3, <2>1, <2>2, <2>3 DEF Elsewhere
  <2>4. CASE r = s
    <3>0. \A t \in Txs : hold'[r] # <<"commit", t>> /\ hold'[r] # <<"abort", t>>
      BY <2>1, <2>4 DEF Free
    <3>1. CASE shard[r].armed = "target"
      <4>1. shard'[r].db = shard[r].target /\ shard'[r].last = shard[r].target
            /\ shard'[r].target = shard[r].target /\ shard'[r].head = shard[r].head
        BY <2>2, <2>4, <3>1 DEF RewoundTo
      <4>2. QED
        BY <1>0, <1>4, <3>0, <4>1, OldData, DoomedFrom
    <3>2. CASE shard[r].armed = "undo"
      <4>1. shard'[r].db = shard[r].head /\ shard'[r].last = shard[r].last
            /\ shard'[r].target = shard[r].target /\ shard'[r].head = shard[r].head
        BY <2>2, <2>4, <3>2 DEF UndoneTo
      <4>2. Closed /\ part[r] \in RollbackNext
        <5>1. MarkOK(r) /\ part[r] \in StatusOf(At)
          BY DEF MarkTrue, PartTrue
        <5>2. Closed /\ MarkFits(part[r], shard[r].mark, shard[r].armed)
          BY <3>2, <5>1 DEF MarkOK
        <5>3. QED
          BY <3>2, <5>2 DEF MarkFits, RollbackNext, Early, Armed, Back
      <4>3. \A t \in Committed(shard[r].head) : ~Doomed(t)'
        BY <1>0, <4>2, HeadComesBack
      <4>4. QED
        BY <1>0, <1>4, <3>0, <4>1, <4>3, OldData, DoomedFrom
    <3>3. CASE shard[r].armed = "none"
      <4>1. Same(r)
        BY <2>2, <2>4, <3>3
      <4>2. QED
        BY <1>0, <1>4, <3>0, <4>1, OldData, DoomedFrom DEF Same
    <3>4. QED
      BY <3>1, <3>2, <3>3 DEF ShardRow
  <2>5. QED
    BY <2>3, <2>4
<1>8. QED
  <2>1. \A t \in Txs, what \in {"prepare", "commit", "abort"} : <<what, t>> \in Held
    BY DEF Held
  <2>2. <<"write", "none">> \in Held
    BY DEF Held
  <2>3. QED
    BY <1>5, <1>6, <1>7, <2>1, <2>2 DEF ShardNext

\* Only the arming of a shard names a new undo bookmark.
LEMMA UndoComes ==
  ASSUME ControlTypes, ActorTypes, StageTrue, PartTrue, MarkTrue, RestoreNext \/ RollbackNext1, PartTrue',
         NEW s \in Shards, s \in undo', Move(s), At' \in Losing \cup RollingBack
  PROVE  s \in undo \/ Arms(s)
<1>1. CASE RollbackNext1
  BY <1>1, RollbackFrames
<1>2. CASE RestoreNext
  <2>0. At' \in Losing
    <3>1. Closed' => At' \in Fencing \cup Losing
      BY <1>2, RestoreCourse
    <3>2. ~Closed' => At' \in {"complete", "failed"}
      BY <1>2, RestoreCourse, RestoreStages
    <3>3. QED
      BY <3>1, <3>2 DEF Losing, Restoring, RollingBack, Fencing
  <2>2. part'[s] \in Armed \cup Back
    BY <2>0 DEF PartTrue
  <2>3. Arms(s) \/ part[s] \in Armed \cup Back
    BY <2>2 DEF Move, Calm, Noted, Marked, ArmsUndo, Rewinds, Returns, Replays, Discards, Turns, Armed, Back
  <2>4. CASE part[s] \in Armed \cup Back
    <3>1. At \in Fencing \cup Losing /\ part[s] \in StatusOf(At)
      BY <1>2, RestoreCourse DEF PartTrue
    <3>2. At \notin Fencing
      BY <2>4, <3>1 DEF Fencing, StatusOf, Armed, Back
    <3>3. QED
      BY <2>4, <3>1, <3>2 DEF PartTrue
  <2>5. QED
    BY <2>3, <2>4
<1>3. QED
  BY <1>1, <1>2

\* A move brings back no doomed commit, and aborts only what is doomed.
LEMMA MovesDoom ==
  ASSUME ControlTypes, ActorTypes, StageTrue, PartTrue, MarkTrue, HoldTrue, DecidedTrue, WorkTrue, EndedTrue, DoomTrue,
         RestoreNext \/ RollbackNext1, ~stray', PartTrue', NEW s \in Shards
  PROVE  DoomedShard(s)'
<1>0. [Next]_vars /\ ~stray /\ hold'[s] = hold[s]
  BY StrayGrows, OperationFrame DEF Next
<1>1. Move(s) /\ MarkOK(s) /\ shard[s] \in ShardRow
  BY RestoreMoves, RollbackMoves DEF MarkTrue, ActorTypes
<1>2. ASSUME ~Arms(s) PROVE s \in undo' => s \in undo \/ At' \notin Losing \cup RollingBack
  BY <1>1, <1>2, UndoComes
<1>3. ASSUME ~Arms(s), shard'[s].head = shard[s].head PROVE s \in undo' => SafeHead(s)'
  BY <1>0, <1>2, <1>3, HeadFrom
<1>4. CASE ~Arms(s) /\ (Calm(s) \/ Noted(s) \/ Marked(s) \/ ArmsUndo(s) \/ Turns(s))
  <2>1. SameData(s)
    BY <1>4 DEF Calm, Noted, Marked, ArmsUndo, Turns, Same, OnlyMark, ArmedWith, SameData
  <2>2. QED
    BY <1>0, <1>2, <1>4, <2>1, DoomedSame
<1>5. CASE Arms(s)
  <2>1. /\ shard'[s].db = shard[s].db /\ shard'[s].last = shard[s].last /\ shard'[s].target = shard[s].target
        /\ shard'[s].head = shard[s].db
    BY <1>1, <1>5 DEF Arms, Same, ArmedWith, MarkOK
  <2>2. SafeHead(s)'
    BY <1>0, <2>1, HeadFrom
  <2>3. QED
    BY <1>0, <2>1, <2>2, OldData, DoomedFrom
<1>6. CASE Rewinds(s) /\ ~Arms(s)
  <2>1. shard'[s].db = shard[s].target /\ shard'[s].last = shard[s].target
        /\ shard'[s].target = shard[s].target /\ shard'[s].head = shard[s].head
    BY <1>6 DEF Rewinds, RewoundTo
  <2>2. QED
    BY <1>0, <1>3, <1>6, <2>1, OldData, DoomedFrom
<1>7. CASE Returns(s) /\ ~Arms(s)
  <2>1. shard'[s].db = shard[s].head /\ shard'[s].last = shard[s].last
        /\ shard'[s].target = shard[s].target /\ shard'[s].head = shard[s].head
    BY <1>7 DEF Returns, UndoneTo
  <2>2. part[s] \in RollbackNext /\ Closed
    <3>1. part[s] \in RollbackNext
      BY <1>7 DEF Returns, RollbackNext
    <3>2. Closed
      <4>1. ~Closed => RetriesRunOut
        BY RestoreCourse, RollbackCourse
      <4>2. RetriesRunOut => shard' = shard
        BY DEF RetriesRunOut, actors
      <4>3. shard'[s] # shard[s]
        BY <1>7 DEF Returns, UndoneTo
      <4>4. QED
        BY <4>1, <4>2, <4>3
    <3>3. QED
      BY <3>1, <3>2
  <2>3. \A t \in Committed(shard[s].head) : ~Doomed(t)'
    BY <1>0, <2>2, HeadComesBack
  <2>4. QED
    BY <1>0, <1>3, <1>7, <2>1, <2>3, OldData, DoomedFrom
<1>8. CASE Replays(s) /\ ~Arms(s)
  <2>1. PICK t \in op.plan : (OnlyTx(s, t, "committed") \/ Same(s)) /\ op.stage = "reconciling"
    BY <1>8 DEF Replays, ReconcileTransaction
  <2>2. t \in Txs /\ ~Doomed(t)
    BY <1>0, <2>1 DEF DoomTrue, DoomedPlan, Over, ControlTypes, OpRow
  <2>3. ~Doomed(t)'
    BY <1>0, <2>1, <2>2, FallsNowhere
  <2>4. CASE Same(s)
    BY <1>0, <1>2, <1>8, <2>4, DoomedSame DEF Same, SameData
  <2>5. CASE OnlyTx(s, t, "committed")
    <3>1. Aborted(shard'[s].db) \subseteq Aborted(shard[s].db) /\ Committed(shard'[s].db) \subseteq Committed(shard[s].db) \cup {t}
      BY <2>5 DEF OnlyTx, Aborted, Committed
    <3>2. shard'[s].last = shard[s].last /\ shard'[s].target = shard[s].target /\ shard'[s].head = shard[s].head
      BY <2>5 DEF OnlyTx
    <3>3. QED
      BY <1>0, <1>3, <1>8, <2>3, <3>1, <3>2, OldData, DoomedFrom
  <2>6. QED
    BY <2>1, <2>4, <2>5
<1>9. CASE Discards(s) /\ ~Arms(s)
  <2>1. PICK t \in Txs, ok \in BOOLEAN :
          DiscardCoordinator(t, ok) /\ OnlyTx(s, t, IF shard[s].db.tx[t] = "committed" THEN "committed" ELSE "aborted")
    BY <1>9 DEF Discards
  <2>2. row'[t].discard # 0
    <3>1. restores # 0
      BY <2>1 DEF DiscardCoordinator, StageTrue
    <3>2. CASE row[t].discard \notin {0, restores}
      BY <2>1, <3>2 DEF DiscardCoordinator
    <3>3. CASE row[t].discard \in {0, restores}
      <4>1. row' = [row EXCEPT ![t].discard = restores]
        BY <2>1, <3>3 DEF DiscardCoordinator
      <4>2. QED
        BY <3>1, <4>1 DEF ActorTypes, TxRow
    <3>4. QED
      BY <3>2, <3>3
  <2>3. Doomed(t)'
    BY <2>2 DEF Doomed
  <2>4. Aborted(shard'[s].db) \subseteq Aborted(shard[s].db) \cup {t} /\ Committed(shard'[s].db) \subseteq Committed(shard[s].db)
    BY <2>1 DEF OnlyTx, Aborted, Committed
  <2>5. shard'[s].last = shard[s].last /\ shard'[s].target = shard[s].target /\ shard'[s].head = shard[s].head
    BY <2>1 DEF OnlyTx
  <2>6. QED
    BY <1>0, <1>3, <1>9, <2>3, <2>4, <2>5, OldData, DoomedFrom
<1>10. QED
  BY <1>1, <1>4, <1>5, <1>6, <1>7, <1>8, <1>9 DEF Move

\* Every step keeps doomed transactions uncommitted and the others unaborted.
LEMMA DoomStep ==
  ASSUME ControlTypes, ActorTypes, StageTrue, PartTrue, MarkTrue, HoldTrue, DecidedTrue, WorkTrue, EndedTrue, DoomTrue,
         PartTrue', [Next]_vars
  PROVE  DoomTrue'
<1>1. SUFFICES ASSUME ~stray' PROVE DoomedVisits' /\ DoomedRows' /\ DoomedPlan' /\ \A s \in Shards : DoomedShard(s)'
  BY DEF DoomTrue
<1>2. DoomedVisits' /\ DoomedRows' /\ DoomedPlan'
  BY <1>1, VisitsStep, RowsDoomStep, PlanStep
<1>3. CASE ShardNext
  BY <1>1, <1>2, <1>3, ShardDoom
<1>4. CASE RestoreNext \/ RollbackNext1
  BY <1>1, <1>2, <1>4, MovesDoom
<1>5. CASE UNCHANGED vars \/ CoordinatorNext
  <2>1. \A s \in Shards : SameData(s) /\ UNCHANGED <<hold, undo>>
    BY <1>5, CoordinatorFrame DEF vars, control, actors, SameData
  <2>2. QED
    BY <1>1, <1>2, <2>1, DoomedSame
<1>6. CASE PreviewNext
  <2>1. At' \notin Losing \cup RollingBack /\ UNCHANGED hold /\ (PassCutoff \/ UNCHANGED shard)
    BY <1>6, PreviewCourse, OperationFrame
  <2>2. ASSUME NEW s \in Shards, PassCutoff PROVE DoomedShard(s)'
    <3>1. /\ shard'[s].target = shard[s].last
          /\ shard'[s].db = shard[s].db /\ shard'[s].last = shard[s].last
          /\ shard'[s].head = shard[s].head
      BY <2>2, CutoffEffect DEF ActorTypes
    <3>2. SafeHead(s)'
      BY <1>1, <2>1, HeadFrom
    <3>3. QED
      BY <1>1, <2>1, <3>1, <3>2, OldData, DoomedFrom
  <2>3. ASSUME NEW s \in Shards, UNCHANGED shard PROVE DoomedShard(s)'
    BY <1>1, <2>1, <2>3, DoomedSame DEF SameData
  <2>4. QED
    BY <1>2, <2>1, <2>2, <2>3
<1>7. QED
  BY <1>3, <1>4, <1>5, <1>6 DEF Next

-----------------------------------------------------------------------------
(* Acknowledged writes. *)

\* What is kept, or reported, stays so.
KeptNext(s, db) == s \in acked' => db.w \/ (ended' # <<>> /\ s \in losses')
Loose(s) ==
  \/ ~Closed
  \/ part[s] \in Early \cup {"rollback_not_needed", "rollback_verified", "rollback_released"}
  \/ part[s] = "loss_materialized" /\ shard[s].mark # "none"
  \/ shard[s].mark = "staging" /\ shard[s].armed = "none"

\* A database that has what was acknowledged, or is reported without it,
\* stays so.
LEMMA KeptStays ==
  ASSUME ControlTypes, StageTrue, [Next]_vars, NEW s, NEW db, Kept(s, db), s \in acked' => s \in acked
  PROVE  KeptNext(s, db)
<1>1. losses \subseteq losses'
  BY ShardFrame, CoordinatorFrame, PreviewCourse, RestoreFrames, RollbackFrames DEF Next, vars, control
<1>2. ended # <<>> => ended' # <<>>
  <2>1. CASE CompleteRestore
    <3>1. ended' = Append(ended, [id |-> restores, work |-> work, existed |-> op.existed, decided |-> cutoff.decided])
      BY <2>1 DEF CompleteRestore
    <3>2. QED
      BY <3>1, AppendProperties, EmptySeq DEF ControlTypes
  <2>2. QED
    BY <2>1, EndedGrows
<1>3. QED
  BY <1>1, <1>2 DEF Kept, KeptNext, Reported

\* A shard's next state, part by part.
LEMMA KeptFrom ==
  ASSUME NEW s \in Shards,
         Loose(s)' => KeptNext(s, shard'[s].db),
         At' \in Losing \cup RollingBack /\ s \in undo' => KeptNext(s, shard'[s].head),
         Closed' /\ part'[s] \in Begun /\ s \in acked' => s \in losses' \/ (shard'[s].db.w /\ shard'[s].target.w)
  PROVE  KeptOK(s)'
BY DEF KeptOK, Loose, KeptNext, Kept, Reported

\* An acknowledged write is at its shard.
LEMMA ShardKept ==
  ASSUME ControlTypes, ActorTypes, StageTrue, PartTrue, MarkTrue, HoldTrue, KeptTrue, ShardNext, ~stray'
  PROVE  \A s \in Shards : KeptOK(s)'
<1> USE DEF ActorTypes
<1>0. UNCHANGED <<undo, losses, ended, part, op, gate, At, Closed, stray>> /\ [Next]_vars
  BY ShardFrame DEF control, At, Closed, Next
<1>1. SUFFICES ASSUME NEW r \in Shards PROVE KeptOK(r)'
  OBVIOUS
<1>2. KeptOK(r) /\ MarkOK(r) /\ HoldOK(r) /\ shard[r] \in ShardRow
  BY <1>0 DEF KeptTrue, MarkTrue, HoldTrue
<1>3. CASE shard'[r] = shard[r] /\ (r \in acked' => r \in acked)
  BY <1>0, <1>2, <1>3 DEF KeptOK, Kept, Reported
<1>4. At \in Losing \cup RollingBack => Closed
  BY WhereItIs DEF ControlTypes, Losing, Restoring, RollingBack, Over, Previewing
<1>5. ASSUME NEW s \in Shards, NEW certify \in BOOLEAN, Mutate(s, certify) PROVE KeptOK(r)'
  <2>1. Elsewhere(s) /\ acked' \subseteq acked \cup {s} /\ hold[s] # Free
    BY <1>5, MutateEffect DEF Mutate
  <2>2. CASE r # s
    BY <1>3, <2>1, <2>2 DEF Elsewhere
  <2>3. CASE r = s /\ shard[r].mark # "none"
    BY <1>3, <1>5, <2>3, MutateEffect DEF Same
  <2>4. CASE r = s /\ shard[r].mark = "none"
    <3>1. /\ Served(r) /\ shard'[r].mark = "none"
          /\ shard'[r].armed = shard[r].armed /\ shard'[r].head = shard[r].head
      BY <1>5, <2>4, MutateEffect
    <3>2. Closed => part[r] \in {"previewed", "rollback_not_needed"}
      BY <1>2, <2>1, <2>4 DEF HoldOK
    <3>3. ~(At \in Losing \cup RollingBack /\ r \in undo)
      <4>1. SUFFICES ASSUME At \in Losing \cup RollingBack, r \in undo PROVE FALSE
        OBVIOUS
      <4>2. part[r] \in {"previewed", "rollback_not_needed"} /\ part[r] \in StatusOf(At)
        BY <1>4, <3>2, <4>1 DEF PartTrue
      <4>3. CASE At \in Losing
        BY <4>1, <4>2, <4>3 DEF PartTrue, Armed, Back
      <4>4. CASE At \in RollingBack
        <5>1. part[r] = "rollback_not_needed"
          BY <4>2, <4>4 DEF StatusOf, RollingBack, RollbackNext
        <5>2. QED
          BY <4>1, <4>4, <5>1 DEF PartTrue
      <4>5. QED
        BY <4>1, <4>3, <4>4
    <3>4. ~(Closed /\ part[r] \in Begun)
      BY <3>2 DEF Begun, Armed, Back
    <3>5. Loose(r)' => KeptNext(r, shard'[r].db)
      <4>1. Loose(r)' => Loose(r)
        BY <1>0, <2>4, <3>1 DEF Loose
      <4>2. (r \in acked' => r \in acked /\ shard'[r].db.w = shard[r].db.w) \/ shard'[r].db.w
        BY <3>1 DEF Served
      <4>3. QED
        BY <1>0, <1>2, <4>1, <4>2 DEF KeptOK, Loose, Kept, Reported, KeptNext
    <3>6. QED
      BY <1>0, <3>3, <3>4, <3>5, KeptFrom
  <2>5. QED
    BY <2>2, <2>3, <2>4
<1>6. ASSUME NEW s \in Shards, RestartShard(s) PROVE KeptOK(r)'
  <2>1. shard' = [shard EXCEPT ![s] = Restarted(s, shard[s])] /\ UNCHANGED acked
    BY <1>6 DEF RestartShard
  <2>2. /\ Elsewhere(s)
        /\ shard[s].armed = "target" => RewoundTo(s)
        /\ shard[s].armed = "undo" => UndoneTo(s)
        /\ shard[s].armed = "none" => Same(s)
    <3>1. shard[s] \in ShardRow
      OBVIOUS
    <3>2. QED
      BY <2>1, <3>1, RestartEffect DEF Same
  <2>3. CASE r # s
    BY <1>3, <2>1, <2>2, <2>3 DEF Elsewhere
  <2>4. CASE r = s /\ shard[r].armed = "none"
    BY <1>3, <2>1, <2>2, <2>4 DEF Same
  <2>5. CASE r = s /\ shard[r].armed = "target"
    <3>1. RewoundTo(r)
      BY <2>2, <2>5
    <3>2. shard[r].mark \in {"staging", "staged"} /\ Closed
      BY <1>0, <1>2, <2>5 DEF MarkOK
    <3>3. part[r] \notin Early \cup {"rollback_not_needed", "rollback_verified", "rollback_released"}
      BY <1>0, <1>2, <2>5, <3>2 DEF MarkOK, MarkFits, Early, Armed, Back
    <3>4. ~Loose(r)'
      BY <1>0, <3>1, <3>2, <3>3 DEF Loose, RewoundTo
    <3>5. QED
      BY <1>0, <1>2, <2>1, <3>1, <3>4, KeptFrom DEF RewoundTo, KeptOK, Kept, Reported, KeptNext
  <2>6. CASE r = s /\ shard[r].armed = "undo"
    <3>1. UndoneTo(r)
      BY <2>2, <2>6
    <3>2. Closed /\ part[r] \in RollbackNext
      BY <1>2, <2>6 DEF MarkOK, MarkFits, RollbackNext, Early, Armed, Back
    <3>3. At \in RollingBack /\ r \in undo
      <4>1. At \in ClosedStages /\ part[r] \in StatusOf(At)
        BY <3>2, WhereItIs DEF ControlTypes, PartTrue
      <4>2. At = "rollback_participants"
        BY <3>2, <4>1 DEF StatusOf, ClosedStages, Fencing, Restoring, RollingBack, RollbackNext, Early, Begun, Armed, Back
      <4>3. QED
        BY <3>2, <4>2 DEF RollingBack, PartTrue
    <3>4. Kept(r, shard[r].head)
      BY <1>2, <3>3 DEF KeptOK
    <3>5. KeptNext(r, shard[r].head)
      BY <1>0, <2>1, <3>4 DEF Kept, KeptNext, Reported
    <3>6. part'[r] \notin Begun
      BY <1>0, <3>2 DEF RollbackNext, Begun, Armed, Back
    <3>7. QED
      BY <3>1, <3>5, <3>6, KeptFrom DEF UndoneTo
  <2>7. QED
    BY <2>3, <2>4, <2>5, <2>6 DEF ShardRow
<1>7. ASSUME UNCHANGED <<shard, acked>> PROVE KeptOK(r)'
  BY <1>3, <1>7
<1>8. QED
  BY <1>5, <1>6, <1>7 DEF ShardNext, Admit

\* The steps of a closed operation.
LEMMA MovesKept ==
  ASSUME ControlTypes, ActorTypes, StageTrue, PartTrue, MarkTrue, KeptTrue, RestoreNext \/ RollbackNext1, ~stray',
         PartTrue', NEW s \in Shards, Closed, Closed'
  PROVE  KeptOK(s)'
<1>0. [Next]_vars /\ ~stray /\ acked' = acked
  BY StrayGrows, OperationFrame DEF Next
<1>1. Move(s) /\ MarkOK(s) /\ KeptOK(s) /\ losses \subseteq losses' /\ part[s] \in StatusOf(At)
  BY <1>0, RestoreMoves, RollbackMoves, RestoreFrames, RollbackFrames DEF MarkTrue, KeptTrue, PartTrue
<1>2. At \in Fencing \cup Losing \cup RollingBack
  BY WhereItIs DEF ControlTypes, ClosedStages, Losing
<1>3. s \in undo => KeptNext(s, shard[s].head)
  <2>1. s \in undo => At \in Losing \cup RollingBack
    BY <1>2 DEF PartTrue
  <2>2. QED
    BY <1>0, <1>1, <2>1, KeptStays DEF KeptOK
<1>4. Loose(s) => KeptNext(s, shard[s].db)
  BY <1>0, <1>1, KeptStays DEF KeptOK, Loose
<1>5. ASSUME ~Arms(s), shard'[s].head = shard[s].head
      PROVE  At' \in Losing \cup RollingBack /\ s \in undo' => KeptNext(s, shard'[s].head)
  BY <1>1, <1>3, <1>5, UndoComes
<1>6. part[s] \in Begun /\ s \in acked => s \in losses' \/ (shard[s].db.w /\ shard[s].target.w)
  BY <1>1 DEF KeptOK
<1>7. CASE Arms(s)
  <2>1. /\ shard'[s].db = shard[s].db /\ shard'[s].target = shard[s].target /\ shard'[s].head = shard[s].db
        /\ part[s] = "loss_materialized" /\ shard[s].mark # "none"
    BY <1>1, <1>7 DEF Arms, Same, ArmedWith, MarkOK
  <2>2. KeptNext(s, shard[s].db)
    BY <1>4, <2>1 DEF Loose
  <2>3. QED
    BY <1>0, <1>6, <2>1, <2>2, KeptFrom DEF Begun
<1>8. CASE ~Arms(s) /\ Calm(s)
  <2>1. Loose(s)' = Loose(s) /\ shard'[s] = shard[s] /\ part'[s] = part[s]
    BY <1>8 DEF Calm, Same, Loose
  <2>2. QED
    BY <1>0, <1>4, <1>5, <1>6, <1>8, <2>1, KeptFrom
<1>9. CASE ~Arms(s) /\ Noted(s)
  <2>1. shard'[s] = shard[s]
    BY <1>9 DEF Noted, Same
  <2>2. Loose(s)' => Loose(s)
    <3>1. CASE part[s] = "rollback_activation_requested" /\ part'[s] = "rollback_verified"
      <4>1. shard[s].mark \notin {"undo-staging", "undo-staged"}
        BY <1>9, <3>1 DEF Noted
      <4>2. shard[s].mark = "staging" /\ shard[s].armed = "none"
        BY <1>1, <3>1, <4>1 DEF MarkOK, MarkFits, Early, Armed, Back
      <4>3. QED
        BY <4>2 DEF Loose
    <3>2. CASE ~(part[s] = "rollback_activation_requested" /\ part'[s] = "rollback_verified")
      BY <1>9, <2>1, <3>2 DEF Noted, Loose, Early
    <3>3. QED
      BY <3>1, <3>2
  <2>3. part'[s] \in Begun /\ s \in acked => s \in losses' \/ (shard[s].db.w /\ shard[s].target.w)
    <3>1. CASE part[s] = "ready" /\ MaterializeShardLoss(s)
      <4>1. s \in acked => shard[s].db.w \/ s \in losses
        BY <1>1, <3>1 DEF KeptOK, Kept, Reported, Early
      <4>2. losses' = IF Lost(shard[s]) THEN losses \cup {s} ELSE losses
        BY <3>1 DEF MaterializeShardLoss
      <4>3. QED
        BY <4>1, <4>2 DEF Lost
    <3>2. CASE part'[s] \in Begun /\ ~(part[s] = "ready" /\ MaterializeShardLoss(s))
      <4>1. part[s] \in Begun
        BY <1>9, <3>2 DEF Noted, Begun, Armed, Back
      <4>2. QED
        BY <1>6, <4>1
    <3>3. QED
      BY <3>1, <3>2
  <2>4. QED
    BY <1>0, <1>4, <1>5, <1>9, <2>1, <2>2, <2>3, KeptFrom
<1>10. CASE ~Arms(s) /\ Marked(s)
  <2>1. shard'[s].db = shard[s].db /\ shard'[s].target = shard[s].target /\ shard'[s].head = shard[s].head
    BY <1>10 DEF Marked, OnlyMark
  <2>2. Loose(s)' => Loose(s)
    BY <1>10 DEF Marked, Loose, Early
  <2>3. part'[s] \in Begun => part[s] \in Begun
    BY <1>10 DEF Marked, Begun, Armed, Back
  <2>4. QED
    BY <1>0, <1>4, <1>5, <1>6, <1>10, <2>1, <2>2, <2>3, KeptFrom
<1>11. CASE ~Arms(s) /\ ArmsUndo(s)
  <2>1. shard'[s].db = shard[s].db /\ shard'[s].head = shard[s].head
    BY <1>11 DEF ArmsUndo, Same, ArmedWith
  <2>2. part'[s] \in {"rollback_pending", "rollback_staged"} /\ shard'[s].mark # "staging"
    BY <1>11 DEF ArmsUndo, Same, ArmedWith
  <2>3. ~Loose(s)' /\ part'[s] \notin Begun
    BY <2>2 DEF Loose, Early, Begun, Armed, Back
  <2>4. QED
    BY <1>5, <1>11, <2>1, <2>3, KeptFrom
<1>12. CASE ~Arms(s) /\ Rewinds(s)
  <2>1. shard'[s].db = shard[s].target /\ shard'[s].target = shard[s].target /\ shard'[s].head = shard[s].head
        /\ shard'[s].mark = "none" /\ part'[s] = "activation_requested" /\ part[s] \in Begun
    BY <1>12 DEF Rewinds, RewoundTo, Begun
  <2>2. ~Loose(s)'
    BY <2>1 DEF Loose, Early
  <2>3. QED
    BY <1>0, <1>5, <1>6, <1>12, <2>1, <2>2, KeptFrom
<1>13. CASE ~Arms(s) /\ Returns(s)
  <2>1. shard'[s].db = shard[s].head /\ shard'[s].head = shard[s].head /\ part'[s] \notin Begun
    BY <1>13 DEF Returns, UndoneTo, Begun, Armed, Back
  <2>2. part[s] \in RollbackNext
    BY <1>13 DEF Returns, RollbackNext
  <2>3. At = "rollback_participants"
    BY <1>1, <1>2, <2>2 DEF StatusOf, Fencing, Losing, Restoring, RollingBack, RollbackNext, Early, Begun, Armed, Back
  <2>4. s \in undo
    BY <2>2, <2>3 DEF PartTrue, RollingBack
  <2>5. QED
    BY <1>3, <1>5, <1>13, <2>1, <2>4, KeptFrom
<1>14. CASE ~Arms(s) /\ (Replays(s) \/ Discards(s))
  <2>1. Same(s) \/ \E t, status : OnlyTx(s, t, status)
    BY <1>14 DEF Replays, Discards
  <2>2. /\ shard'[s].db.w = shard[s].db.w /\ shard'[s].target = shard[s].target /\ shard'[s].head = shard[s].head
        /\ shard'[s].mark = shard[s].mark /\ shard'[s].armed = shard[s].armed
    BY <2>1 DEF Same, OnlyTx
  <2>3. part'[s] = part[s]
    BY <1>14 DEF Replays, Discards
  <2>4. Loose(s)' => Loose(s)
    BY <2>2, <2>3 DEF Loose
  <2>5. Loose(s)' => KeptNext(s, shard'[s].db)
    BY <1>4, <2>2, <2>4 DEF KeptNext
  <2>6. QED
    BY <1>0, <1>5, <1>6, <1>14, <2>2, <2>3, <2>5, KeptFrom
<1>15. CASE ~Arms(s) /\ Turns(s)
  <2>1. shard'[s] = shard[s] /\ part'[s] = IF s \in undo THEN "rollback_pending" ELSE "rollback_not_needed"
    BY <1>15 DEF Turns, Same
  <2>2. part'[s] \notin Begun
    BY <2>1 DEF Begun, Armed, Back
  <2>3. CASE s \in undo
    <3>1. Loose(s)' => Loose(s)
      BY <2>1, <2>3 DEF Loose, Early
    <3>2. QED
      BY <1>4, <1>5, <1>15, <2>1, <2>2, <3>1, KeptFrom
  <2>4. CASE s \notin undo
    <3>1. shard[s].mark = "install" /\ At \in Fencing \cup Losing
      BY <1>15, <2>4, RollbackStage DEF Turns, Rollback
    <3>2. part[s] \in Early \cup {"loss_materialized"}
      <4>1. CASE At \in Fencing
        BY <1>1, <4>1 DEF Fencing, StatusOf, Early
      <4>2. CASE At \in Losing
        <5>1. part[s] \notin Armed \cup Back
          BY <2>4, <4>2 DEF PartTrue
        <5>2. QED
          BY <1>1, <4>2, <5>1 DEF Losing, Restoring, StatusOf, Early, Begun, Armed, Back
      <4>3. QED
        BY <3>1, <4>1, <4>2
    <3>3. Loose(s)
      BY <3>1, <3>2 DEF Loose
    <3>4. QED
      BY <1>4, <1>5, <1>15, <2>1, <2>2, <3>3, KeptFrom
  <2>5. QED
    BY <2>3, <2>4
<1>16. QED
  BY <1>1, <1>7, <1>8, <1>9, <1>10, <1>11, <1>12, <1>13, <1>14, <1>15 DEF Move

\* When the gate opens, every shard has what it acknowledged, or it is reported.
LEMMA OpensKept ==
  ASSUME ControlTypes, ActorTypes, StageTrue, PartTrue, MarkTrue, KeptTrue, RestoreNext \/ RollbackNext1, ~stray',
         NEW s \in Shards, ~Closed'
  PROVE  KeptOK(s)'
<1>0. [Next]_vars /\ ~stray /\ acked' = acked
  BY StrayGrows, OperationFrame DEF Next
<1>1. KeptOK(s) /\ part[s] \in StatusOf(At)
  BY <1>0 DEF KeptTrue, PartTrue
<1>2. At' \notin Losing \cup RollingBack
  <2>1. CASE RestoreNext
    <3>1. At' \in {"complete", "failed"}
      BY <2>1, RestoreCourse, RestoreStages
    <3>2. QED
      BY <3>1 DEF Losing, Restoring, RollingBack
  <2>2. CASE RollbackNext1
    <3>1. CompleteRollback \/ RetriesRunOut
      BY <2>2, RollbackCourse
    <3>2. At' \in {"rolled_back", "failed"}
      BY <3>1, UndoneStages, RetriesStage, RollbackCourse, <2>2
    <3>3. QED
      BY <3>2 DEF Losing, Restoring, RollingBack
  <2>3. QED
    BY <2>1, <2>2
<1>3. SUFFICES KeptNext(s, shard'[s].db)
  BY <1>2, KeptFrom
<1>4. ASSUME Loose(s), shard'[s].db = shard[s].db PROVE KeptNext(s, shard'[s].db)
  BY <1>0, <1>1, <1>4, KeptStays DEF KeptOK, Loose
<1>5. CASE CompleteRestore
  <2>1. /\ part[s] = "released" /\ UNCHANGED <<shard, losses>> /\ Closed
        /\ ended' = Append(ended, [id |-> restores, work |-> work, existed |-> op.existed, decided |-> cutoff.decided])
    BY <1>5, RestoreStages DEF CompleteRestore, actors
  <2>2. ended' # <<>>
    BY <2>1, AppendProperties, EmptySeq DEF ControlTypes
  <2>3. QED
    BY <1>0, <1>1, <2>1, <2>2 DEF KeptOK, KeptNext, Begun, Back
<1>6. CASE RestoreNext /\ ~CompleteRestore
  <2>1. At \in Fencing
    BY <1>6, RestoreCourse
  <2>2. part[s] \in Early
    BY <1>1, <2>1 DEF Fencing, StatusOf, Early
  <2>3. Move(s)
    BY <1>6, RestoreMoves
  <2>4. shard'[s].db = shard[s].db
    <3>1. ~Replays(s) /\ ~Discards(s)
      BY <2>1 DEF Replays, Discards, ReconcileTransaction, DiscardCoordinator, At, Fencing
    <3>2. ~Arms(s) /\ ~ArmsUndo(s) /\ ~Rewinds(s) /\ ~Returns(s)
      BY <2>2 DEF Arms, ArmsUndo, Rewinds, Returns, Early, Armed
    <3>3. QED
      BY <2>3, <3>1, <3>2 DEF Move, Calm, Noted, Marked, Turns, Same, OnlyMark
  <2>5. QED
    BY <1>4, <2>2, <2>4 DEF Loose
<1>7. CASE RollbackNext1
  <2>1. CASE CompleteRollback
    <3>1. UNCHANGED shard /\ part[s] = "rollback_released"
      BY <2>1 DEF CompleteRollback, actors
    <3>2. QED
      BY <1>4, <3>1 DEF Loose
  <2>2. CASE RetriesRunOut /\ ~Closed
    BY <1>4, <2>2 DEF RetriesRunOut, actors, Loose
  <2>3. QED
    BY <1>7, <2>1, <2>2, RollbackCourse
<1>8. QED
  BY <1>5, <1>6, <1>7

\* Every step keeps acknowledged writes, or reports them.
LEMMA KeptStep ==
  ASSUME ControlTypes, ActorTypes, StageTrue, PartTrue, MarkTrue, HoldTrue, KeptTrue, PartTrue', [Next]_vars
  PROVE  KeptTrue'
<1>1. SUFFICES ASSUME ~stray', NEW s \in Shards PROVE KeptOK(s)'
  BY DEF KeptTrue
<1>2. ~stray /\ KeptOK(s)
  BY <1>1, StrayGrows DEF KeptTrue
<1>3. CASE ShardNext
  BY <1>1, <1>3, ShardKept
<1>4. CASE RestoreNext \/ RollbackNext1
  <2>1. Closed' => Closed
    BY <1>4, RestoreCourse, RollbackCourse
  <2>2. QED
    BY <1>1, <1>4, <2>1, MovesKept, OpensKept
<1>5. CASE UNCHANGED vars
  <2>1. UNCHANGED <<op, gate, part, undo, losses, ended, shard, acked, At, Closed>>
    BY <1>5 DEF vars, control, actors, At, Closed
  <2>2. QED
    BY <1>2, <2>1 DEF KeptOK, Kept, Reported
<1>6. CASE CoordinatorNext
  <2>1. UNCHANGED <<gate, part, undo, losses, ended, shard, acked, Closed>>
    BY <1>6, CoordinatorFrame DEF Closed
  <2>2. At' = At \/ (At' = "materializing_loss" /\ At \in ClosedStages \ RollingBack)
    <3>1. CASE Quiet
      BY <3>1, QuietAt
    <3>2. CASE \E u \in Txs, by \in {"request", "alarm"} : RegisterLate(u, by)
      BY <3>2, LateStage DEF ControlTypes
    <3>3. QED
      BY <1>6, <3>1, <3>2, QuietSteps
  <2>3. At' \in Losing \cup RollingBack /\ s \in undo => At \in Losing \cup RollingBack
    BY <2>2 DEF PartTrue, ClosedStages, Losing
  <2>4. QED
    BY <1>2, <2>1, <2>3 DEF KeptOK, Kept, Reported
<1>7. CASE PreviewNext
  <2>1. /\ ~Closed /\ (PassCutoff \/ UNCHANGED shard) /\ (Closed' => Execute) /\ At' \notin Losing \cup RollingBack
        /\ acked' = acked
    BY <1>7, PreviewCourse, OperationFrame
  <2>2. shard'[s].db = shard[s].db
    BY <2>1, CutoffEffect DEF ActorTypes
  <2>3. KeptNext(s, shard[s].db)
    BY <1>2, <2>1, KeptStays DEF KeptOK
  <2>4. Closed' => part'[s] = "previewed"
    BY <2>1, PreviewStages DEF Execute, PartTrue, StatusOf
  <2>5. QED
    BY <2>1, <2>2, <2>3, <2>4, KeptFrom DEF Begun, Armed, Back
<1>8. QED
  BY <1>3, <1>4, <1>5, <1>6, <1>7 DEF Next

-----------------------------------------------------------------------------
(* Replayed transactions. *)

\* A shard that is back, while no request runs at it, keeps its commits.
LEMMA BackKeeps ==
  ASSUME ControlTypes, ActorTypes, StageTrue, PartTrue, MarkTrue, RestoreNext \/ RollbackNext1,
         NEW s \in Shards, part[s] \in Back
  PROVE  Committed(shard[s].db) \subseteq Committed(shard'[s].db) /\ (Closed' /\ ~Rollback => part'[s] \in Back)
<1>1. Move(s)
  BY RestoreMoves, RollbackMoves
<1>2. ~Arms(s) /\ ~ArmsUndo(s) /\ ~Rewinds(s) /\ ~Returns(s)
  BY DEF Arms, ArmsUndo, Rewinds, Returns, Armed, Back
<1>3. CASE Calm(s) \/ Noted(s) \/ Marked(s) \/ Turns(s)
  <2>1. shard'[s].db = shard[s].db
    BY <1>3 DEF Calm, Noted, Marked, Turns, Same, OnlyMark
  <2>2. ~Rollback => part'[s] \in Back
    BY <1>3 DEF Calm, Noted, Marked, Turns, Back
  <2>3. QED
    BY <2>1, <2>2 DEF Committed
<1>4. CASE Replays(s) \/ Discards(s)
  <2>1. part'[s] = part[s]
    BY <1>4 DEF Replays, Discards
  <2>2. Committed(shard[s].db) \subseteq Committed(shard'[s].db)
    <3>1. CASE Replays(s)
      <4>1. Same(s) \/ \E t \in Txs : OnlyTx(s, t, "committed")
        BY <3>1 DEF Replays
      <4>2. QED
        BY <4>1 DEF Same, OnlyTx, Committed
    <3>2. CASE Discards(s)
      <4>1. PICK t \in Txs : OnlyTx(s, t, IF shard[s].db.tx[t] = "committed" THEN "committed" ELSE "aborted")
        BY <3>2 DEF Discards
      <4>2. QED
        BY <4>1 DEF OnlyTx, Committed
    <3>3. QED
      BY <1>4, <3>1, <3>2
  <2>3. QED
    BY <2>1, <2>2
<1>5. QED
  BY <1>1, <1>2, <1>3, <1>4 DEF Move

\* A tick that counts a transaction as replayed committed it at every shard.
LEMMA ReplayedEverywhere ==
  ASSUME ActorTypes, NEW t \in Txs, NEW upto \in Prefixes, ReconcileTransaction(t, upto), NEW s \in Shards,
         upto = Cardinality(Shards)
  PROVE  shard'[s].db.tx[t] = "committed"
<1>1. s <= upto /\ upto \in Nat
  BY RestoreAssumption, FS_CardinalityType
<1>2. QED
  BY <1>1, ReconcileEffect DEF ActorTypes, OnlyTx

\* A restore's own steps replay.
LEMMA RestoreReplay ==
  ASSUME ControlTypes, ActorTypes, StageTrue, PartTrue, MarkTrue, ReplayTrue, RestoreNext
  PROVE  ReplayTrue'
<1>0. op'.plan = op.plan /\ Closed /\ (op'.stage = "complete" => CompleteRestore)
  BY RestoreCourse
<1>1. At \in Fencing => op.replayed = {}
  BY DEF PartTrue
<1>2. ASSUME NEW t \in Txs, NEW upto \in Prefixes, ReconcileTransaction(t, upto)
      PROVE  ReplayTrue'
  <2>1. op.stage = "reconciling" /\ t \in op.plan /\ At = "reconciling"
    BY <1>2 DEF ReconcileTransaction, At
  <2>2. \A s \in Shards : part[s] \in {"restored", "verified"} /\ part' = part
    BY <1>2, <2>1 DEF PartTrue, StatusOf, ReconcileTransaction
  <2>3. /\ op'.replayed = IF upto = Cardinality(Shards) THEN op.replayed \cup {t} ELSE op.replayed
        /\ op'.stage = "reconciling" /\ op'.plan = op.plan
    BY <1>2, <2>1 DEF ReconcileTransaction, ControlTypes, OpRow
  <2>4. ASSUME NEW u \in op'.replayed, NEW s \in Shards PROVE shard'[s].db.tx[u] = "committed"
    <3>1. CASE u \in op.replayed
      <4>1. u \in Txs /\ u \in Committed(shard[s].db)
        BY <2>1, <3>1 DEF ReplayTrue, Losing, Restoring, ControlTypes, OpRow, Committed
      <4>2. Committed(shard[s].db) \subseteq Committed(shard'[s].db)
        BY <2>2, BackKeeps DEF Back
      <4>3. QED
        BY <4>1, <4>2 DEF Committed
    <3>2. CASE u \notin op.replayed
      <4>1. u = t /\ upto = Cardinality(Shards)
        BY <2>3, <2>4, <3>2
      <4>2. QED
        BY <1>2, <4>1, ReplayedEverywhere
    <3>3. QED
      BY <3>1, <3>2
  <2>5. op'.replayed \subseteq op'.plan
    BY <2>1, <2>3 DEF ReplayTrue
  <2>6. QED
    BY <2>2, <2>3, <2>4, <2>5 DEF ReplayTrue, Back
<1>3. CASE ~\E t \in Txs, upto \in Prefixes : ReconcileTransaction(t, upto)
  <2>1. op'.replayed = op.replayed
    <3>1. CASE FenceCatalogs \/ RevalidationEnds \/ LossMaterialized \/ ParticipantsRestored
             \/ TransactionsReconciled \/ ParticipantsVerified \/ CoordinatorsDiscarded \/ CompleteRestore
      BY <3>1, RestoreStages DEF SameRow
    <3>2. CASE \/ \E s \in Shards : RevalidateParticipant(s) \/ MaterializeShardLoss(s) \/ VerifyParticipant(s)
               \/ \E s \in Shards, ok \in BOOLEAN :
                    FenceParticipant(s, ok) \/ ActivateParticipant(s, ok) \/ VerifyActivation(s, ok) \/ ReleaseParticipant(s, ok)
               \/ \E t \in Txs : MaterializeCoordinatorLoss(t)
      <4>1. Quiet
        BY <3>2, RestoreQuiet
      <4>2. QED
        BY <4>1 DEF Quiet
    <3>3. CASE \/ \E late \in BOOLEAN : FencingEnds(late)
               \/ \E upto \in Prefixes : FailBeforeRestore(upto)
               \/ \E s \in Shards, answer \in {"ok", "lost", "unsure"} : StageParticipant(s, answer)
               \/ \E t \in Txs, ok \in BOOLEAN : DiscardCoordinator(t, ok)
      BY <3>3, FencingEndsStage, FailBeforeStage, StageParticipantStage, DiscardStage DEF SameRow
    <3>4. QED
      BY <1>3, <3>1, <3>2, <3>3 DEF RestoreNext
  <2>2. CASE op.replayed = {}
    <3>1. CompleteRestore => op.plan = op.replayed
      BY DEF CompleteRestore
    <3>2. QED
      BY <1>0, <2>1, <2>2, <3>1 DEF ReplayTrue
  <2>3. CASE op.replayed # {}
    <3>1. At \in Losing /\ \A s \in Shards : part[s] \in Back
      BY <1>1, <2>3, RestoreCourse DEF ReplayTrue
    <3>2. CASE Closed'
      <4>0. ~Rollback
        BY <3>1, <3>2, RestoreCourse, RollbackStage DEF Losing, Restoring
      <4>1. \A s \in Shards : part'[s] \in Back /\ Committed(shard[s].db) \subseteq Committed(shard'[s].db)
        BY <3>1, <3>2, <4>0, BackKeeps
      <4>2. \A t \in op.replayed : t \in Txs /\ \A s \in Shards : t \in Committed(shard[s].db)
        BY <3>1 DEF ReplayTrue, ControlTypes, OpRow, Committed
      <4>3. \A t \in op.replayed, s \in Shards : shard'[s].db.tx[t] = "committed"
        BY <4>1, <4>2 DEF Committed
      <4>4. CompleteRestore => op.plan = op.replayed
        BY DEF CompleteRestore
      <4>5. QED
        BY <1>0, <2>1, <4>1, <4>3, <4>4 DEF ReplayTrue
    <3>3. CASE ~Closed'
      <4>1. CompleteRestore
        BY <3>1, <3>3, RestoreCourse DEF Losing, Restoring, Fencing
      <4>2. op.plan = op.replayed /\ UNCHANGED <<shard, part>> /\ At' = "complete" /\ op'.plan = op.plan
        BY <1>0, <4>1, RestoreStages DEF CompleteRestore, actors
      <4>3. \A t \in op'.replayed, s \in Shards : shard'[s].db.tx[t] = "committed"
        BY <2>1, <3>1, <4>2 DEF ReplayTrue
      <4>4. QED
        BY <2>1, <4>2, <4>3 DEF ReplayTrue, Losing, Restoring
    <3>4. QED
      BY <3>2, <3>3
  <2>4. QED
    BY <2>2, <2>3
<1>4. QED
  BY <1>2, <1>3

\* No request and no restart undoes what was replayed.
LEMMA ShardReplay ==
  ASSUME ControlTypes, ActorTypes, StageTrue, PartTrue, MarkTrue, HoldTrue, ReplayTrue, ShardNext
  PROVE  ReplayTrue'
<1> USE DEF ActorTypes
<1>0. UNCHANGED <<part, op, gate, At, Closed>>
  BY ShardFrame DEF control, At, Closed
<1>1. SUFFICES ASSUME At \in Losing \cup {"complete"}, NEW t \in op.replayed, NEW r \in Shards
      PROVE  shard'[r].db.tx[t] = "committed"
  BY <1>0 DEF ReplayTrue
<1>2. shard[r].db.tx[t] = "committed" /\ t \in Txs /\ shard[r] \in ShardRow /\ HoldOK(r)
  BY <1>1 DEF ReplayTrue, ControlTypes, OpRow, HoldTrue
<1>3. shard[r].armed = "none"
  <2>1. part[r] \in Back
    BY <1>1 DEF ReplayTrue, PartTrue, StatusOf, Losing, Restoring, Back
  <2>2. Closed \/ op.stage = "complete"
    <3>1. At \in Losing => Closed
      BY WhereItIs DEF ControlTypes, Losing, Restoring, Over, Previewing
    <3>2. At = "complete" => op.stage = "complete"
      BY DEF At, StageTrue, ClosedStages, Fencing, Restoring, RollingBack
    <3>3. QED
      BY <1>1, <3>1, <3>2
  <2>3. QED
    BY <2>1, <2>2 DEF MarkTrue, MarkOK, MarkFits, Early, Armed, Back
<1>4. ASSUME NEW s \in Shards, NEW certify \in BOOLEAN, Mutate(s, certify) PROVE shard'[r].db.tx[t] = "committed"
  <2>1. CASE r # s \/ shard[r].mark # "none"
    BY <1>2, <1>4, <2>1, MutateEffect DEF Elsewhere, Same
  <2>2. CASE r = s /\ shard[r].mark = "none"
    <3>1. Served(r)
      BY <1>4, <2>2, MutateEffect
    <3>2. hold[r] # <<"prepare", t>> /\ hold[r] # <<"abort", t>>
      BY <1>2 DEF HoldOK
    <3>3. QED
      BY <1>2, <3>1, <3>2 DEF Served, Outcome
  <2>3. QED
    BY <2>1, <2>2
<1>5. ASSUME NEW s \in Shards, RestartShard(s) PROVE shard'[r].db.tx[t] = "committed"
  <2>1. shard' = [shard EXCEPT ![s] = Restarted(s, shard[s])]
    BY <1>5 DEF RestartShard
  <2>2. CASE r # s
    BY <1>2, <2>1, <2>2
  <2>3. CASE r = s
    <3>1. shard'[r] = shard[r]
      BY <1>2, <1>3, <2>1, <2>3 DEF Restarted
    <3>2. QED
      BY <1>2, <3>1
  <2>4. QED
    BY <2>2, <2>3
<1>6. CASE UNCHANGED shard
  BY <1>2, <1>6
<1>7. QED
  BY <1>4, <1>5, <1>6 DEF ShardNext, Admit

\* A preview starts with nothing replayed.
LEMMA PreviewReplay ==
  ASSUME ControlTypes, ActorTypes, StageTrue, PartTrue, ReplayTrue, PreviewNext
  PROVE  ReplayTrue'
<1>1. CASE PassCutoff
  <2>1. op' = op /\ UNCHANGED <<part, At>>
    BY <1>1 DEF PassCutoff, At
  <2>2. \A s \in Shards : shard'[s].db = shard[s].db
    BY <1>1, CutoffEffect DEF ActorTypes
  <2>3. QED
    BY <2>1, <2>2 DEF ReplayTrue
<1>2. CASE ~PassCutoff
  <2>1. op'.replayed = {}
    <3>1. CASE Preview
      <4>1. op'.replayed = {}
        BY <3>1 DEF Preview
      <4>2. QED
        BY <4>1
    <3>2. CASE ~Preview
      <4>1. op.stage \in Previewing \cup {"previewed"}
        BY <1>2, <3>2 DEF PreviewNext, CloseManifest, EnumerateManifest, MaterializeEnvelopes, PreviewParticipant,
           FinalizePlan, MoveTopology, Execute, Previewing
      <4>2. At = op.stage
        BY <4>1 DEF At, Previewing
      <4>3. op.replayed = {}
        BY <4>1, <4>2 DEF PartTrue
      <4>4. op'.replayed = op.replayed
        <5>1. CASE EnumerateManifest
          <6>1. op' = [op EXCEPT !.stage = "materializing_envelopes", !.plan = cutoff.decided \ DiscardedBefore]
            BY <5>1 DEF EnumerateManifest
          <6>2. QED
            BY <6>1 DEF ControlTypes, OpRow
        <5>2. CASE MoveTopology \/ \E s \in Shards : PreviewParticipant(s)
          BY <5>2 DEF MoveTopology, PreviewParticipant
        <5>3. CASE CloseManifest \/ MaterializeEnvelopes \/ FinalizePlan \/ Execute
          BY <5>3, PreviewStages DEF SameRow
        <5>4. QED
          BY <1>2, <3>2, <5>1, <5>2, <5>3 DEF PreviewNext
      <4>5. QED
        BY <4>3, <4>4
    <3>3. QED
      BY <3>1, <3>2
  <2>2. op'.stage = "complete" => op' = op /\ op.stage = "complete"
    BY PreviewCourse
  <2>3. QED
    BY <2>1, <2>2 DEF ReplayTrue
<1>3. QED
  BY <1>1, <1>2

\* Every step keeps what was replayed committed at every shard.
LEMMA ReplayStep ==
  ASSUME ControlTypes, ActorTypes, StageTrue, PartTrue, MarkTrue, HoldTrue, ReplayTrue, StageTrue', ControlTypes', [Next]_vars
  PROVE  ReplayTrue'
<1>1. CASE UNCHANGED vars
  <2>1. UNCHANGED <<op, part, shard, At>>
    BY <1>1 DEF vars, control, actors, At
  <2>2. QED
    BY <2>1 DEF ReplayTrue
<1>2. CASE CoordinatorNext
  <2>1. UNCHANGED <<part, shard>>
    BY <1>2, CoordinatorFrame
  <2>2. CASE Quiet
    <3>1. UNCHANGED <<op, At>>
      BY <2>2, QuietAt DEF Quiet
    <3>2. QED
      BY <2>1, <3>1 DEF ReplayTrue
  <2>3. CASE \E t \in Txs, by \in {"request", "alarm"} : RegisterLate(t, by)
    <3>1. /\ Closed' /\ op'.plan = op.plan /\ op'.replayed = op.replayed
          /\ At' = At \/ (At' = "materializing_loss" /\ At \in ClosedStages \ RollingBack)
      BY <2>3, LateStage DEF ControlTypes, SameRow
    <3>2. At' # "complete" /\ op'.stage # "complete"
      BY <3>1, WhereItIs DEF StageTrue, ControlTypes, Over, At, ClosedStages, Fencing, Restoring, RollingBack
    <3>3. At' \in Losing => op.replayed = {} \/ At \in Losing
      BY <3>1 DEF PartTrue, ClosedStages, Losing
    <3>4. QED
      BY <2>1, <3>1, <3>2, <3>3 DEF ReplayTrue
  <2>4. QED
    BY <1>2, <2>2, <2>3, QuietSteps
<1>3. CASE RollbackNext1
  <2>1. /\ op'.plan = op.plan /\ op'.replayed = op.replayed /\ (At' \in Losing => At \in Losing) /\ op'.stage # "complete"
    BY <1>3, RollbackCourse DEF SameRow
  <2>2. At' # "complete"
    BY <2>1 DEF At, StageTrue, ClosedStages, Fencing, Restoring, RollingBack
  <2>3. CASE At' \in Losing /\ op.replayed # {}
    <3>1. At \in Losing /\ \A s \in Shards : part[s] \in Back
      BY <2>1, <2>3 DEF ReplayTrue
    <3>2. Closed' /\ ~Rollback
      <4>1. Closed'
        BY <2>3 DEF StageTrue, At, Closed, Losing, Restoring, Over, Previewing
      <4>2. ~Rollback
        BY <2>3, RollbackStage DEF Losing, Restoring
      <4>3. QED
        BY <4>1, <4>2
    <3>3. \A s \in Shards : part'[s] \in Back /\ Committed(shard[s].db) \subseteq Committed(shard'[s].db)
      BY <1>3, <3>1, <3>2, BackKeeps
    <3>4. \A t \in op.replayed : t \in Txs /\ \A s \in Shards : t \in Committed(shard[s].db)
      BY <3>1 DEF ReplayTrue, ControlTypes, OpRow, Committed
    <3>5. \A t \in op.replayed, s \in Shards : shard'[s].db.tx[t] = "committed"
      BY <3>3, <3>4 DEF Committed
    <3>6. QED
      BY <2>1, <2>2, <3>3, <3>5 DEF ReplayTrue
  <2>4. CASE At' \notin Losing \/ op.replayed = {}
    BY <2>1, <2>2, <2>4 DEF ReplayTrue
  <2>5. QED
    BY <2>3, <2>4
<1>4. QED
  BY <1>1, <1>2, <1>3, ShardReplay, PreviewReplay, RestoreReplay DEF Next

-----------------------------------------------------------------------------
(* The invariant, and what follows from it. *)

LEMMA InitInv ==
  ASSUME Init
  PROVE  RestoreInv
<1>1. PICK legacy \in SUBSET Txs : LET
        found == [t \in Txs |-> IF t \in legacy THEN "prepared" ELSE "none"]
        Empty == [w |-> FALSE, tx |-> found] IN
        /\ shard = [s \in Shards |-> [db |-> Empty, last |-> Empty, target |-> Empty, mark |-> "none",
                                      armed |-> "none", head |-> Empty]]
        /\ row = [t \in Txs |-> [state |-> found[t], discard |-> 0]]
  BY DEF Init
<1> DEFINE found == [t \in Txs |-> IF t \in legacy THEN "prepared" ELSE "none"]
           Empty == [w |-> FALSE, tx |-> found]
<1>2. /\ op = [stage |-> "none", resume |-> "none", blocker |-> "none", plan |-> {},
               replayed |-> {}, existed |-> {}, doomed |-> FALSE]
      /\ gate = "open" /\ part = [s \in Shards |-> "none"] /\ undo = {} /\ work = NoWork
      /\ losses = {} /\ registry = {} /\ ended = <<>> /\ cutoff = [set |-> FALSE, decided |-> {}]
      /\ hold = [s \in Shards |-> Free] /\ acked = {} /\ visit = [t \in Txs |-> Idle]
      /\ stray = FALSE /\ faults = 0 /\ restores = 0
  BY DEF Init
<1>3. Empty \in Databases /\ \A t \in Txs : found[t] \in {"none", "prepared"}
  BY DEF Databases, TxStatus
<1>4. \A s \in Shards : /\ shard[s].db = Empty /\ shard[s].last = Empty /\ shard[s].target = Empty /\ shard[s].head = Empty
                        /\ shard[s].mark = "none" /\ shard[s].armed = "none"
  BY <1>1
<1>5. \A t \in Txs : row[t].state \in {"none", "prepared"} /\ row[t].discard = 0
  BY <1>1, <1>3
<1>6. Committed(Empty) = {} /\ Aborted(Empty) = {}
  BY <1>3 DEF Committed, Aborted
<1>7. ~Closed /\ At = "none"
  BY <1>2 DEF Closed, At
<1>8. ControlTypes
  <2>1. op \in OpRow
    BY <1>2 DEF OpRow, Stages, Over
  <2>2. part \in [Shards -> PartStatus] /\ work \in [Txs -> WorkStatus]
    BY <1>2 DEF PartStatus, WorkStatus, NoWork
  <2>3. cutoff \in [set : BOOLEAN, decided : SUBSET Txs] /\ ended \in Seq(EndedRow)
    BY <1>2, EmptySeq
  <2>4. restores \in 0 .. MaxRestores
    BY <1>2, BoundsAreNat
  <2>5. stray \in BOOLEAN
    BY <1>2
  <2>6. undo \subseteq Shards /\ losses \subseteq Shards \cup Txs /\ registry \subseteq Txs
    BY <1>2
  <2>7. QED
    BY <2>1, <2>2, <2>3, <2>4, <2>5, <2>6 DEF ControlTypes
<1>9. ActorTypes
  <2>1. shard \in [Shards -> ShardRow]
    <3>1. "none" \in Marks
      BY DEF Marks
    <3> HIDE DEF Empty
    <3>2. QED
      BY <1>1, <1>3, <3>1 DEF ShardRow, Empty
  <2>2. row \in [Txs -> TxRow]
    BY <1>1, <1>3 DEF TxRow, TxStatus
  <2>3. hold \in [Shards -> Held] /\ visit \in [Txs -> Visit]
    BY <1>2 DEF Held, Free, Visit, Idle
  <2>4. QED
    BY <1>2, <2>1, <2>2, <2>3, BoundsAreNat DEF ActorTypes
<1>10. StageTrue /\ PartTrue
  BY <1>2, <1>7 DEF StageTrue, PartTrue, StatusOf, PartStatus, Over, Losing, Previewing, Fencing, Restoring, RollingBack
<1>11. MarkTrue
  BY <1>2, <1>4, <1>7 DEF MarkTrue, MarkOK
<1>12. HoldTrue
  BY <1>2, <1>4 DEF HoldTrue, HoldOK, Free
<1> HIDE DEF Empty, found
<1>13. DecidedTrue
  <2>1. Decided = {}
    BY <1>5 DEF Decided
  <2>2. QED
    BY <1>2, <1>4, <1>6, <1>7, <2>1 DEF DecidedTrue, RewoundOK
<1>14. \A t \in Txs : Missed(t) = {} /\ visit[t].step = "none"
  BY <1>2 DEF Missed, Idle
<1>15. WorkTrue /\ EndedTrue
  BY <1>2, <1>7, <1>14 DEF WorkTrue, EndedTrue
<1>16. DoomTrue
  <2>1. DoomedVisits /\ DoomedRows /\ DoomedPlan
    BY <1>2, <1>5, <1>14 DEF DoomedVisits, DoomedRows, DoomedPlan, Decided
  <2>2. \A s \in Shards : DoomedShard(s)
    BY <1>2, <1>4, <1>6 DEF DoomedShard, Free
  <2>3. QED
    BY <2>1, <2>2 DEF DoomTrue
<1>17. KeptTrue /\ ReplayTrue
  BY <1>2, <1>7 DEF KeptTrue, KeptOK, Kept, ReplayTrue, Losing, Restoring, RollingBack
<1>18. QED
  BY <1>8, <1>9, <1>10, <1>11, <1>12, <1>13, <1>15, <1>16, <1>17 DEF RestoreInv

\* Every step of the fleet keeps it, whichever request, tick or fault it is.
THEOREM RestoreInvariance == Spec => []RestoreInv
<1>1. ASSUME RestoreInv, [Next]_vars PROVE RestoreInv'
  <2>1. ControlTypes' /\ ActorTypes' /\ StageTrue' /\ PartTrue'
    BY <1>1, TypesStep, StageStep, PartStep DEF RestoreInv
  <2>2. MarkTrue' /\ HoldTrue' /\ DecidedTrue' /\ WorkTrue' /\ EndedTrue'
    BY <1>1, MarkStep, HoldStep, DecidedStep, WorkStep, EndedStep DEF RestoreInv
  <2>3. DoomTrue' /\ KeptTrue' /\ ReplayTrue'
    BY <1>1, <2>1, DoomStep, KeptStep, ReplayStep DEF RestoreInv
  <2>4. QED
    BY <2>1, <2>2, <2>3 DEF RestoreInv
<1>2. QED
  BY <1>1, InitInv, PTL DEF Spec

\* The gate's phase and the operation's stage (src/restore.ts) agree, and the
\* tables of the coordinator and of the shards keep their shapes.
THEOREM RestoreTypes == Spec => []RestoreTypeOK
<1>1. ASSUME RestoreInv PROVE RestoreTypeOK
  <2>1. /\ op \in OpRow /\ op.replayed \subseteq op.plan /\ undo \subseteq Shards /\ losses \subseteq Shards \cup Txs
        /\ registry \subseteq Txs /\ work \in [Txs -> WorkStatus] /\ faults \in 0 .. MaxFaults /\ restores \in 0 .. MaxRestores
        /\ (gate = "open") <=> (op.stage \in Over \cup Previewing \cup {"previewed"})
    BY <1>1 DEF RestoreInv, ControlTypes, ActorTypes, ReplayTrue, StageTrue, Closed
  <2>2. \A s \in Shards : /\ {shard[s].db, shard[s].last, shard[s].target, shard[s].head} \subseteq Databases
                          /\ shard[s].mark \in Marks /\ shard[s].armed \in {"none", "target", "undo"}
    BY <1>1 DEF RestoreInv, ActorTypes, ShardRow
  <2>3. \A t \in Txs : row[t].state \in {"none", "open"} \cup TxStatus /\ row[t].discard \in Nat
    BY <1>1 DEF RestoreInv, ActorTypes, TxRow
  <2>4. QED
    BY <2>1, <2>2, <2>3 DEF RestoreTypeOK, OpRow, Stages, WorkStatus
<1>2. QED
  BY <1>1, RestoreInvariance, PTL

\* A fleet whose gate is open (completeRestore, failBeforeRestore and the end
\* of a rollback in src/restore.ts) is whole: nothing is armed, nothing is
\* fenced, and an acknowledged write is there or was reported.
THEOREM FleetStaysWhole == Spec => []FleetOpensWhole
<1>1. ASSUME RestoreInv PROVE FleetOpensWhole
  <2>1. SUFFICES ASSUME ~Closed, ~stray, NEW s \in Shards
        PROVE  /\ shard[s].armed = "none" /\ shard[s].mark = "none"
               /\ s \in acked => shard[s].db.w \/ (ended # <<>> /\ s \in losses)
    BY DEF FleetOpensWhole, Closed
  <2>2. MarkOK(s) /\ KeptOK(s) /\ shard[s] \in ShardRow
    BY <1>1, <2>1 DEF RestoreInv, MarkTrue, KeptTrue, ActorTypes
  <2>3. QED
    BY <2>1, <2>2 DEF MarkOK, KeptOK, Kept, Reported, ShardRow
<1>2. QED
  BY <1>1, RestoreInvariance, PTL

\* The loss report of a restore (restore_loss_entries in src/restore.ts) names
\* every acknowledged write that the restored fleet does not have, and its
\* plan was replayed at every shard.
THEOREM ReportIsComplete == Spec => []LossesAreReported
<1>1. ASSUME RestoreInv PROVE LossesAreReported
  <2>1. SUFFICES ASSUME op.stage = "complete"
        PROVE  /\ ~stray => \A s \in acked : shard[s].db.w \/ s \in losses
               /\ \A t \in op.plan, s \in Shards : shard[s].db.tx[t] = "committed"
    BY DEF LossesAreReported
  <2>2. ~Closed /\ At = "complete"
    BY <1>1, <2>1 DEF RestoreInv, StageTrue, Over, At
  <2>3. ASSUME ~stray, NEW s \in acked PROVE shard[s].db.w \/ s \in losses
    <3>1. s \in Shards /\ KeptOK(s)
      BY <1>1, <2>3 DEF RestoreInv, KeptTrue, ActorTypes
    <3>2. QED
      BY <2>2, <2>3, <3>1 DEF KeptOK, Kept, Reported
  <2>4. \A t \in op.plan, s \in Shards : shard[s].db.tx[t] = "committed"
    BY <1>1, <2>1, <2>2 DEF RestoreInv, ReplayTrue
  <2>5. QED
    BY <2>3, <2>4
<1>2. QED
  BY <1>1, RestoreInvariance, PTL

\* Restores keep transactions atomic (discardCoordinator and reconciliation in
\* src/restore.ts): with the gate open, one that is committed at a shard was
\* decided, was not discarded, and is aborted at no other.
THEOREM RestoresAreAtomic == Spec => []AtomicAcrossRestores
<1>1. ASSUME RestoreInv PROVE AtomicAcrossRestores
  <2>1. SUFFICES ASSUME ~stray, NEW t \in Txs, NEW a \in Shards, shard[a].db.tx[t] = "committed"
        PROVE  /\ row[t].state = "committed" /\ row[t].discard = 0
               /\ \A b \in Shards : shard[b].db.tx[t] # "aborted"
    BY DEF AtomicAcrossRestores
  <2>2. DoomTrue /\ RewoundOK(a)
    BY <1>1 DEF RestoreInv, DecidedTrue
  <2>3. t \in Committed(shard[a].db)
    BY <2>1 DEF Committed
  <2>4. t \in Decided /\ ~Doomed(t)
    BY <2>1, <2>2, <2>3 DEF DoomTrue, DoomedShard, RewoundOK
  <2>5. \A b \in Shards : t \notin Aborted(shard[b].db)
    BY <2>1, <2>2, <2>4 DEF DoomTrue, DoomedShard
  <2>6. QED
    BY <2>4, <2>5 DEF Decided, Doomed, Aborted
<1>2. QED
  BY <1>1, RestoreInvariance, PTL

\* What a restore rewound stays rewound (handleRegisterCoordinator in
\* src/restore.ts, /restore-discard in src/coordinator.ts): no shard commits
\* it again, whenever its coordinator wakes.
THEOREM RewoundForEver == Spec => []RewoundStaysRewound
<1>1. ASSUME RestoreInv PROVE RewoundStaysRewound
  <2>1. SUFFICES ASSUME ~stray, NEW i \in DOMAIN ended, NEW t \in ended[i].existed \ ended[i].decided, NEW s \in Shards,
                        shard[s].db.tx[t] = "committed"
        PROVE  FALSE
    BY DEF RewoundStaysRewound
  <2>2. ended[i] \in EndedRow /\ EndedOK(i) /\ RewoundOK(s) /\ DoomTrue
    BY <1>1 DEF RestoreInv, ControlTypes, EndedTrue, DecidedTrue
  <2>3. t \in Txs
    BY <2>2 DEF EndedRow
  <2>4. t \in Committed(shard[s].db)
    BY <2>1, <2>3 DEF Committed
  <2>5. row[t].state = "committed" /\ ~Doomed(t)
    BY <2>1, <2>2, <2>4 DEF DoomTrue, DoomedShard, RewoundOK, Decided
  <2>6. ended[i].work[t] = "retained"
    BY <2>2, <2>3, <2>5 DEF Doomed, Missed, EndedOK
  <2>7. QED
    BY <2>1, <2>2, <2>3, <2>5, <2>6 DEF EndedOK
<1>2. QED
  BY <1>1, RestoreInvariance, PTL

=============================================================================
