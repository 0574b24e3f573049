-------------------------- MODULE CrossShardTxProofs --------------------------
(***************************************************************************)
(* Proofs about CrossShardTx, for any sets of shards and fibers: its type  *)
(* correctness, that one terminal is authorized at most, that the          *)
(* participants agree on the outcome, that the coordinator's records are   *)
(* true and its steps legal, and that it implements AtomicCommit.          *)
(*                                                                         *)
(* The argument follows the evidence.  The terminal requests finReq and    *)
(* canReq are stored by one compare-and-set each, from states that have    *)
(* neither, so at most one is stored.  Everything that can tell a shard to *)
(* commit (a row state, a snapshot of it, a message, an answer, a sweep)   *)
(* requires a FINALIZED manifest row, which requires finReq; everything    *)
(* that can tell it to abort requires AbortSide, which excludes finReq.    *)
(***************************************************************************)
EXTENDS CrossShardTxProps, TLAPS

-----------------------------------------------------------------------------
(* A participant on its own, for any order of requests: the participants of   *)
(* the composed system take only steps of ParticipantNext.                  *)

\* A sweep that has its answer holds the barrier over prepared intents, so it
\* never applies or discards what a /commit or /abort already settled.
SweepHoldsIntents ==
  \A s \in Shards : sweep[s] # "idle" => intents[s] = "prepared"

ParticipantInv ==
  /\ ParticipantTypeOK
  /\ AppliedAtMostOnce
  /\ LocksFollowIntents
  /\ SweepHoldsIntents

\* Every step of a participant keeps the inductive invariant.
LEMMA ParticipantStep == ParticipantInv /\ ParticipantNext => ParticipantInv'
<1> SUFFICES ASSUME ParticipantInv, ParticipantNext PROVE ParticipantInv'
  OBVIOUS
<1> USE DEF ParticipantInv, ParticipantTypeOK, AppliedAtMostOnce,
            LocksFollowIntents, SweepHoldsIntents
<1> PICK s \in Shards :
      \/ HandlePrepare(s) \/ HandleCommit(s) \/ HandleCommitApplyThrows(s)
      \/ HandleAbort(s)
      \/ \E answer \in {"committed", "aborted"} : SweepAsk(s, answer)
      \/ SweepCommit(s) \/ SweepAbort(s) \/ SweepFails(s)
  BY DEF ParticipantNext
<1>1. CASE HandlePrepare(s)
  BY <1>1 DEF HandlePrepare, BarrierFree
<1>2. CASE HandleCommit(s)
  <2>1. CASE UNCHANGED participantVars
    BY <2>1 DEF participantVars
  <2>2. CASE /\ intents[s] = "committed"
             /\ PersistTombstone(s, "commit")
             /\ UNCHANGED <<intents, locked, applied, sweep>>
    BY <2>2 DEF PersistTombstone
  <2>3. CASE /\ BarrierFree(s)
             /\ intents[s] = "prepared"
             /\ PersistTombstone(s, "commit")
             /\ ApplyCommittedIntents(s)
             /\ UNCHANGED sweep
    BY <2>3 DEF PersistTombstone, ApplyCommittedIntents, BarrierFree
  <2> QED
    BY <1>2, <2>1, <2>2, <2>3 DEF HandleCommit
<1>3. CASE HandleCommitApplyThrows(s)
  BY <1>3 DEF HandleCommitApplyThrows, MayDecide, PersistTombstone
<1>4. CASE HandleAbort(s)
  BY <1>4 DEF HandleAbort, BarrierFree, MayDecide, PersistTombstone,
              DiscardIntents
<1>5. ASSUME NEW answer \in {"committed", "aborted"}, SweepAsk(s, answer)
      PROVE  ParticipantInv'
  BY <1>5 DEF SweepAsk
<1>6. CASE SweepCommit(s)
  BY <1>6 DEF SweepCommit, PersistTombstone, ApplyCommittedIntents
<1>7. CASE SweepAbort(s)
  BY <1>7 DEF SweepAbort, PersistTombstone, DiscardIntents
<1>8. CASE SweepFails(s)
  BY <1>8 DEF SweepFails, MayDecide, PersistTombstone
<1> QED
  BY <1>1, <1>2, <1>3, <1>4, <1>5, <1>6, <1>7, <1>8

\* A shard that has not heard of the transaction satisfies the invariant.
LEMMA ParticipantInitially == ParticipantInit => ParticipantInv
BY DEF ParticipantInit, ParticipantInv, ParticipantTypeOK, AppliedAtMostOnce,
       LocksFollowIntents, SweepHoldsIntents

\* A participant is well-typed, applies a transaction at most once and keeps
\* its locks exactly as long as its prepared intents, whatever it receives.
THEOREM ParticipantSafe == ParticipantSpec => []ParticipantInv
<1>1. ParticipantInv /\ UNCHANGED participantVars => ParticipantInv'
  BY DEF ParticipantInv, ParticipantTypeOK, AppliedAtMostOnce,
         LocksFollowIntents, SweepHoldsIntents, participantVars
<1> QED
  BY <1>1, ParticipantInitially, ParticipantStep, PTL DEF ParticipantSpec

\* /commit replays, the sweep and a failed first apply end in one application.
THEOREM AppliesOnce == ParticipantSpec => []AppliedAtMostOnce
<1>1. ParticipantInv => AppliedAtMostOnce
  BY DEF ParticipantInv
<1> QED
  BY <1>1, ParticipantSafe, PTL

\* Row locks and prepared intents come and go together, in every order of
\* /prepare, /commit, /abort and sweeps.
THEOREM LocksAreAccounted == ParticipantSpec => []LocksFollowIntents
<1>1. ParticipantInv => LocksFollowIntents
  BY DEF ParticipantInv
<1> QED
  BY <1>1, ParticipantSafe, PTL

\* No step replaces a durable decision tombstone.
LEMMA TombstoneStep ==
  ASSUME ParticipantTypeOK, ParticipantNext, NEW p \in Shards,
         tombstone[p] # "none"
  PROVE  tombstone'[p] = tombstone[p]
BY DEF ParticipantTypeOK, ParticipantNext, HandlePrepare, HandleCommit,
       HandleCommitApplyThrows, HandleAbort, SweepAsk, SweepCommit, SweepAbort,
       SweepFails, MayDecide, PersistTombstone, participantVars

\* persistTombstone never replaces a decision, whoever calls it.
THEOREM DecisionsAreFinal == ParticipantSpec => TombstoneIsFinal
<1>1. ParticipantInv /\ [ParticipantNext]_participantVars
        => [\A s \in Shards : tombstone[s] # "none"
              => tombstone'[s] = tombstone[s]]_participantVars
  BY TombstoneStep DEF ParticipantInv
<1> QED
  BY <1>1, ParticipantSafe, PTL DEF ParticipantSpec, TombstoneIsFinal

-----------------------------------------------------------------------------
(* The composed system.                                                    *)

AbortWork == {"abort_decided", "aborting"} \cup CancelPending

\* What participants may take as authority to abort: the cancel request, or
\* an abort without one (the reservation was refused).
AbortSide == canReq \/ (st = "aborted" /\ ~finReq)

\* A row state, or a snapshot of one, tells which terminal was authorized.
RowOK(row) ==
  /\ row \in CommitDecidedOrLater => finReq
  /\ row \in CommitAuthorized => mrow = "FINALIZED"
  /\ row \in AbortWork => canReq

\* The durable row and the manifest row agree with the stored requests.
RowsAgree ==
  /\ RowOK(st)
  /\ st \in {"new", "manifest_reserving", "preparing", "prepared"}
       => ~finReq /\ ~canReq
  /\ st = "aborted" => ~finReq
  /\ ~(finReq /\ canReq)
  /\ mrow = "FINALIZED" => finReq
  /\ mrow = "CANCELLED" => canReq

\* Whatever a message asks was authorized when it was sent.
MessagesOK ==
  /\ {"abort", "cancel"} \cap msgs # {} => canReq
  /\ "finalize" \in msgs => finReq
  /\ "commit" \in msgs => mrow = "FINALIZED"
  /\ \A request \in resolveReqs :
       IF request.resolution = "FINALIZED" THEN finReq ELSE canReq

\* Prepared intents stay until they are applied, unless an abort is on its
\* way; a fiber that was told of them may count them.
Holds(s) == intents[s] \in {"prepared", "committed"}

\* What a fiber remembers over an await still holds, whatever ran meanwhile.
FiberOK(f) ==
  /\ RowOK(seen[f])
  /\ pc[f] = "finalize"
       => seen[f] \in CommitDecidedOrLater \ CommitAuthorized
  /\ pc[f] = "resolve_finalized" => finReq
  /\ pc[f] = "resolve_cancelled" => canReq
  /\ pc[f] \in {"finalize", "resolve_finalized"} /\ reply[f] = "ok"
       => mrow = "FINALIZED"
  /\ pc[f] = "prepare" => \A s \in acks[f] : Holds(s) \/ AbortSide

FibersOK == \A f \in Fibers : FiberOK(f)

\* Every vote is held from the prepared state on, unless it is aborted.
VotesHeld == st = "prepared" \/ finReq => \A s \in Shards : Holds(s)

\* Participants follow the authorized outcome.
OutcomesFollow ==
  \A s \in Shards :
    /\ tombstone[s] = "commit" \/ sweep[s] = "committed"
         => mrow = "FINALIZED"
    /\ tombstone[s] = "abort" \/ sweep[s] = "aborted" => AbortSide

Inv ==
  /\ TypeOK
  /\ ParticipantInv
  /\ RowsAgree
  /\ MessagesOK
  /\ FibersOK
  /\ VotesHeld
  /\ OutcomesFollow

-----------------------------------------------------------------------------
(* The control operators.  Wherever a fiber waits or returns, what it      *)
(* remembers and what it sent stays justified, if the step only adds       *)
(* evidence (Onward) and the row it goes on with is a true one.            *)

ControlTypeOK ==
  /\ pc \in [Fibers -> Label]
  /\ seen \in [Fibers -> Snapshot]
  /\ acks \in [Fibers -> SUBSET Shards]
  /\ reply \in [Fibers -> ManifestReply]
  /\ excl \subseteq Fibers /\ alarmer \subseteq Fibers
  /\ act \in RecoveryAction
  /\ msgs \subseteq Message
  /\ resolveReqs \subseteq ResolutionRequest

ControlOK == ControlTypeOK /\ MessagesOK /\ FibersOK

Onward ==
  /\ finReq => finReq'
  /\ canReq => canReq'
  /\ AbortSide => AbortSide'

\* RowOK after a step of the coordinator, which leaves the manifest alone.
RowOKNext(row) ==
  /\ row \in Snapshot
  /\ row \in CommitDecidedOrLater => finReq'
  /\ row \in CommitAuthorized => mrow = "FINALIZED"
  /\ row \in AbortWork => canReq'

\* What fiber f waits for, and the messages it sends, are justified.
WaitOKNext(label, row) ==
  /\ label \in Label
  /\ RowOKNext(row)
  /\ label = "finalize" => row \in CommitDecidedOrLater \ CommitAuthorized
  /\ label = "resolve_finalized" => finReq'
  /\ label = "resolve_cancelled" => canReq'

SentOKNext(sent, requests) ==
  /\ sent \subseteq Message
  /\ requests \subseteq ResolutionRequest
  /\ {"abort", "cancel"} \cap sent # {} => canReq'
  /\ "finalize" \in sent => finReq'
  /\ "commit" \in sent => mrow = "FINALIZED"
  /\ \A request \in requests :
       IF request.resolution = "FINALIZED" THEN finReq' ELSE canReq'

\* A fiber that waits with a true row, and sent what is authorized, keeps
\* every fiber's memory and every message justified.
LEMMA AwaitKeeps ==
  ASSUME ControlOK, Onward, NEW f \in Fibers, NEW label, NEW row, NEW sent,
         NEW requests, Await(f, label, row, sent, requests),
         WaitOKNext(label, row), SentOKNext(sent, requests),
         excl' \subseteq Fibers
  PROVE  ControlOK' /\ OthersUnchanged
<1> USE DEF OthersUnchanged, manifestVars, participantVars
<1>1. ControlTypeOK'
  BY DEF ControlOK, ControlTypeOK, Await, WaitOKNext, SentOKNext, RowOKNext,
         ManifestReply
<1>2. MessagesOK'
  BY DEF ControlOK, MessagesOK, Onward, Await, SentOKNext
<1>3. ASSUME NEW g \in Fibers PROVE FiberOK(g)'
  <2>1. CASE g = f
    BY <2>1 DEF ControlOK, ControlTypeOK, Await, WaitOKNext, FiberOK, RowOK,
                RowOKNext
  <2>2. CASE g # f
    <3>1. /\ pc'[g] = pc[g] /\ seen'[g] = seen[g]
          /\ acks'[g] = acks[g] /\ reply'[g] = reply[g]
          /\ mrow' = mrow /\ intents' = intents
      BY <2>2 DEF ControlOK, ControlTypeOK, Await
    <3>2. FiberOK(g)
      BY DEF ControlOK, FibersOK
    <3> QED
      BY <3>1, <3>2 DEF FiberOK, RowOK, Holds, Onward
  <2> QED
    BY <2>1, <2>2
<1>4. OthersUnchanged
  BY DEF Await
<1> QED
  BY <1>1, <1>2, <1>3, <1>4 DEF ControlOK, FibersOK

\* Returning, with the fibers that joined, forgets and keeps the rest.
LEMMA ReturnKeeps ==
  ASSUME ControlOK, Onward, NEW f \in Fibers, Return(f)
  PROVE  ControlOK' /\ OthersUnchanged
<1> USE DEF OthersUnchanged, manifestVars, participantVars, networkVars
<1>1. ControlTypeOK'
  BY DEF ControlOK, ControlTypeOK, Return, ManifestReply, Label, Snapshot,
         TxState, RecoveryAction
<1>2. MessagesOK'
  BY DEF ControlOK, MessagesOK, Onward, Return
<1>3. ASSUME NEW g \in Fibers PROVE FiberOK(g)'
  <2>1. CASE g \in Finishing(f)
    <3>1. /\ pc'[g] = "idle" /\ seen'[g] = "new"
          /\ acks'[g] = {} /\ reply'[g] = "none"
      BY <2>1 DEF Return
    <3> QED
      BY <3>1 DEF FiberOK, RowOK, AbortWork, CancelPending,
                  CommitDecidedOrLater, CommitAuthorized
  <2>2. CASE g \notin Finishing(f)
    <3>1. /\ pc'[g] = pc[g] /\ seen'[g] = seen[g]
          /\ acks'[g] = acks[g] /\ reply'[g] = reply[g]
          /\ mrow' = mrow /\ intents' = intents
      BY <2>2 DEF Return
    <3>2. FiberOK(g)
      BY DEF ControlOK, FibersOK
    <3> QED
      BY <3>1, <3>2 DEF FiberOK, RowOK, Holds, Onward
  <2> QED
    BY <2>1, <2>2
<1>4. OthersUnchanged
  BY DEF Return
<1> QED
  BY <1>1, <1>2, <1>3, <1>4 DEF ControlOK, FibersOK

\* "new" claims nothing.
LEMMA NewRowOK == RowOKNext("new")
BY DEF RowOKNext, Snapshot, TxState, AbortWork, CancelPending,
       CommitDecidedOrLater, CommitAuthorized

\* Sending nothing needs no authority.
LEMMA NothingSentOK == SentOKNext({}, {})
BY DEF SentOKNext

\* A fiber goes on at a label that expects no particular row.
LEMMA GotoKeeps ==
  ASSUME ControlOK, Onward, NEW f \in Fibers, NEW label \in Label, NEW row,
         label \notin {"finalize", "resolve_finalized", "resolve_cancelled"},
         Goto(f, label, row), RowOKNext(row)
  PROVE  ControlOK' /\ OthersUnchanged
<1>1. Await(f, label, row, {}, {}) /\ excl' \subseteq Fibers
  BY DEF Goto, ControlOK, ControlTypeOK
<1>2. WaitOKNext(label, row)
  BY DEF WaitOKNext
<1> QED
  BY <1>1, <1>2, NothingSentOK, AwaitKeeps

\* A fiber sends a message that is authorized by now and waits.
LEMMA CallKeeps ==
  ASSUME ControlOK, Onward, NEW f \in Fibers, NEW label \in Label,
         label \notin {"finalize", "resolve_finalized", "resolve_cancelled"},
         NEW message \in Message, Call(f, label, message),
         message \in {"abort", "cancel"} => canReq',
         message = "finalize" => finReq',
         message = "commit" => mrow = "FINALIZED"
  PROVE  ControlOK' /\ OthersUnchanged
<1>1. Await(f, label, "new", {message}, {}) /\ excl' \subseteq Fibers
  BY DEF Call, ControlOK, ControlTypeOK
<1>2. WaitOKNext(label, "new")
  BY NewRowOK DEF WaitOKNext
<1>3. SentOKNext({message}, {})
  BY DEF SentOKNext
<1> QED
  BY <1>1, <1>2, <1>3, AwaitKeeps

\* A fiber takes over the recovery, or joins the one in flight.
LEMMA ExclusivelyKeeps ==
  ASSUME ControlOK, Onward, NEW f \in Fibers,
         NEW label \in {"cancel_gate", "commit_gate"}, NEW row,
         Exclusively(f, label, row), RowOKNext(row)
  PROVE  ControlOK' /\ OthersUnchanged
<1>2. CASE excl = {}
  <2>1. Await(f, label, row, {}, {}) /\ excl' \subseteq Fibers
    BY <1>2 DEF Exclusively
  <2>2. WaitOKNext(label, row)
    BY DEF WaitOKNext, Label
  <2> QED
    BY <2>1, <2>2, NothingSentOK, AwaitKeeps
<1>3. CASE excl # {}
  <2>1. Goto(f, "join", "new")
    BY <1>3 DEF Exclusively
  <2> QED
    BY <2>1, NewRowOK, GotoKeeps DEF Label
<1> QED
  BY <1>2, <1>3

\* A fiber that resumes from a true row sends only what is authorized.
LEMMA ResumeKeeps ==
  ASSUME ControlOK, Onward, NEW f \in Fibers, NEW row, Resume(f, row),
         RowOKNext(row)
  PROVE  ControlOK' /\ OthersUnchanged
<1>1. CASE Call(f, "reserve", "reserve") \/ Call(f, "prepare", "prepare")
  BY <1>1, CallKeeps DEF Label, Message
<1>2. CASE Goto(f, "decide_gate", "new")
  BY <1>2, NewRowOK, GotoKeeps DEF Label
<1>3. CASE /\ row \in CommitDecidedOrLater \ CommitAuthorized
           /\ Await(f, "finalize", row, {"finalize"}, {}) /\ UNCHANGED excl
  <2>1. excl' \subseteq Fibers /\ finReq'
    BY <1>3 DEF ControlOK, ControlTypeOK, RowOKNext
  <2>2. WaitOKNext("finalize", row) /\ SentOKNext({"finalize"}, {})
    BY <1>3, <2>1 DEF WaitOKNext, SentOKNext, Label, Message
  <2> QED
    BY <1>3, <2>1, <2>2, AwaitKeeps
<1>4. CASE Goto(f, "undo_gate", row)
  BY <1>4, GotoKeeps DEF Label
<1>5. CASE Exclusively(f, "cancel_gate", row)
  BY <1>5, ExclusivelyKeeps
<1>6. CASE Exclusively(f, "commit_gate", row)
  BY <1>6, ExclusivelyKeeps
<1>7. CASE Return(f)
  BY <1>7, ReturnKeeps
<1> QED
  BY <1>1, <1>2, <1>3, <1>4, <1>5, <1>6, <1>7 DEF Resume

\* The same inside the recovery the fiber owns.
LEMMA ResumeRecoveryOnceKeeps ==
  ASSUME ControlOK, Onward, NEW f \in Fibers, NEW row,
         ResumeRecoveryOnce(f, row), RowOKNext(row)
  PROVE  ControlOK' /\ OthersUnchanged
<1>1. CASE Goto(f, "cancel_gate", row)
  BY <1>1, GotoKeeps DEF Label
<1>2. CASE Goto(f, "commit_gate", row)
  BY <1>2, GotoKeeps DEF Label
<1>3. CASE Resume(f, row)
  BY <1>3, ResumeKeeps
<1> QED
  BY <1>1, <1>2, <1>3 DEF ResumeRecoveryOnce

-----------------------------------------------------------------------------
(* What a step of the coordinator has to show.                             *)

DurableTypeOK ==
  /\ st \in TxState /\ decision \in Decision
  /\ finReq \in BOOLEAN /\ canReq \in BOOLEAN /\ parked \in BOOLEAN
  /\ phase \in [Shards -> {"pending", "prepared", "committed"}]

QueueTypeOK ==
  queue \in RecoveryAction /\ armed \in BOOLEAN /\ fresh \in BOOLEAN

\* The participants and the manifest stay as they are, and so does what they
\* rely on.
LEMMA CoordinatorKeeps ==
  ASSUME Inv, Onward, ControlOK' /\ OthersUnchanged, DurableTypeOK',
         QueueTypeOK', RowsAgree', VotesHeld'
  PROVE  Inv'
<1> USE DEF OthersUnchanged, participantVars, manifestVars
<1>1. TypeOK'
  BY DEF Inv, TypeOK, ControlOK, ControlTypeOK, DurableTypeOK, QueueTypeOK,
         ParticipantTypeOK, ManifestTypeOK
<1>2. ParticipantInv'
  BY DEF Inv, ParticipantInv, ParticipantTypeOK, AppliedAtMostOnce,
         LocksFollowIntents, SweepHoldsIntents
<1>3. OutcomesFollow'
  BY DEF Inv, OutcomesFollow, Onward
<1> QED
  BY <1>1, <1>2, <1>3 DEF Inv, ControlOK

\* A step that leaves the decision alone keeps all that depends on it.
LEMMA SameDecision ==
  ASSUME Inv, UNCHANGED decisionVars
  PROVE  Onward /\ DurableTypeOK'
BY DEF Inv, TypeOK, Onward, AbortSide, DurableTypeOK, decisionVars

\* Such a step keeps the invariant if the fibers stay justified.
LEMMA UndecidedKeeps ==
  ASSUME Inv, UNCHANGED decisionVars, ControlOK' /\ OthersUnchanged,
         QueueTypeOK'
  PROVE  Inv'
<1> USE DEF OthersUnchanged, participantVars, manifestVars, decisionVars
<1>1. RowsAgree'
  BY DEF Inv, RowsAgree, RowOK
<1>2. VotesHeld'
  BY DEF Inv, VotesHeld, Holds
<1> QED
  BY <1>1, <1>2, SameDecision, CoordinatorKeeps

\* The row and what the fibers remember of it are true rows to resume from.
LEMMA TrueRows ==
  ASSUME Inv, Onward
  PROVE  /\ RowOKNext(Row) /\ RowOKNext(st)
         /\ \A f \in Fibers : RowOKNext(seen[f])
BY DEF Inv, TypeOK, RowsAgree, RowOK, FibersOK, FiberOK, Onward, RowOKNext,
       Row, Snapshot, AbortWork, CancelPending, CommitDecidedOrLater,
       CommitAuthorized

\* The parts of the invariant that the control lemmas start from.
LEMMA InvParts ==
  ASSUME Inv PROVE ControlOK /\ DurableTypeOK /\ QueueTypeOK
BY DEF Inv, TypeOK, ControlOK, ControlTypeOK, DurableTypeOK, QueueTypeOK

-----------------------------------------------------------------------------
(* The steps of a fiber that leave the decision alone.                     *)

\* An error keeps the invariant wherever it is thrown.
LEMMA ThrowKeeps ==
  ASSUME Inv, NEW f \in Fibers, Throw(f)
  PROVE  Inv'
<1>1. ControlOK' /\ OthersUnchanged
  BY InvParts, SameDecision, ReturnKeeps DEF Throw
<1>2. QueueTypeOK'
  BY InvParts DEF Throw, Reschedule, Queue, KeepQueue, QueueTypeOK,
     ControlOK, ControlTypeOK
<1> QED
  BY <1>1, <1>2, UndecidedKeeps DEF Throw

\* Starting a request, an alarm or a forced abort decides nothing.
LEMMA StartKeeps ==
  ASSUME Inv, NEW f \in Fibers
  PROVE  /\ Begin(f) => Inv'
         /\ BeginExisting(f) => Inv'
         /\ AlarmFire(f) => Inv'
         /\ AlarmWork(f) => Inv'
         /\ AlarmDeferred(f) => Inv'
         /\ ForceAbort(f) => Inv'
<1> USE InvParts, SameDecision, TrueRows, UndecidedKeeps
    DEF QueueTypeOK, recoveryVars
<1>1. ASSUME Begin(f) PROVE Inv'
  <2>1. ControlOK' /\ OthersUnchanged
    BY <1>1, GotoKeeps DEF Begin, Label
  <2> QED
    BY <1>1, <2>1 DEF Begin
<1>2. ASSUME BeginExisting(f) PROVE Inv'
  <2>1. ControlOK' /\ OthersUnchanged
    BY <1>2, ResumeKeeps DEF BeginExisting
  <2> QED
    BY <1>2, <2>1 DEF BeginExisting
<1>3. ASSUME AlarmFire(f) PROVE Inv'
  <2>1. OthersUnchanged /\ UNCHANGED decisionVars /\ QueueTypeOK'
    BY <1>3 DEF AlarmFire, fiberVars
  <2>2. ControlTypeOK' /\ MessagesOK'
    BY <1>3, <2>1 DEF AlarmFire, fiberVars, networkVars, ControlOK,
       ControlTypeOK, MessagesOK, OthersUnchanged, manifestVars,
       decisionVars, RowOKNext, Label
  <2>3. FibersOK'
    BY <1>3, <2>1 DEF AlarmFire, fiberVars, ControlOK, ControlTypeOK,
       FibersOK, FiberOK, RowOK, RowOKNext, Holds, AbortSide,
       OthersUnchanged, manifestVars, participantVars, decisionVars
  <2> QED
    BY <2>1, <2>2, <2>3 DEF ControlOK
<1>4. ASSUME AlarmWork(f) PROVE Inv'
  <2>1. UNCHANGED decisionVars /\ Onward
    BY <1>4 DEF AlarmWork
  <2>2. CASE Return(f)
    <3>1. ControlOK' /\ OthersUnchanged
      BY <2>1, <2>2, ReturnKeeps
    <3> QED
      BY <1>4, <2>1, <3>1, ThrowKeeps
         DEF AlarmWork, Arm, Throw, Reschedule, Queue, KeepQueue
  <2>3. CASE Resume(f, seen[f]) /\ UNCHANGED armed
    <3>1. ControlOK' /\ OthersUnchanged
      BY <2>1, <2>3, ResumeKeeps
    <3> QED
      BY <1>4, <2>1, <2>3, <3>1 DEF AlarmWork
  <2>4. CASE Call(f, "release", "release") /\ UNCHANGED armed
    <3>1. ControlOK' /\ OthersUnchanged
      BY <2>1, <2>4, CallKeeps DEF Label, Message
    <3> QED
      BY <1>4, <2>1, <2>4, <3>1 DEF AlarmWork
  <2>5. CASE Throw(f)
    BY <2>5, ThrowKeeps
  <2> QED
    BY <1>4, <2>2, <2>3, <2>4, <2>5 DEF AlarmWork
<1>5. ASSUME AlarmDeferred(f) PROVE Inv'
  <2>1. ControlOK' /\ OthersUnchanged
    BY <1>5, ReturnKeeps DEF AlarmDeferred
  <2> QED
    BY <1>5, <2>1 DEF AlarmDeferred, Arm
<1>6. ASSUME ForceAbort(f) PROVE Inv'
  <2>1. ControlOK' /\ OthersUnchanged
    BY <1>6, NewRowOK, GotoKeeps, ResumeKeeps DEF ForceAbort, Label
  <2> QED
    BY <1>6, <2>1 DEF ForceAbort
<1> QED
  BY <1>1, <1>2, <1>3, <1>4, <1>5, <1>6

\* Nor do the steps that arm the alarm, give up, or find the row moved on.
LEMMA DriftKeeps ==
  ASSUME Inv, NEW f \in Fibers
  PROVE  /\ ReservedLate(f) => Inv'
         /\ PrepareFails(f) => Inv'
         /\ DecideArm(f) => Inv'
         /\ DecideLate(f) => Inv'
         /\ FinalizedLate(f) => Inv'
         /\ Released(f) => Inv'
         /\ AbortArm(f) => Inv'
         /\ DecideAbortLate(f) => Inv'
         /\ AbortUnacknowledged(f) => Inv'
         /\ SendReserveAgain(f) => Inv'
         /\ CancelLate(f) => Inv'
         /\ ResolveFails(f) => Inv'
<1> USE InvParts, SameDecision, TrueRows, NewRowOK, UndecidedKeeps
    DEF QueueTypeOK, recoveryVars
<1>1. ASSUME ReservedLate(f) PROVE Inv'
  <2>1. ControlOK' /\ OthersUnchanged
    BY <1>1, ResumeKeeps DEF ReservedLate
  <2> QED
    BY <1>1, <2>1 DEF ReservedLate
<1>2. ASSUME PrepareFails(f) PROVE Inv'
  <2>1. ControlOK' /\ OthersUnchanged
    BY <1>2, ResumeKeeps, GotoKeeps DEF PrepareFails, Label
  <2> QED
    BY <1>2, <2>1 DEF PrepareFails
<1>3. ASSUME DecideArm(f) PROVE Inv'
  <2>1. ControlOK' /\ OthersUnchanged
    BY <1>3, GotoKeeps DEF DecideArm, Label
  <2> QED
    BY <1>3, <2>1 DEF DecideArm, Arm, KeepQueue
<1>4. ASSUME DecideLate(f) PROVE Inv'
  <2>1. CASE Throw(f)
    BY <2>1, ThrowKeeps
  <2>2. CASE Resume(f, Row) /\ UNCHANGED <<decisionVars, recoveryVars>>
    <3>1. ControlOK' /\ OthersUnchanged
      BY <2>2, ResumeKeeps
    <3> QED
      BY <2>2, <3>1
  <2> QED
    BY <1>4, <2>1, <2>2 DEF DecideLate
<1>5. ASSUME FinalizedLate(f) PROVE Inv'
  <2>1. ControlOK' /\ OthersUnchanged
    BY <1>5, ResumeKeeps DEF FinalizedLate
  <2> QED
    BY <1>5, <2>1 DEF FinalizedLate
<1>6. ASSUME Released(f) PROVE Inv'
  <2>1. ControlOK' /\ OthersUnchanged
    BY <1>6, ReturnKeeps DEF Released
  <2> QED
    BY <1>6, <2>1 DEF Released, Queue, Reschedule, RecoveryAction
<1>7. ASSUME AbortArm(f) PROVE Inv'
  <2>1. ControlOK' /\ OthersUnchanged
    BY <1>7, GotoKeeps DEF AbortArm, Label
  <2> QED
    BY <1>7, <2>1 DEF AbortArm, Arm, KeepQueue
<1>8. ASSUME DecideAbortLate(f) PROVE Inv'
  <2>1. CASE Throw(f)
    BY <2>1, ThrowKeeps
  <2>2. CASE /\ Goto(f, "undo_gate", Row)
             /\ UNCHANGED <<decisionVars, recoveryVars>>
    <3>1. ControlOK' /\ OthersUnchanged
      BY <2>2, GotoKeeps DEF Label
    <3> QED
      BY <2>2, <3>1
  <2> QED
    BY <1>8, <2>1, <2>2 DEF DecideAbortLate
<1>9. ASSUME AbortUnacknowledged(f) PROVE Inv'
  <2>1. ControlOK' /\ OthersUnchanged
    BY <1>9, ReturnKeeps DEF AbortUnacknowledged
  <2> QED
    BY <1>9, <2>1 DEF AbortUnacknowledged, Queue, Reschedule, RecoveryAction
<1>10. ASSUME SendReserveAgain(f) PROVE Inv'
  <2>1. ControlOK' /\ OthersUnchanged
    BY <1>10, ReturnKeeps, CallKeeps DEF SendReserveAgain, Label, Message
  <2> QED
    BY <1>10, <2>1 DEF SendReserveAgain
<1>11. ASSUME CancelLate(f) PROVE Inv'
  <2>1. ControlOK' /\ OthersUnchanged
    BY <1>11, ResumeRecoveryOnceKeeps DEF CancelLate
  <2> QED
    BY <1>11, <2>1 DEF CancelLate
<1>12. ASSUME ResolveFails(f) PROVE Inv'
  <2>1. ControlOK' /\ OthersUnchanged
    BY <1>12, ReturnKeeps DEF ResolveFails
  <2> QED
    BY <1>12, <2>1 DEF ResolveFails
<1> QED
  BY <1>1, <1>2, <1>3, <1>4, <1>5, <1>6, <1>7, <1>8, <1>9, <1>10, <1>11,
     <1>12

\* An operator's resolution is sent only for the stored request.
LEMMA ResolveSent ==
  ASSUME Inv, NEW f \in Fibers, NEW resolution \in {"FINALIZED", "CANCELLED"},
         NEW selected \in {"intent", "record"}, Resolve(f, resolution, selected)
  PROVE  Inv'
<1> DEFINE request == [resolution |-> resolution, selected |-> selected,
                        attested |-> st]
<1>1. Onward /\ RowOKNext(st)
  BY SameDecision, TrueRows DEF Resolve
<1>2. WaitOKNext(ResolveLabel(resolution), st)
  BY <1>1 DEF WaitOKNext, Resolve, ResolveLabel, Label, decisionVars
<1>3. SentOKNext({}, {request})
  BY DEF SentOKNext, Resolve, ResolutionRequest, Inv, TypeOK, decisionVars
<1>4. ControlOK' /\ OthersUnchanged
  BY <1>1, <1>2, <1>3, InvParts, AwaitKeeps
     DEF Resolve, ControlOK, ControlTypeOK
<1> QED
  BY <1>4, InvParts, UndecidedKeeps DEF Resolve, recoveryVars, QueueTypeOK

-----------------------------------------------------------------------------
(* The steps of a fiber that write the row.                                *)

\* Before a decision the row moves without evidence.
LEMMA AdmitKeeps ==
  ASSUME Inv, NEW f \in Fibers, Admit(f)
  PROVE  Inv'
<1> USE InvParts
<1>1. CASE st = "new"
  <2>1. Onward /\ RowOKNext("manifest_reserving")
    BY <1>1 DEF Admit, Onward, AbortSide, RowOKNext, Snapshot, TxState,
       AbortWork, CancelPending, CommitDecidedOrLater, CommitAuthorized
  <2>2. ControlOK' /\ OthersUnchanged
    BY <1>1, <2>1, ResumeKeeps DEF Admit
  <2>3. DurableTypeOK' /\ QueueTypeOK'
    BY <1>1 DEF Admit, DurableTypeOK, QueueTypeOK, Queue, Arm, TxState,
       RecoveryAction
  <2>4. RowsAgree'
    BY <1>1, <2>2 DEF Admit, Inv, RowsAgree, RowOK, OthersUnchanged,
       manifestVars, AbortWork, CancelPending, CommitDecidedOrLater,
       CommitAuthorized
  <2>5. VotesHeld'
    BY <1>1, <2>2 DEF Admit, Inv, VotesHeld, RowsAgree
  <2> QED
    BY <2>1, <2>2, <2>3, <2>4, <2>5, CoordinatorKeeps
<1>2. CASE st # "new"
  <2>1. ControlOK' /\ OthersUnchanged
    BY <1>2, SameDecision, TrueRows, ResumeKeeps DEF Admit
  <2> QED
    BY <1>2, <2>1, UndecidedKeeps DEF Admit, Arm, KeepQueue, QueueTypeOK
<1> QED
  BY <1>1, <1>2

Undecided == {"new", "manifest_reserving", "preparing", "prepared"}

\* A step that moves the row where its stored requests already allow it.
LEMMA MoveKeeps ==
  ASSUME Inv, UNCHANGED <<finReq, canReq>>, st' \notin Undecided,
         ControlOK' /\ OthersUnchanged, DurableTypeOK', QueueTypeOK',
         st' \in CommitDecidedOrLater => finReq,
         st' \in CommitAuthorized => mrow = "FINALIZED",
         st' \in AbortWork => canReq,
         st' = "aborted" => ~finReq,
         Onward
  PROVE  Inv'
<1> USE DEF OthersUnchanged, participantVars, manifestVars
<1>1. RowsAgree'
  BY DEF Inv, RowsAgree, RowOK, Undecided
<1>2. VotesHeld'
  BY DEF Inv, VotesHeld, Holds, Undecided
<1> QED
  BY <1>1, <1>2, CoordinatorKeeps

\* No move leaves the terminal abort, so the evidence stays.
LEMMA MoveOnward ==
  ASSUME Inv, UNCHANGED <<finReq, canReq>>, st # "aborted" \/ UNCHANGED st
  PROVE  Onward
BY DEF Inv, TypeOK, Onward, AbortSide

\* Prepare is sent once the reservation stands; a refusal aborts before any
\* participant was asked to commit.
LEMMA ReservedKeeps ==
  ASSUME Inv, NEW f \in Fibers, Reserved(f)
  PROVE  Inv'
<1> USE InvParts
<1>1. ~finReq /\ ~canReq /\ st = "manifest_reserving"
  BY DEF Reserved, Inv, RowsAgree
<1>2. Onward /\ UNCHANGED <<finReq, canReq>>
  BY <1>1, MoveOnward DEF Reserved
<1>3. DurableTypeOK' /\ QueueTypeOK'
  BY DEF Reserved, DurableTypeOK, QueueTypeOK, Queue, KeepQueue, Reschedule,
     TxState, Decision, RecoveryAction
<1>4. RowOKNext("preparing")
  BY DEF RowOKNext, Snapshot, TxState, AbortWork, CancelPending,
     CommitDecidedOrLater, CommitAuthorized
<1>5. ControlOK' /\ OthersUnchanged
  BY <1>2, <1>4, NewRowOK, ReturnKeeps, ResumeKeeps, GotoKeeps
     DEF Reserved, Label
<1>6. st' \in {"manifest_reserving", "preparing", "aborted"}
  BY <1>1 DEF Reserved
<1>7. RowsAgree' /\ VotesHeld'
  BY <1>1, <1>2, <1>5, <1>6 DEF Inv, RowsAgree, VotesHeld, RowOK,
     OthersUnchanged, manifestVars, AbortWork, CancelPending,
     CommitDecidedOrLater, CommitAuthorized
<1> QED
  BY <1>2, <1>3, <1>5, <1>7, CoordinatorKeeps

\* The votes that were counted are still held when the row says prepared.
LEMMA PrepareSucceedsKeeps ==
  ASSUME Inv, NEW f \in Fibers, PrepareSucceeds(f)
  PROVE  Inv'
<1> USE InvParts
<1>1. CASE st = "preparing"
  <2>1. ~finReq /\ ~canReq /\ UNCHANGED <<finReq, canReq>>
    BY <1>1 DEF PrepareSucceeds, Inv, RowsAgree
  <2>2. Onward
    BY <1>1, <2>1, MoveOnward
  <2>3. RowOKNext("prepared")
    BY DEF RowOKNext, Snapshot, TxState, AbortWork, CancelPending,
       CommitDecidedOrLater, CommitAuthorized
  <2>4. ControlOK' /\ OthersUnchanged
    BY <1>1, <2>2, <2>3, ResumeKeeps DEF PrepareSucceeds
  <2>5. DurableTypeOK' /\ QueueTypeOK'
    BY <1>1 DEF PrepareSucceeds, DurableTypeOK, QueueTypeOK, recoveryVars,
       TxState
  <2>6. \A s \in Shards : Holds(s)
    BY <1>1, <2>1 DEF PrepareSucceeds, Inv, FibersOK, FiberOK, AbortSide
  <2>7. VotesHeld'
    BY <2>4, <2>6 DEF VotesHeld, Holds, OthersUnchanged, participantVars
  <2>8. RowsAgree'
    BY <1>1, <2>1, <2>4 DEF PrepareSucceeds, Inv, RowsAgree, RowOK,
       OthersUnchanged, manifestVars, AbortWork, CancelPending,
       CommitDecidedOrLater, CommitAuthorized
  <2> QED
    BY <2>2, <2>4, <2>5, <2>7, <2>8, CoordinatorKeeps
<1>2. CASE st # "preparing"
  <2>1. UNCHANGED decisionVars
    BY <1>2 DEF PrepareSucceeds, decisionVars
  <2>2. ControlOK' /\ OthersUnchanged
    BY <1>2, <2>1, SameDecision, TrueRows, ResumeKeeps DEF PrepareSucceeds
  <2> QED
    BY <1>2, <2>1, <2>2, UndecidedKeeps
       DEF PrepareSucceeds, recoveryVars, QueueTypeOK
<1> QED
  BY <1>1, <1>2

\* The commit decision is taken over held votes, and the abort decision where
\* no commit was: neither finds the other's request.
LEMMA DecisionsKeep ==
  ASSUME Inv, NEW f \in Fibers
  PROVE  /\ Decide(f) => Inv'
         /\ DecideAbort(f) => Inv'
<1> USE InvParts
<1>1. ASSUME Decide(f) PROVE Inv'
  <2>1. ~finReq /\ ~canReq /\ Onward
    BY <1>1 DEF Decide, Inv, RowsAgree, Onward, AbortSide
  <2>2. RowOKNext("commit_deciding")
    BY <1>1 DEF Decide, RowOKNext, Snapshot, TxState, AbortWork,
       CancelPending, CommitAuthorized
  <2>3. ControlOK' /\ OthersUnchanged
    BY <1>1, <2>1, <2>2, ResumeKeeps DEF Decide
  <2>4. DurableTypeOK' /\ QueueTypeOK'
    BY <1>1 DEF Decide, DurableTypeOK, QueueTypeOK, Queue, Reschedule,
       TxState, Decision, RecoveryAction
  <2>5. RowsAgree'
    BY <1>1, <2>1, <2>3 DEF Decide, Inv, RowsAgree, RowOK, OthersUnchanged,
       manifestVars, AbortWork, CancelPending, CommitAuthorized
  <2>6. VotesHeld'
    BY <1>1, <2>3 DEF Decide, Inv, VotesHeld, Holds, OthersUnchanged,
       participantVars
  <2> QED
    BY <2>1, <2>3, <2>4, <2>5, <2>6, CoordinatorKeeps
<1>2. ASSUME DecideAbort(f) PROVE Inv'
  <2>1. ~finReq /\ ~canReq /\ Onward
    BY <1>2 DEF DecideAbort, Inv, RowsAgree, Onward, AbortSide
  <2>2. RowOKNext("abort_decided")
    BY <1>2 DEF DecideAbort, RowOKNext, Snapshot, TxState,
       CommitDecidedOrLater, CommitAuthorized
  <2>3. ControlOK' /\ OthersUnchanged
    BY <1>2, <2>1, <2>2, ResumeKeeps DEF DecideAbort
  <2>4. DurableTypeOK' /\ QueueTypeOK'
    BY <1>2 DEF DecideAbort, DurableTypeOK, QueueTypeOK, Queue, TxState,
       Decision, RecoveryAction
  <2>5. RowsAgree' /\ VotesHeld'
    BY <1>2, <2>1, <2>3 DEF DecideAbort, Inv, RowsAgree, RowOK, VotesHeld,
       OthersUnchanged, manifestVars, CommitDecidedOrLater, CommitAuthorized
  <2> QED
    BY <2>1, <2>3, <2>4, <2>5, CoordinatorKeeps
<1> QED
  BY <1>1, <1>2

\* The row is committed forward only behind a FINALIZED manifest row.
LEMMA CommitSideKeeps ==
  ASSUME Inv, NEW f \in Fibers
  PROVE  /\ Finalized(f) => Inv'
         /\ SendCommit(f) => Inv'
         /\ CommitAcknowledged(f) => Inv'
         /\ CommitUnacknowledged(f) => Inv'
<1> USE InvParts
<1>0. /\ RowOK(seen[f]) /\ RowOK(st) /\ FiberOK(f)
      /\ finReq => st # "aborted"
  BY DEF Inv, FibersOK, FiberOK, RowsAgree
<1>1. ASSUME Finalized(f) PROVE Inv'
  <2>1. finReq /\ st \in CommitDecidedOrLater \ CommitAuthorized
    BY <1>0, <1>1 DEF Finalized, FiberOK, RowOK
  <2>2. Onward /\ UNCHANGED <<finReq, canReq>>
    BY <1>0, <1>1, <2>1, MoveOnward DEF Finalized
  <2>3. reply[f] = "ok" => mrow = "FINALIZED"
    BY <1>0, <1>1 DEF Finalized, FiberOK
  <2>4. DurableTypeOK' /\ QueueTypeOK'
    BY <1>1 DEF Finalized, DurableTypeOK, QueueTypeOK, Queue, Reschedule,
       TxState, Decision, RecoveryAction
  <2>5. ControlOK' /\ OthersUnchanged
    <3>1. CASE Return(f)
      BY <2>2, <3>1, ReturnKeeps
    <3>2. CASE /\ reply[f] = "ok"
               /\ Exclusively(f, "commit_gate", "manifest_registered")
      <4>1. RowOKNext("manifest_registered")
        BY <2>1, <2>2, <2>3, <3>2 DEF RowOKNext, Snapshot, TxState,
           AbortWork, CancelPending
      <4> QED
        BY <2>2, <3>2, <4>1, ExclusivelyKeeps
    <3> QED
      BY <1>1, <3>1, <3>2 DEF Finalized
  <2>6. /\ st' \in {"commit_pending_manifest", "quarantined",
                    "manifest_registered"}
        /\ st' = "manifest_registered" => mrow = "FINALIZED"
    BY <1>1, <2>3 DEF Finalized
  <2> QED
    BY <2>1, <2>2, <2>4, <2>5, <2>6, MoveKeeps
       DEF Undecided, CommitAuthorized, AbortWork, CancelPending
<1>2. ASSUME SendCommit(f) PROVE Inv'
  <2>1. UNCHANGED <<finReq, canReq>> /\ QueueTypeOK'
    BY <1>2 DEF SendCommit, recoveryVars, QueueTypeOK
  <2>2. CASE UNCHANGED st
    <3>1. UNCHANGED decisionVars
      BY <1>2, <2>2 DEF SendCommit, decisionVars
    <3>2. Onward /\ (seen[f] \in CommitAuthorized => mrow = "FINALIZED")
      BY <1>0, <3>1, SameDecision DEF RowOK
    <3>3. ControlOK' /\ OthersUnchanged
      <4>1. CASE /\ seen[f] \in {"committing", "committed_pending_ack"}
                 /\ Call(f, "commit", "commit")
        <5>1. mrow = "FINALIZED"
          BY <3>2, <4>1 DEF CommitAuthorized
        <5> QED
          BY <3>2, <4>1, <5>1, CallKeeps DEF Label, Message
      <4>2. CASE Goto(f, "commit_gate", Row)
        BY <3>2, <4>2, TrueRows, GotoKeeps DEF Label
      <4>3. CASE Return(f)
        BY <3>2, <4>3, ReturnKeeps
      <4>4. CASE ResumeRecoveryOnce(f, seen[f])
        BY <3>2, <4>4, TrueRows, ResumeRecoveryOnceKeeps
      <4> QED
        BY <1>2, <2>2, <4>1, <4>2, <4>3, <4>4 DEF SendCommit
    <3> QED
      BY <2>1, <3>1, <3>3, UndecidedKeeps
  <2>3. CASE /\ st = "manifest_registered" /\ st' = "committing"
             /\ Call(f, "commit", "commit")
    <3>1. Onward /\ mrow = "FINALIZED" /\ finReq
      BY <1>0, <2>1, <2>3, MoveOnward
         DEF RowOK, CommitAuthorized, CommitDecidedOrLater
    <3>2. ControlOK' /\ OthersUnchanged
      BY <2>3, <3>1, CallKeeps DEF Label, Message
    <3>3. DurableTypeOK'
      BY <1>2, <2>3 DEF SendCommit, DurableTypeOK, TxState
    <3> QED
      BY <2>1, <2>3, <3>1, <3>2, <3>3, MoveKeeps
         DEF Undecided, AbortWork, CancelPending
  <2> QED
    BY <1>2, <2>2, <2>3 DEF SendCommit
<1>3. ASSUME CommitAcknowledged(f) \/ CommitUnacknowledged(f) PROVE Inv'
  <2>1. UNCHANGED <<finReq, canReq>>
    BY <1>3 DEF CommitAcknowledged, CommitUnacknowledged
  <2>2. CASE st \in {"committing", "committed_pending_ack"}
    <3>1. /\ Onward /\ mrow = "FINALIZED" /\ finReq
          /\ st' \in {"committed", "committed_pending_ack"}
      BY <1>0, <1>3, <2>1, <2>2, MoveOnward
         DEF CommitAcknowledged, CommitUnacknowledged, RowOK,
             CommitAuthorized, CommitDecidedOrLater
    <3>2. ControlOK' /\ OthersUnchanged
      BY <1>3, <2>2, <3>1, ReturnKeeps
         DEF CommitAcknowledged, CommitUnacknowledged
    <3>3. DurableTypeOK' /\ QueueTypeOK'
      BY <1>3, <2>2 DEF CommitAcknowledged, CommitUnacknowledged, Arm, Queue,
         Reschedule, DurableTypeOK, QueueTypeOK, TxState, RecoveryAction
    <3> QED
      BY <2>1, <3>1, <3>2, <3>3, MoveKeeps
         DEF Undecided, AbortWork, CancelPending
  <2>3. CASE st \notin {"committing", "committed_pending_ack"}
    <3>1. UNCHANGED decisionVars /\ QueueTypeOK'
      BY <1>3, <2>3 DEF CommitAcknowledged, CommitUnacknowledged, Arm,
         KeepQueue, decisionVars, recoveryVars, QueueTypeOK
    <3>2. ControlOK' /\ OthersUnchanged
      BY <1>3, <2>3, <3>1, SameDecision, TrueRows, ReturnKeeps,
         ResumeRecoveryOnceKeeps
         DEF CommitAcknowledged, CommitUnacknowledged
    <3> QED
      BY <3>1, <3>2, UndecidedKeeps
  <2> QED
    BY <2>2, <2>3
<1> QED
  BY <1>1, <1>2, <1>3

\* The row is aborted forward only behind the cancel request.
LEMMA AbortSideKeeps ==
  ASSUME Inv, NEW f \in Fibers
  PROVE  /\ SendAbort(f) => Inv'
         /\ AbortAcknowledged(f) => Inv'
         /\ ReservedAgain(f) => Inv'
         /\ Cancelled(f) => Inv'
<1> USE InvParts
<1>0. /\ RowOK(seen[f]) /\ RowOK(st)
      /\ canReq => ~finReq
  BY DEF Inv, FibersOK, FiberOK, RowsAgree
<1>1. ASSUME SendAbort(f) PROVE Inv'
  <2>1. UNCHANGED <<finReq, canReq>> /\ QueueTypeOK'
    BY <1>1 DEF SendAbort, recoveryVars, QueueTypeOK
  <2>2. CASE UNCHANGED st
    <3>1. UNCHANGED decisionVars
      BY <1>1, <2>2 DEF SendAbort, decisionVars
    <3>2. Onward /\ (seen[f] \in AbortWork => canReq')
      BY <1>0, <2>1, <3>1, SameDecision DEF RowOK
    <3>3. ControlOK' /\ OthersUnchanged
      <4>1. CASE seen[f] = "aborting" /\ Call(f, "undo", "abort")
        <5>1. canReq'
          BY <3>2, <4>1 DEF AbortWork
        <5> QED
          BY <3>2, <4>1, <5>1, CallKeeps DEF Label, Message
      <4>2. CASE Resume(f, Row) \/ Resume(f, seen[f])
        BY <3>2, <4>2, TrueRows, ResumeKeeps
      <4> QED
        BY <1>1, <2>2, <4>1, <4>2 DEF SendAbort
    <3> QED
      BY <2>1, <3>1, <3>3, UndecidedKeeps
  <2>3. CASE /\ st = "abort_decided" /\ st' = "aborting"
             /\ Call(f, "undo", "abort")
    <3>1. Onward /\ canReq
      BY <1>0, <2>1, <2>3, MoveOnward DEF RowOK, AbortWork
    <3>2. ControlOK' /\ OthersUnchanged
      BY <2>1, <2>3, <3>1, CallKeeps DEF Label, Message
    <3>3. DurableTypeOK'
      BY <1>1, <2>3 DEF SendAbort, DurableTypeOK, TxState
    <3> QED
      BY <2>1, <2>3, <3>1, <3>2, <3>3, MoveKeeps
         DEF Undecided, CommitDecidedOrLater, CommitAuthorized
  <2> QED
    BY <1>1, <2>2, <2>3 DEF SendAbort
<1>2. ASSUME AbortAcknowledged(f) PROVE Inv'
  <2>1. UNCHANGED <<finReq, canReq>> /\ QueueTypeOK'
    BY <1>2 DEF AbortAcknowledged, Queue, KeepQueue, QueueTypeOK,
       RecoveryAction
  <2>2. CASE st = "aborting"
    <3>1. Onward /\ canReq
      BY <1>0, <2>1, <2>2, MoveOnward DEF RowOK, AbortWork
    <3>2. RowOKNext("aborted_pending_manifest_cancel")
      BY <2>1, <3>1 DEF RowOKNext, Snapshot, TxState, CommitDecidedOrLater,
         CommitAuthorized
    <3>3. ControlOK' /\ OthersUnchanged
      BY <1>2, <2>2, <3>1, <3>2, ExclusivelyKeeps DEF AbortAcknowledged
    <3>4. DurableTypeOK'
      BY <1>2, <2>2 DEF AbortAcknowledged, DurableTypeOK, TxState
    <3>5. st' = "aborted_pending_manifest_cancel"
      BY <1>2, <2>2 DEF AbortAcknowledged
    <3> QED
      BY <2>1, <3>1, <3>3, <3>4, <3>5, MoveKeeps
         DEF Undecided, CommitDecidedOrLater, CommitAuthorized
  <2>3. CASE st # "aborting"
    <3>1. UNCHANGED decisionVars
      BY <1>2, <2>3 DEF AbortAcknowledged, decisionVars
    <3>2. ControlOK' /\ OthersUnchanged
      BY <1>2, <2>3, <3>1, SameDecision, TrueRows, ResumeKeeps
         DEF AbortAcknowledged
    <3> QED
      BY <2>1, <3>1, <3>2, UndecidedKeeps
  <2> QED
    BY <2>2, <2>3
<1>3. ASSUME ReservedAgain(f) \/ Cancelled(f) PROVE Inv'
  <2>1. /\ UNCHANGED <<finReq, canReq>>
        /\ st = "aborted_pending_manifest_cancel" /\ canReq
    BY <1>0, <1>3 DEF ReservedAgain, Cancelled, RowOK, AbortWork,
       CancelPending
  <2>2. Onward
    BY <2>1, MoveOnward
  <2>3. ControlOK' /\ OthersUnchanged
    BY <1>3, <2>1, <2>2, ReturnKeeps, CallKeeps
       DEF ReservedAgain, Cancelled, CancelUnavailable, ParkCancel,
           FinishAbort, Label, Message
  <2>4. DurableTypeOK' /\ QueueTypeOK'
    BY <1>3 DEF ReservedAgain, Cancelled, CancelUnavailable, ParkCancel,
       FinishAbort, Queue, KeepQueue, Reschedule, DurableTypeOK, QueueTypeOK,
       TxState, Decision, RecoveryAction
  <2>5. st' \in {"aborted_pending_manifest_cancel", "aborted", "quarantined"}
    BY <1>3, <2>1 DEF ReservedAgain, Cancelled, CancelUnavailable,
       ParkCancel, FinishAbort
  <2> QED
    BY <1>0, <2>1, <2>2, <2>3, <2>4, <2>5, MoveKeeps
       DEF Undecided, CommitDecidedOrLater, CommitAuthorized
<1> QED
  BY <1>1, <1>2, <1>3

\* An honoured resolution finishes the terminal whose request is stored.
LEMMA ResolvedKeeps ==
  ASSUME Inv, NEW f \in Fibers
  PROVE  /\ ResolvedFinalized(f) => Inv'
         /\ ResolvedCancelled(f) => Inv'
<1> USE InvParts
<1>0. FiberOK(f) /\ RowOK(st) /\ (canReq => ~finReq)
      /\ (st = "aborted" => ~finReq)
  BY DEF Inv, FibersOK, RowsAgree
<1>1. ASSUME ResolvedFinalized(f) PROVE Inv'
  <2>1. finReq /\ mrow = "FINALIZED" /\ UNCHANGED <<finReq, canReq>>
    BY <1>0, <1>1 DEF ResolvedFinalized, FiberOK
  <2>2. Onward
    BY <1>0, <2>1, MoveOnward
  <2>3. /\ RowOKNext("manifest_registered")
        /\ st \in CommitAuthorized => RowOKNext(st)
    BY <2>1, <2>2, TrueRows DEF RowOKNext, Snapshot, TxState, AbortWork,
       CancelPending
  <2>4. ControlOK' /\ OthersUnchanged
    BY <1>1, <2>2, <2>3, ReturnKeeps, ExclusivelyKeeps DEF ResolvedFinalized
  <2>5. DurableTypeOK' /\ QueueTypeOK'
    BY <1>1 DEF ResolvedFinalized, Queue, KeepQueue, DurableTypeOK,
       QueueTypeOK, TxState, Decision, RecoveryAction
  <2>6. st' \in CommitAuthorized
    BY <1>1 DEF ResolvedFinalized, CommitAuthorized
  <2> QED
    BY <2>1, <2>2, <2>4, <2>5, <2>6, MoveKeeps
       DEF Undecided, CommitAuthorized, AbortWork, CancelPending
<1>2. ASSUME ResolvedCancelled(f) PROVE Inv'
  <2>1. canReq /\ ~finReq /\ UNCHANGED <<finReq, canReq>>
    BY <1>0, <1>2 DEF ResolvedCancelled, FiberOK
  <2>2. Onward
    BY <2>1, <1>2 DEF Onward, AbortSide
  <2>3. ControlOK' /\ OthersUnchanged
    BY <1>2, <2>2, TrueRows, ReturnKeeps, ResumeKeeps DEF ResolvedCancelled
  <2>4. DurableTypeOK' /\ QueueTypeOK'
    BY <1>2 DEF ResolvedCancelled, Queue, DurableTypeOK, QueueTypeOK,
       TxState, Decision, RecoveryAction
  <2>5. st' \in {"abort_decided", "aborting", "aborted"}
    BY <1>2 DEF ResolvedCancelled
  <2> QED
    BY <2>1, <2>2, <2>3, <2>4, <2>5, MoveKeeps
       DEF Undecided, CommitDecidedOrLater, CommitAuthorized
<1> QED
  BY <1>1, <1>2

\* No step of a fiber breaks the invariant.
LEMMA FiberKeeps ==
  ASSUME Inv, NEW f \in Fibers, FiberStep(f) \/ ResolveStep(f)
  PROVE  Inv'
<1>1. ASSUME GateDenied(f) PROVE Inv'
  BY <1>1, ThrowKeeps DEF GateDenied
<1> QED
  BY <1>1, StartKeeps, DriftKeeps, ResolveSent, AdmitKeeps, ReservedKeeps,
     PrepareSucceedsKeeps, DecisionsKeep, CommitSideKeeps, AbortSideKeeps,
     ResolvedKeeps
     DEF FiberStep, ResolveStep

-----------------------------------------------------------------------------
(* The steps of the shards, of the manifest, and the restart.              *)

\* What a shard does on a message or a sweep is covered by its authority.
LEMMA ShardKeeps ==
  ASSUME Inv, ShardNext
  PROVE  Inv'
<1> PICK s \in Shards :
      PrepareArrives(s) \/ CommitArrives(s) \/ AbortArrives(s) \/ Sweep(s)
  BY DEF ShardNext
<1>1. UNCHANGED <<decisionVars, recoveryVars, pc, seen, reply, excl, alarmer,
                  act, networkVars, manifestVars>>
  BY DEF PrepareArrives, CommitArrives, AbortArrives, Sweep,
     unchangedByShards
<1>2. ParticipantInv'
  <2>1. ParticipantNext
    BY DEF PrepareArrives, CommitArrives, AbortArrives, Sweep, StatusAnswer,
       ParticipantNext
  <2> QED
    BY <2>1, ParticipantStep DEF Inv
<1>3. acks' \in [Fibers -> SUBSET Shards]
  BY DEF Inv, TypeOK, PrepareArrives, CommitArrives, AbortArrives, Sweep,
     Acknowledge
<1>4. TypeOK'
  BY <1>1, <1>2, <1>3 DEF Inv, TypeOK, ManifestTypeOK, ParticipantInv,
     decisionVars, recoveryVars, networkVars, manifestVars
<1>5. RowsAgree' /\ MessagesOK'
  BY <1>1 DEF Inv, RowsAgree, RowOK, MessagesOK, decisionVars, networkVars,
     manifestVars
<1>6. AbortSide' <=> AbortSide
  BY <1>1 DEF AbortSide, decisionVars
<1>7. ASSUME NEW p \in Shards, Holds(p) PROVE Holds(p)' \/ AbortSide
  BY <1>7 DEF Holds, Inv, TypeOK, ParticipantTypeOK, ParticipantInv,
     LocksFollowIntents, MessagesOK, OutcomesFollow, AbortSide,
     PrepareArrives, CommitArrives, AbortArrives, Sweep, HandlePrepare,
     HandleCommit, HandleCommitApplyThrows, HandleAbort, SweepAsk,
     SweepCommit, SweepAbort, SweepFails, ApplyCommittedIntents,
     DiscardIntents, participantVars
<1>8. VotesHeld'
  <2>1. st = "prepared" \/ finReq => ~AbortSide
    BY DEF Inv, RowsAgree, AbortSide
  <2> QED
    BY <1>1, <1>7, <2>1 DEF Inv, VotesHeld, decisionVars
<1>9. OutcomesFollow'
  <2>1. /\ StatusAnswer = "committed" => mrow = "FINALIZED"
        /\ StatusAnswer = "aborted" => AbortSide
    BY DEF StatusAnswer, Inv, RowsAgree, RowOK, AbortWork, AbortSide
  <2>2. SUFFICES ASSUME NEW p \in Shards
        PROVE /\ tombstone'[p] = "commit" \/ sweep'[p] = "committed"
                   => mrow = "FINALIZED"
              /\ tombstone'[p] = "abort" \/ sweep'[p] = "aborted"
                   => AbortSide
    BY <1>1, <1>6 DEF OutcomesFollow, manifestVars
  <2>3. CASE PrepareArrives(s) \/ CommitArrives(s) \/ AbortArrives(s)
    BY <2>3 DEF Inv, TypeOK, ParticipantTypeOK, MessagesOK, OutcomesFollow,
       AbortSide, PrepareArrives, CommitArrives, AbortArrives, HandlePrepare,
       HandleCommit, HandleCommitApplyThrows, HandleAbort, PersistTombstone,
       participantVars
  <2>4. CASE Sweep(s)
    BY <2>1, <2>4 DEF Inv, TypeOK, ParticipantTypeOK, OutcomesFollow, Sweep,
       SweepAsk, SweepCommit, SweepAbort, SweepFails, PersistTombstone
  <2> QED
    BY <2>3, <2>4
<1>10. FibersOK'
  <2>1. SUFFICES ASSUME NEW g \in Fibers, pc[g] = "prepare",
                        NEW p \in acks'[g]
                 PROVE  Holds(p)' \/ AbortSide
    BY <1>1, <1>6 DEF Inv, FibersOK, FiberOK, RowOK, decisionVars,
       manifestVars
  <2>2. CASE p \in acks[g]
    <3>1. p \in Shards /\ (Holds(p) \/ AbortSide)
      BY <2>1, <2>2 DEF Inv, TypeOK, FibersOK, FiberOK
    <3> QED
      BY <1>7, <3>1
  <2>3. CASE p \notin acks[g]
    <3>1. PrepareArrives(s) /\ p = s
      BY <2>1, <2>3 DEF Inv, TypeOK, PrepareArrives, CommitArrives,
         AbortArrives, Sweep, Acknowledge
    <3> QED
      BY <3>1 DEF PrepareArrives, HandlePrepare, Holds, Inv, TypeOK,
         ParticipantTypeOK
  <2> QED
    BY <2>2, <2>3
<1> QED
  BY <1>2, <1>4, <1>5, <1>8, <1>9, <1>10 DEF Inv

\* What the manifest does on a message or a resolution is authorized, and a
\* FINALIZED row stays so.
LEMMA ManifestKeeps ==
  ASSUME Inv, ManifestNext
  PROVE  Inv'
<1>1. UNCHANGED <<decisionVars, recoveryVars, pc, seen, acks, excl, alarmer,
                  act, networkVars, participantVars>>
  BY DEF ManifestNext, ManifestAnswers, ManifestResolves, ManifestConflict,
     unchangedByManifest
<1>2. ManifestTypeOK' /\ reply' \in [Fibers -> ManifestReply]
  <2> USE DEF Inv, TypeOK, ManifestTypeOK, Answer, ManifestReply
  <2>1. CASE ManifestAnswers
    BY <2>1 DEF ManifestAnswers, Reserve, Finalize, Cancel, Terminate,
       ReleaseV2
  <2>2. CASE ManifestResolves
    <3> PICK request \in resolveReqs, r \in {"ok", "conflict"} :
          /\ ResolveQuarantine(request, r)
          /\ \/ UNCHANGED reply
             \/ \E f \in Fibers : reply' = [reply EXCEPT ![f] = r]
      BY <2>2 DEF ManifestResolves
    <3>1. request.resolution \in {"FINALIZED", "CANCELLED"}
      BY DEF ResolutionRequest
    <3>2. ManifestTypeOK'
      BY <3>1 DEF ResolveQuarantine
    <3> QED
      BY <3>2
  <2>3. CASE ManifestConflict
    BY <2>3 DEF ManifestConflict, ReserveOtherContent
  <2> QED
    BY <2>1, <2>2, <2>3 DEF ManifestNext
<1>3. /\ mrow = "FINALIZED" => mrow' = "FINALIZED"
      /\ mrow' = "FINALIZED" => finReq
      /\ mrow' = "CANCELLED" => canReq
  BY DEF Inv, TypeOK, RowsAgree, MessagesOK, ManifestNext, ManifestAnswers,
     ManifestResolves, ManifestConflict, Reserve, Finalize, Cancel, Terminate,
     ReleaseV2, ResolveQuarantine, Selects, ReserveOtherContent, RowExists,
     ResolutionRequest
<1>4. TypeOK' /\ ParticipantInv'
  BY <1>1, <1>2 DEF Inv, TypeOK, ParticipantInv, ParticipantTypeOK,
     AppliedAtMostOnce, LocksFollowIntents, SweepHoldsIntents, decisionVars,
     recoveryVars, networkVars, participantVars
<1>5. AbortSide' <=> AbortSide
  BY <1>1 DEF AbortSide, decisionVars
<1>6. RowsAgree' /\ MessagesOK' /\ VotesHeld' /\ OutcomesFollow'
  BY <1>1, <1>3, <1>5 DEF Inv, RowsAgree, RowOK, MessagesOK, VotesHeld,
     OutcomesFollow, Holds, decisionVars, networkVars, participantVars
<1>7. ASSUME NEW g \in Fibers PROVE FiberOK(g)'
  <2>1. FiberOK(g)
    BY DEF Inv, FibersOK
  <2>2. ASSUME pc[g] \in {"finalize", "resolve_finalized"},
               reply'[g] = "ok", reply[g] # "ok"
        PROVE  mrow' = "FINALIZED"
    BY <2>2 DEF Inv, TypeOK, ManifestNext, ManifestAnswers, ManifestResolves,
       ManifestConflict, Answer, Finalize, Terminate, ResolveQuarantine, Selects,
       ResolveLabel, ResolutionRequest
  <2> QED
    BY <1>1, <1>3, <1>5, <2>1, <2>2 DEF FiberOK, RowOK, Holds, decisionVars,
       participantVars
<1> QED
  BY <1>4, <1>6, <1>7 DEF Inv, FibersOK

\* A restart forgets the fibers and keeps every durable fact.
LEMMA RestartKeeps ==
  ASSUME Inv, Restart
  PROVE  Inv'
<1>1. UNCHANGED decisionVars /\ OthersUnchanged /\ QueueTypeOK'
  BY InvParts DEF Restart, QueueTypeOK
<1>2. ControlTypeOK' /\ MessagesOK'
  BY <1>1, InvParts DEF Restart, ControlOK, ControlTypeOK, MessagesOK, Label,
     Snapshot, TxState, ManifestReply, RecoveryAction, networkVars,
     decisionVars, OthersUnchanged, manifestVars
<1>3. FibersOK'
  BY DEF Restart, FibersOK, FiberOK, RowOK, AbortWork, CancelPending,
     CommitDecidedOrLater, CommitAuthorized
<1> QED
  BY <1>1, <1>2, <1>3, UndecidedKeeps DEF ControlOK

-----------------------------------------------------------------------------
(* The theorems.                                                           *)

\* The invariant holds initially.
LEMMA Initially == Init => Inv
<1> SUFFICES ASSUME Init PROVE Inv
  OBVIOUS
<1>1. TypeOK
  BY DEF Init, TypeOK, TxState, Decision, RecoveryAction, Label, Snapshot,
     ManifestReply, ParticipantInit, ParticipantTypeOK, ManifestInit,
     ManifestTypeOK
<1>2. ParticipantInv
  BY ParticipantInitially DEF Init
<1>3. RowsAgree /\ MessagesOK /\ FibersOK /\ VotesHeld /\ OutcomesFollow
  BY DEF Init, ParticipantInit, ManifestInit, RowsAgree, MessagesOK, FibersOK,
     FiberOK, RowOK, VotesHeld, OutcomesFollow, AbortWork, CancelPending,
     CommitDecidedOrLater, CommitAuthorized
<1> QED
  BY <1>1, <1>2, <1>3 DEF Inv

\* Every step keeps the invariant.
LEMMA StepKeeps == Inv /\ [Next]_vars => Inv'
<1> SUFFICES ASSUME Inv, [Next]_vars PROVE Inv'
  OBVIOUS
<1>1. CASE Next
  BY <1>1, FiberKeeps, ShardKeeps, ManifestKeeps, RestartKeeps
     DEF Next, CoordinatorNext
<1>2. CASE UNCHANGED vars
  <2>1. UNCHANGED decisionVars /\ OthersUnchanged /\ QueueTypeOK'
    BY <1>2, InvParts DEF vars, coordinatorVars, OthersUnchanged,
       recoveryVars, QueueTypeOK
  <2>2. ControlOK'
    BY <1>2, InvParts DEF vars, coordinatorVars, ControlOK, ControlTypeOK,
       MessagesOK, FibersOK, FiberOK, RowOK, Holds, AbortSide, fiberVars,
       networkVars, decisionVars, participantVars, manifestVars
  <2> QED
    BY <2>1, <2>2, UndecidedKeeps
<1> QED
  BY <1>1, <1>2

\* The state of the composed system is always justified by its evidence.
THEOREM Invariance == Spec => []Inv
BY Initially, StepKeeps, PTL DEF Spec

\* Every variable keeps its type, for any shards and fibers.
THEOREM TypeCorrect == Spec => []TypeOK
<1>1. Inv => TypeOK
  BY DEF Inv
<1> QED
  BY <1>1, Invariance, PTL

\* The coordinator never stores both terminal requests, and the manifest
\* never takes a terminal that was not requested: handleBegin, the alarm,
\* /force-abort and the audited resolution race over one row.
THEOREM AuthorizesOne == Spec => []OneAuthorization
<1>1. Inv => OneAuthorization
  BY DEF Inv, RowsAgree, OneAuthorization
<1> QED
  BY <1>1, Invariance, PTL

\* No participant commits without a FINALIZED manifest row, a stored finalize
\* request and the votes of all the others.
THEOREM CommitsOnAuthority == Spec => []CommitIsAuthorized
<1>1. Inv => CommitIsAuthorized
  BY DEF Inv, RowsAgree, VotesHeld, Holds, OutcomesFollow, CommitIsAuthorized
<1> QED
  BY <1>1, Invariance, PTL

\* A cross-shard transaction is all or nothing: no two participants record
\* opposite decisions, whatever is lost, repeated, late or restarted.
THEOREM Atomic == Spec => []AtomicOutcome
<1>1. Inv => AtomicOutcome
  BY DEF Inv, RowsAgree, OutcomesFollow, AbortSide, AtomicOutcome
<1> QED
  BY <1>1, Invariance, PTL

-----------------------------------------------------------------------------
(* The record: what the coordinator's rows say has happened.  It is a      *)
(* second invariant, inductive relative to the first: an answer or an      *)
(* acknowledgement that a fiber holds, a row it has read, and the row      *)
(* itself each imply a fact of the participants or of the manifest that no *)
(* later step undoes (an applied intent, a tombstone, a manifest row that  *)
(* exists, is closed, or has been in quarantine).                          *)

\* The manifest row exists before anything that relies on it.
ReservedFirst ==
  /\ st \in {"preparing", "prepared"} \/ finReq => RowExists
  /\ {"prepare", "cancel"} \cap msgs # {} => RowExists
  /\ \A s \in Shards : intents[s] # "none" => RowExists

\* A recorded end was reached: every participant has applied its intents, or
\* refuses any later prepare, and the manifest row is closed.
EndsReached ==
  /\ \A s \in Shards : st = "committed" \/ phase[s] = "committed"
       => intents[s] = "committed"
  /\ canReq /\ st \in {"aborted_pending_manifest_cancel", "aborted",
                       "quarantined"}
       => \A s \in Shards : tombstone[s] = "abort"
  /\ st = "aborted" => mrow \in {"REFUSED", "CANCELLED"}

\* One alarm runs at a time, and it has work.
AlarmHasWork ==
  /\ \A f, g \in alarmer : f = g
  /\ alarmer # {} => act # "none"

\* What the manifest answered, and what the participants acknowledged.
AnswerOK(f) ==
  /\ pc[f] \in {"reserve", "cancel_reserve"} =>
       /\ reply[f] = "ok" => RowExists
       /\ reply[f] = "refused" => mrow = "REFUSED"
  /\ pc[f] = "cancel" /\ reply[f] = "ok" => mrow = "CANCELLED"
  /\ pc[f] \in {"reserve", "cancel_reserve", "finalize", "cancel"}
       /\ reply[f] \in {"quarantined", "conflict"} => mq # "NONE"
  /\ pc[f] = "resolve_cancelled" /\ reply[f] = "ok" =>
       /\ mrow = "CANCELLED"
       /\ seen[f] \in AbortDecidedOrLater \cup {"quarantined"}
  /\ pc[f] = "resolve_finalized" /\ reply[f] = "ok" =>
       seen[f] \in (CommitDecidedOrLater \ {"commit_decided"})
                     \cup {"quarantined"}
  /\ pc[f] = "commit" => \A s \in acks[f] : intents[s] = "committed"
  /\ pc[f] = "undo" => \A s \in acks[f] : tombstone[s] = "abort"

\* What a fiber read of the row still tells something of it.
MemoryOK(f) ==
  /\ seen[f] = "preparing" => RowExists
  /\ seen[f] = "committed" \/ pc[f] = "release" => st = "committed"

RecordInv ==
  /\ NoSpuriousQuarantine
  /\ DecidedWorkIsQueued
  /\ ReservedFirst
  /\ EndsReached
  /\ AlarmHasWork
  /\ \A f \in Fibers : AnswerOK(f) /\ MemoryOK(f)

-----------------------------------------------------------------------------
\* A fiber that a step leaves alone.
Rests(g) ==
  /\ pc'[g] = pc[g] /\ seen'[g] = seen[g]
  /\ acks'[g] = acks[g] /\ reply'[g] = reply[g]

\* A fiber that goes on from row, without any answer yet.
GoesOn(g, row) ==
  /\ seen'[g] \in {"new", row}
  /\ acks'[g] = {} /\ reply'[g] = "none"

\* Fiber f moves on from row, the fibers that waited for it return, and it
\* sends what the row asks for.
Moves(f, row) ==
  /\ OthersUnchanged
  /\ \A g \in Fibers :
       Rests(g) \/ (GoesOn(g, row) /\ pc'[g] # "release")
  /\ "prepare" \in msgs' => "prepare" \in msgs \/ row = "preparing"
  /\ "cancel" \in msgs' => "cancel" \in msgs
  /\ alarmer' \subseteq alarmer
  /\ alarmer' # {} => act' = act

\* Waiting moves the fiber to what it was told.
LEMMA AwaitMoves ==
  ASSUME ControlTypeOK, NEW f \in Fibers, NEW label, NEW row, NEW sent,
         NEW requests, Await(f, label, row, sent, requests),
         label # "release", "cancel" \notin sent,
         "prepare" \in sent => row = "preparing"
  PROVE  Moves(f, row)
<1>1. \A g \in Fibers : Rests(g) \/ (GoesOn(g, row) /\ pc'[g] # "release")
  BY DEF ControlTypeOK, Await, Rests, GoesOn
<1> QED
  BY <1>1 DEF Await, Moves

\* So does going on at a label.
LEMMA GotoMoves ==
  ASSUME ControlTypeOK, NEW f \in Fibers, NEW label, NEW row,
         Goto(f, label, row), label # "release"
  PROVE  Moves(f, row)
BY AwaitMoves DEF Goto

\* And a call, of a message that no row has to allow.
LEMMA CallMoves ==
  ASSUME ControlTypeOK, NEW f \in Fibers, NEW label, NEW message, NEW row,
         Call(f, label, message), label # "release", message # "cancel",
         message = "prepare" => row = "preparing"
  PROVE  Moves(f, row)
<1>1. Await(f, label, "new", {message}, {})
  BY DEF Call
<1>2. \A g \in Fibers : Rests(g) \/ (GoesOn(g, "new") /\ pc'[g] # "release")
  BY <1>1 DEF ControlTypeOK, Await, Rests, GoesOn
<1> QED
  BY <1>1, <1>2 DEF Await, Moves, GoesOn

\* And a return, with one alarm at most.
LEMMA ReturnMoves ==
  ASSUME ControlTypeOK, AlarmHasWork, NEW f \in Fibers, NEW row, Return(f)
  PROVE  Moves(f, row)
<1>1. \A g \in Fibers : Rests(g) \/ (GoesOn(g, row) /\ pc'[g] # "release")
  BY DEF ControlTypeOK, Return, Rests, GoesOn
<1>2. alarmer' \subseteq alarmer /\ (alarmer' # {} => act' = act)
  BY DEF Return, AlarmHasWork
<1> QED
  BY <1>1, <1>2 DEF Return, Moves, networkVars

\* And taking over the recovery, or joining it.
LEMMA ExclusivelyMoves ==
  ASSUME ControlTypeOK, NEW f \in Fibers,
         NEW label \in {"cancel_gate", "commit_gate"}, NEW row,
         Exclusively(f, label, row)
  PROVE  Moves(f, row)
<1>1. CASE Await(f, label, row, {}, {})
  BY <1>1, AwaitMoves
<1>2. CASE Goto(f, "join", "new")
  <2>1. Moves(f, "new")
    BY <1>2, GotoMoves
  <2> QED
    BY <2>1 DEF Moves, GoesOn
<1> QED
  BY <1>1, <1>2 DEF Exclusively

\* And resuming from a row.
LEMMA ResumeMoves ==
  ASSUME ControlTypeOK, AlarmHasWork, NEW f \in Fibers, NEW row,
         Resume(f, row)
  PROVE  Moves(f, row)
<1>1. CASE /\ row = "preparing"
           /\ Call(f, "prepare", "prepare")
  BY <1>1, CallMoves
<1>2. CASE Call(f, "reserve", "reserve")
  BY <1>2, CallMoves
<1>3. CASE Goto(f, "decide_gate", "new")
  <2>1. Moves(f, "new")
    BY <1>3, GotoMoves
  <2> QED
    BY <2>1 DEF Moves, GoesOn
<1>4. CASE Await(f, "finalize", row, {"finalize"}, {})
  BY <1>4, AwaitMoves
<1>5. CASE Goto(f, "undo_gate", row)
  BY <1>5, GotoMoves
<1>6. CASE \/ Exclusively(f, "cancel_gate", row)
           \/ Exclusively(f, "commit_gate", row)
  BY <1>6, ExclusivelyMoves
<1>7. CASE Return(f)
  BY <1>7, ReturnMoves
<1> QED
  BY <1>1, <1>2, <1>3, <1>4, <1>5, <1>6, <1>7 DEF Resume

\* And resuming inside the recovery.
LEMMA ResumeRecoveryOnceMoves ==
  ASSUME ControlTypeOK, AlarmHasWork, NEW f \in Fibers, NEW row,
         ResumeRecoveryOnce(f, row)
  PROVE  Moves(f, row)
BY ResumeMoves, GotoMoves DEF ResumeRecoveryOnce

-----------------------------------------------------------------------------
\* What the row may become, and the evidence it takes.
RowMoves ==
  \/ UNCHANGED <<st, finReq, canReq>>
  \/ /\ st = "prepared" /\ st' = "commit_deciding"
     /\ finReq' /\ UNCHANGED canReq
  \/ /\ st \in {"manifest_reserving", "preparing", "prepared"}
     /\ st' = "abort_decided" /\ canReq' /\ UNCHANGED finReq
  \/ /\ UNCHANGED <<finReq, canReq>>
     /\ \/ st = "new" /\ st' = "manifest_reserving"
        \/ st = "manifest_reserving" /\ st' = "preparing" /\ RowExists
        \/ st = "manifest_reserving" /\ st' = "aborted" /\ mrow = "REFUSED"
        \/ st = "preparing" /\ st' = "prepared"
        \/ /\ st \in CommitDecidedOrLater \ CommitAuthorized
           /\ st' \in {"commit_pending_manifest", "manifest_registered"}
        \/ st = "quarantined" /\ st' = "manifest_registered"
        \/ st = "manifest_registered" /\ st' = "committing"
        \/ /\ st \in {"committing", "committed_pending_ack"}
           /\ st' = "committed_pending_ack"
        \/ /\ st \in {"committing", "committed_pending_ack"}
           /\ st' = "committed"
           /\ \A s \in Shards : intents[s] = "committed"
        \/ st = "abort_decided" /\ st' = "aborting"
        \/ /\ st = "aborting" /\ st' = "aborted_pending_manifest_cancel"
           /\ \A s \in Shards : tombstone[s] = "abort"
        \/ /\ st \in {"aborted_pending_manifest_cancel", "quarantined"}
           /\ st' = "aborted" /\ canReq /\ mrow \in {"REFUSED", "CANCELLED"}
        \/ /\ st \in (CommitDecidedOrLater \ CommitAuthorized)
                       \cup {"aborted_pending_manifest_cancel"}
           /\ st' = "quarantined" /\ mq # "NONE"

\* What a step of a fiber does to the durable row, its participants and its
\* forward work.
Goes ==
  /\ RowMoves
  /\ parked' => parked \/ mq # "NONE"
  /\ \A s \in Shards : phase'[s] = "committed"
       => phase[s] = "committed" \/ intents[s] = "committed"
  /\ DecidedWorkIsQueued'

\* An error in a request leaves the work queued; the alarm queues its own.
LEMMA ThrowGoes ==
  ASSUME AlarmHasWork, NEW f \in Fibers, Throw(f)
  PROVE  /\ UNCHANGED decisionVars
         /\ queue' = queue \/ queue' # "none"
BY DEF AlarmHasWork, Throw, Reschedule, Queue, KeepQueue

\* A step that leaves the row alone and does not drop queued work.
LEMMA StayGoes ==
  ASSUME RecordInv, UNCHANGED decisionVars,
         \/ queue' = queue \/ queue' # "none" \/ st = "committed"
  PROVE  Goes
BY DEF Goes, RowMoves, RecordInv, DecidedWorkIsQueued, decisionVars

\* The steps that only read the row.
LEMMA ReadersGo ==
  ASSUME RecordInv, NEW f \in Fibers,
         \/ Begin(f) \/ BeginExisting(f) \/ AlarmFire(f) \/ AlarmWork(f)
         \/ AlarmDeferred(f) \/ ForceAbort(f) \/ GateDenied(f)
         \/ ReservedLate(f) \/ PrepareFails(f) \/ DecideArm(f)
         \/ DecideLate(f) \/ FinalizedLate(f) \/ Released(f) \/ AbortArm(f)
         \/ DecideAbortLate(f) \/ AbortUnacknowledged(f)
         \/ SendReserveAgain(f) \/ CancelLate(f) \/ ResolveFails(f)
         \/ \E resolution \in {"FINALIZED", "CANCELLED"},
               selected \in {"intent", "record"} :
              Resolve(f, resolution, selected)
  PROVE  Goes
<1>1. AlarmHasWork /\ MemoryOK(f)
  BY DEF RecordInv
<1>2. CASE Throw(f)
  BY <1>1, <1>2, ThrowGoes, StayGoes
<1>3. CASE ~Throw(f)
  <2>1. UNCHANGED decisionVars
    BY <1>3 DEF Begin, BeginExisting, AlarmFire, AlarmWork, AlarmDeferred,
       ForceAbort, GateDenied, ReservedLate, PrepareFails, DecideArm,
       DecideLate, FinalizedLate, Released, AbortArm, DecideAbortLate,
       AbortUnacknowledged, SendReserveAgain, CancelLate, ResolveFails,
       Resolve
  <2>2. \/ queue' = queue \/ queue' # "none" \/ st = "committed"
    BY <1>1, <1>3
       DEF Begin, BeginExisting, AlarmFire, AlarmWork, AlarmDeferred,
       ForceAbort, GateDenied, ReservedLate, PrepareFails, DecideArm,
       DecideLate, FinalizedLate, Released, AbortArm, DecideAbortLate,
       AbortUnacknowledged, SendReserveAgain, CancelLate, ResolveFails,
       Resolve, MemoryOK, recoveryVars, KeepQueue, Reschedule, Queue
  <2> QED
    BY <2>1, <2>2, StayGoes
<1> QED
  BY <1>2, <1>3

\* The steps towards the decision.
LEMMA DecidersGo ==
  ASSUME Inv, RecordInv, NEW f \in Fibers,
         \/ Admit(f) \/ Reserved(f) \/ PrepareSucceeds(f) \/ Decide(f)
         \/ DecideAbort(f)
  PROVE  Goes
<1> USE DEF Goes, RowMoves, DecidedWorkIsQueued
<1>0. AnswerOK(f) /\ DecidedWorkIsQueued
  BY DEF RecordInv
<1>1. CASE Admit(f)
  BY <1>0, <1>1 DEF Admit, Queue, KeepQueue, decisionVars
<1>2. CASE Reserved(f)
  BY <1>0, <1>2 DEF Reserved, AnswerOK, Queue, KeepQueue, Reschedule
<1>3. CASE PrepareSucceeds(f)
  BY <1>0, <1>3 DEF PrepareSucceeds, recoveryVars
<1>4. CASE Decide(f)
  BY <1>4 DEF Decide, Queue
<1>5. CASE DecideAbort(f)
  BY <1>5 DEF DecideAbort, Queue
<1> QED
  BY <1>1, <1>2, <1>3, <1>4, <1>5

\* The steps that carry a commit out.
LEMMA CommittersGo ==
  ASSUME Inv, RecordInv, NEW f \in Fibers,
         \/ Finalized(f) \/ SendCommit(f) \/ CommitAcknowledged(f)
         \/ CommitUnacknowledged(f) \/ ResolvedFinalized(f)
  PROVE  Goes
<1> USE DEF Goes, RowMoves, DecidedWorkIsQueued
<1>0. AnswerOK(f) /\ DecidedWorkIsQueued /\ FiberOK(f)
  BY DEF RecordInv, Inv, FibersOK
<1>1. CASE Finalized(f)
  BY <1>0, <1>1 DEF Finalized, AnswerOK, FiberOK, Queue, Reschedule
<1>2. CASE SendCommit(f)
  BY <1>0, <1>2 DEF SendCommit, recoveryVars
<1>3. CASE CommitAcknowledged(f)
  BY <1>0, <1>3 DEF CommitAcknowledged, AnswerOK, Queue, KeepQueue
<1>4. CASE CommitUnacknowledged(f)
  BY <1>0, <1>4 DEF CommitUnacknowledged, AnswerOK, Queue, Reschedule,
     recoveryVars, Inv, TypeOK
<1>5. CASE ResolvedFinalized(f)
  <2>1. st \in (CommitDecidedOrLater \ {"commit_decided"})
                 \cup {"quarantined"}
    BY <1>0, <1>5 DEF ResolvedFinalized, AnswerOK
  <2> QED
    BY <1>0, <1>5, <2>1 DEF ResolvedFinalized, Queue, KeepQueue
<1> QED
  BY <1>1, <1>2, <1>3, <1>4, <1>5

\* The steps that carry an abort out.
LEMMA AbortersGo ==
  ASSUME Inv, RecordInv, NEW f \in Fibers,
         \/ SendAbort(f) \/ AbortAcknowledged(f) \/ ReservedAgain(f)
         \/ Cancelled(f) \/ ResolvedCancelled(f)
  PROVE  Goes
<1> USE DEF Goes, RowMoves, DecidedWorkIsQueued
<1>0. AnswerOK(f) /\ DecidedWorkIsQueued /\ FiberOK(f) /\ RowOK(st)
  BY DEF RecordInv, Inv, FibersOK, RowsAgree
<1>1. CASE SendAbort(f)
  BY <1>0, <1>1 DEF SendAbort, recoveryVars
<1>2. CASE AbortAcknowledged(f)
  BY <1>0, <1>2 DEF AbortAcknowledged, AnswerOK, Queue, KeepQueue
<1>3. CASE ReservedAgain(f)
  BY <1>0, <1>3 DEF ReservedAgain, CancelUnavailable, ParkCancel,
     FinishAbort, AnswerOK, Queue, KeepQueue, Reschedule, RowOK, AbortWork,
     CancelPending
<1>4. CASE Cancelled(f)
  BY <1>0, <1>4 DEF Cancelled, CancelUnavailable, ParkCancel, FinishAbort,
     AnswerOK, Queue, KeepQueue, Reschedule, RowOK, AbortWork, CancelPending
<1>5. CASE ResolvedCancelled(f)
  <2>1. /\ st \in AbortDecidedOrLater \cup {"quarantined"}
        /\ canReq /\ mrow = "CANCELLED"
    BY <1>0, <1>5 DEF ResolvedCancelled, AnswerOK, FiberOK
  <2> QED
    BY <1>0, <1>5, <2>1 DEF ResolvedCancelled, Queue, AbortDecidedOrLater
<1> QED
  BY <1>1, <1>2, <1>3, <1>4, <1>5

-----------------------------------------------------------------------------
\* The durable parts of the record follow from what a fiber's step does to
\* the row.
LEMMA GoesKeeps ==
  ASSUME Inv, RecordInv, Goes, OthersUnchanged
  PROVE  /\ NoSpuriousQuarantine' /\ DecidedWorkIsQueued' /\ EndsReached'
         /\ st' \in {"preparing", "prepared"} \/ finReq' => RowExists'
         /\ st = "committed" => st' = "committed"
<1> USE DEF OthersUnchanged, participantVars, manifestVars
<1>1. RowMoves /\ NoSpuriousQuarantine /\ EndsReached /\ ReservedFirst
      /\ RowsAgree
  BY DEF Goes, RecordInv, Inv
<1>2. NoSpuriousQuarantine'
  BY <1>1 DEF Goes, RowMoves, NoSpuriousQuarantine, CommitDecidedOrLater,
     CommitAuthorized
<1>3. EndsReached'
  <2>1. st' = "aborted" => mrow \in {"REFUSED", "CANCELLED"}
    BY <1>1 DEF RowMoves, EndsReached
  <2>2. ASSUME NEW s \in Shards, st' = "committed" \/ phase'[s] = "committed"
        PROVE  intents[s] = "committed"
    BY <1>1, <2>2 DEF Goes, RowMoves, EndsReached
  <2>3. ASSUME canReq', NEW s \in Shards,
               st' \in {"aborted_pending_manifest_cancel", "aborted",
                        "quarantined"}
        PROVE  tombstone[s] = "abort"
    BY <1>1, <2>3 DEF RowMoves, EndsReached, RowsAgree, RowOK
  <2> QED
    BY <2>1, <2>2, <2>3 DEF EndsReached
<1>4. st' \in {"preparing", "prepared"} \/ finReq' => RowExists'
  BY <1>1 DEF RowMoves, ReservedFirst, RowExists
<1>5. st = "committed" => st' = "committed"
  BY <1>1 DEF RowMoves, CommitDecidedOrLater, CommitAuthorized
<1> QED
  BY <1>2, <1>3, <1>4, <1>5 DEF Goes

\* A row that a fiber may go on from.
Told(row) ==
  /\ row = "preparing" => RowExists
  /\ row = "committed" => st' = "committed"

\* A fiber that goes on from such a row keeps the volatile parts.
LEMMA MovesKeeps ==
  ASSUME Inv, RecordInv, NEW f \in Fibers, NEW row, Moves(f, row), Told(row),
         st = "committed" => st' = "committed"
  PROVE  /\ AlarmHasWork'
         /\ \A g \in Fibers : (AnswerOK(g) /\ MemoryOK(g))'
         /\ {"prepare", "cancel"} \cap msgs' # {} => RowExists'
         /\ OthersUnchanged
<1> USE DEF OthersUnchanged, participantVars, manifestVars
<1>1. OthersUnchanged /\ UNCHANGED RowExists
  BY DEF Moves, RowExists
<1>2. AlarmHasWork'
  BY DEF Moves, RecordInv, AlarmHasWork
<1>3. {"prepare", "cancel"} \cap msgs' # {} => RowExists'
  BY <1>1 DEF Moves, Told, RecordInv, ReservedFirst
<1>4. ASSUME NEW g \in Fibers PROVE (AnswerOK(g) /\ MemoryOK(g))'
  <2>0. AnswerOK(g) /\ MemoryOK(g)
    BY DEF RecordInv
  <2>1. CASE Rests(g)
    BY <1>1, <2>0, <2>1 DEF Rests, AnswerOK, MemoryOK
  <2>2. CASE GoesOn(g, row) /\ pc'[g] # "release"
    BY <1>1, <2>2 DEF GoesOn, AnswerOK, MemoryOK, Told
  <2> QED
    BY <2>1, <2>2 DEF Moves
<1> QED
  BY <1>1, <1>2, <1>3, <1>4

\* The two halves of a fiber's step keep the record.
LEMMA FiberRecords ==
  ASSUME Inv, RecordInv, Goes, NEW f \in Fibers, NEW row, Moves(f, row),
         Told(row)
  PROVE  RecordInv'
<1>1. OthersUnchanged
  BY DEF Moves
<1>2. st = "committed" => st' = "committed"
  BY <1>1, GoesKeeps
<1>3. \A s \in Shards : intents'[s] # "none" => RowExists'
  BY <1>1 DEF OthersUnchanged, participantVars, manifestVars, RecordInv,
     ReservedFirst, RowExists
<1> QED
  BY <1>1, <1>2, <1>3, GoesKeeps, MovesKeeps DEF RecordInv, ReservedFirst

\* What a fiber has read, and the row, may be gone on from.
LEMMA ToldRows ==
  ASSUME RecordInv, NEW f \in Fibers, st = "committed" => st' = "committed"
  PROVE  /\ Told(Row) /\ Told(st) /\ Told(seen[f]) /\ Told("new")
         /\ Told("prepared") /\ Told("manifest_reserving")
         /\ Told("commit_deciding") /\ Told("abort_decided")
         /\ Told("aborted_pending_manifest_cancel")
         /\ Told("manifest_registered")
BY DEF RecordInv, ReservedFirst, MemoryOK, Told, Row

\* A return keeps the record.
LEMMA ReturnRecords ==
  ASSUME Inv, RecordInv, Goes, NEW f \in Fibers, Return(f)
  PROVE  RecordInv'
<1>1. ControlTypeOK /\ AlarmHasWork
  BY InvParts DEF ControlOK, RecordInv
<1>2. Moves(f, "new") /\ Told("new")
  BY <1>1, ReturnMoves DEF Told
<1> QED
  BY <1>2, FiberRecords

\* So does going on at a label, from a row that may be gone on from.
LEMMA GotoRecords ==
  ASSUME Inv, RecordInv, Goes, NEW f \in Fibers, NEW label, NEW row,
         Goto(f, label, row), label # "release", Told(row)
  PROVE  RecordInv'
<1>1. Moves(f, row)
  BY InvParts, GotoMoves DEF ControlOK
<1> QED
  BY <1>1, FiberRecords

\* And a call that any row allows.
LEMMA CallRecords ==
  ASSUME Inv, RecordInv, Goes, NEW f \in Fibers, NEW label, NEW message,
         Call(f, label, message), label # "release",
         message \notin {"cancel", "prepare"}
  PROVE  RecordInv'
<1>1. Moves(f, "new") /\ Told("new")
  BY InvParts, CallMoves DEF ControlOK, Told
<1> QED
  BY <1>1, FiberRecords

\* And resuming, in or out of the recovery.
LEMMA ResumeRecords ==
  ASSUME Inv, RecordInv, Goes, NEW f \in Fibers, NEW row, Told(row),
         Resume(f, row) \/ ResumeRecoveryOnce(f, row)
  PROVE  RecordInv'
<1>1. ControlTypeOK /\ AlarmHasWork
  BY InvParts DEF ControlOK, RecordInv
<1>2. Moves(f, row)
  BY <1>1, ResumeMoves, ResumeRecoveryOnceMoves
<1> QED
  BY <1>2, FiberRecords

\* And taking over the recovery.
LEMMA ExclusivelyRecords ==
  ASSUME Inv, RecordInv, Goes, NEW f \in Fibers,
         NEW label \in {"cancel_gate", "commit_gate"}, NEW row, Told(row),
         Exclusively(f, label, row)
  PROVE  RecordInv'
<1>1. Moves(f, row)
  BY InvParts, ExclusivelyMoves DEF ControlOK
<1> QED
  BY <1>1, FiberRecords

-----------------------------------------------------------------------------
(* The steps of a fiber keep the record.                                   *)

\* The steps that only read the row, but for the alarm's first two.
LEMMA ReadersKeep ==
  ASSUME Inv, RecordInv, NEW f \in Fibers,
         \/ Begin(f) \/ BeginExisting(f)
         \/ AlarmDeferred(f) \/ ForceAbort(f) \/ GateDenied(f)
         \/ ReservedLate(f) \/ PrepareFails(f) \/ DecideArm(f)
         \/ DecideLate(f) \/ FinalizedLate(f) \/ Released(f) \/ AbortArm(f)
         \/ DecideAbortLate(f) \/ AbortUnacknowledged(f)
         \/ CancelLate(f) \/ ResolveFails(f)
  PROVE  RecordInv'
<1>1. Goes
  BY ReadersGo
<1>2. CASE Throw(f)
  BY <1>1, <1>2, ReturnRecords DEF Throw
<1>3. CASE ~Throw(f)
  <2>1. UNCHANGED decisionVars
    BY <1>3 DEF Begin, BeginExisting, AlarmDeferred, ForceAbort, GateDenied,
       ReservedLate, PrepareFails, DecideArm, DecideLate, FinalizedLate,
       Released, AbortArm, DecideAbortLate, AbortUnacknowledged, CancelLate,
       ResolveFails
  <2>2. Told(Row) /\ Told(seen[f]) /\ Told("new")
    BY <2>1, ToldRows DEF decisionVars
  <2>3. CASE \/ Begin(f) \/ DecideArm(f) \/ AbortArm(f)
             \/ DecideAbortLate(f)
    BY <1>1, <1>3, <2>2, <2>3, GotoRecords
       DEF Begin, DecideArm, AbortArm, DecideAbortLate
  <2>4. CASE \/ AlarmDeferred(f) \/ Released(f) \/ AbortUnacknowledged(f)
             \/ ResolveFails(f)
    BY <1>1, <2>4, ReturnRecords
       DEF AlarmDeferred, Released, AbortUnacknowledged, ResolveFails
  <2>5. CASE \/ BeginExisting(f) \/ ReservedLate(f) \/ DecideLate(f)
             \/ FinalizedLate(f) \/ CancelLate(f)
    BY <1>1, <1>3, <2>2, <2>5, ResumeRecords
       DEF BeginExisting, ReservedLate, DecideLate, FinalizedLate, CancelLate
  <2>6. CASE ForceAbort(f) \/ PrepareFails(f)
    BY <1>1, <2>2, <2>6, ResumeRecords, GotoRecords
       DEF ForceAbort, PrepareFails
  <2> QED
    BY <1>3, <2>3, <2>4, <2>5, <2>6 DEF GateDenied
<1> QED
  BY <1>2, <1>3

\* The alarm reads the row and the work together, and releases the manifest
\* row of a committed transaction only.
LEMMA AlarmKeeps ==
  ASSUME Inv, RecordInv, NEW f \in Fibers, AlarmFire(f) \/ AlarmWork(f)
  PROVE  RecordInv'
<1> USE DEF OthersUnchanged, participantVars, manifestVars, fiberVars,
            networkVars
<1>1. Goes /\ UNCHANGED decisionVars
  BY ReadersGo, ThrowGoes DEF AlarmFire, AlarmWork
<1>2. /\ Told(Row) /\ Told(seen[f]) /\ ControlTypeOK
      /\ AlarmHasWork /\ ReservedFirst
  BY <1>1, ToldRows, InvParts DEF decisionVars, ControlOK, RecordInv
<1>3. CASE AlarmFire(f)
  <2>1. OthersUnchanged /\ UNCHANGED RowExists
    BY <1>3 DEF AlarmFire, RowExists
  <2>2. AlarmHasWork'
    BY <1>2, <1>3 DEF AlarmFire, AlarmHasWork
  <2>3. ReservedFirst'
    BY <1>1, <1>2, <1>3, <2>1 DEF AlarmFire, ReservedFirst, decisionVars
  <2>4. ASSUME NEW g \in Fibers PROVE (AnswerOK(g) /\ MemoryOK(g))'
    <3>1. AnswerOK(g) /\ MemoryOK(g)
      BY DEF RecordInv
    <3>2. CASE Rests(g)
      BY <1>1, <2>1, <3>1, <3>2 DEF Rests, AnswerOK, MemoryOK, decisionVars
    <3>3. CASE g = f /\ pc'[f] = "alarm" /\ seen'[f] = Row
      BY <1>1, <1>2, <2>1, <3>3 DEF AnswerOK, MemoryOK, Told, decisionVars
    <3> QED
      BY <1>2, <1>3, <3>2, <3>3 DEF AlarmFire, Rests, ControlTypeOK
  <2> QED
    BY <1>1, <2>1, <2>2, <2>3, <2>4, GoesKeeps DEF RecordInv
<1>4. CASE AlarmWork(f)
  <2>1. CASE Return(f)
    BY <1>1, <2>1, ReturnRecords
  <2>2. CASE Resume(f, seen[f])
    BY <1>1, <1>2, <2>2, ResumeRecords
  <2>3. CASE seen[f] = "committed" /\ Call(f, "release", "release")
    <3>1. st = "committed" /\ OthersUnchanged
      BY <2>3 DEF RecordInv, MemoryOK, Call, Await
    <3>2. AlarmHasWork' /\ UNCHANGED RowExists
      BY <1>2, <2>3, <3>1 DEF Call, Await, AlarmHasWork, RowExists
    <3>3. ReservedFirst'
      BY <1>1, <1>2, <2>3, <3>1, <3>2 DEF Call, Await, ReservedFirst,
         decisionVars
    <3>4. ASSUME NEW g \in Fibers PROVE (AnswerOK(g) /\ MemoryOK(g))'
      <4>1. AnswerOK(g) /\ MemoryOK(g)
        BY DEF RecordInv
      <4>2. CASE Rests(g)
        BY <1>1, <3>1, <3>2, <4>1, <4>2
           DEF Rests, AnswerOK, MemoryOK, decisionVars
      <4>3. CASE g = f /\ pc'[f] = "release" /\ seen'[f] = "new"
        BY <1>1, <3>1, <4>3 DEF AnswerOK, MemoryOK, decisionVars
      <4> QED
        BY <1>2, <2>3, <4>2, <4>3 DEF Call, Await, Rests, ControlTypeOK
    <3> QED
      BY <1>1, <3>1, <3>3, <3>2, <3>4, GoesKeeps DEF RecordInv
  <2>4. CASE Throw(f)
    BY <1>1, <2>4, ReturnRecords DEF Throw
  <2> QED
    BY <1>4, <2>1, <2>2, <2>3, <2>4 DEF AlarmWork
<1> QED
  BY <1>3, <1>4

\* Replaying the reservation before a cancel, and forwarding a resolution.
LEMMA ForwardersKeep ==
  ASSUME Inv, RecordInv, NEW f \in Fibers,
         \/ SendReserveAgain(f)
         \/ \E resolution \in {"FINALIZED", "CANCELLED"},
               selected \in {"intent", "record"} :
              Resolve(f, resolution, selected)
  PROVE  RecordInv'
<1>1. Goes
  BY ReadersGo
<1>2. CASE SendReserveAgain(f)
  BY <1>1, <1>2, ReturnRecords, CallRecords DEF SendReserveAgain
<1>3. ASSUME NEW resolution \in {"FINALIZED", "CANCELLED"},
             NEW selected \in {"intent", "record"},
             Resolve(f, resolution, selected)
      PROVE  RecordInv'
  <2>1. ControlTypeOK /\ Told(st)
    BY <1>3, InvParts, ToldRows DEF ControlOK, Resolve, decisionVars
  <2>2. PICK requests : Await(f, ResolveLabel(resolution), st, {}, requests)
    BY <1>3 DEF Resolve
  <2>3. Moves(f, st)
    BY <2>1, <2>2, AwaitMoves DEF ResolveLabel
  <2> QED
    BY <1>1, <2>1, <2>3, FiberRecords
<1> QED
  BY <1>2, <1>3

\* The steps towards the decision.
LEMMA DecidersKeep ==
  ASSUME Inv, RecordInv, NEW f \in Fibers,
         \/ Admit(f) \/ Reserved(f) \/ PrepareSucceeds(f) \/ Decide(f)
         \/ DecideAbort(f)
  PROVE  RecordInv'
<1>1. Goes
  BY DecidersGo
<1>2. /\ Told("new") /\ Told("manifest_reserving") /\ Told("prepared")
      /\ Told("commit_deciding") /\ Told("abort_decided")
  BY DEF Told
<1>3. CASE Admit(f)
  <2>1. CASE st = "new"
    BY <1>1, <1>2, <1>3, <2>1, ResumeRecords DEF Admit
  <2>2. CASE st # "new"
    <3>1. Told(Row)
      BY <1>3, <2>2, ToldRows DEF Admit, decisionVars
    <3> QED
      BY <1>1, <1>3, <2>2, <3>1, ResumeRecords DEF Admit
  <2> QED
    BY <2>1, <2>2
<1>4. CASE Reserved(f)
  <2>1. reply[f] = "ok" => Told("preparing")
    BY <1>4 DEF RecordInv, AnswerOK, Reserved, Told
  <2> QED
    BY <1>1, <1>2, <1>4, <2>1, ReturnRecords, ResumeRecords, GotoRecords
       DEF Reserved
<1>5. CASE PrepareSucceeds(f)
  <2>1. CASE st = "preparing"
    BY <1>1, <1>2, <1>5, <2>1, ResumeRecords DEF PrepareSucceeds
  <2>2. CASE st # "preparing"
    <3>1. Told(Row)
      BY <1>5, <2>2, ToldRows DEF PrepareSucceeds
    <3> QED
      BY <1>1, <1>5, <2>2, <3>1, ResumeRecords DEF PrepareSucceeds
  <2> QED
    BY <2>1, <2>2
<1>6. CASE Decide(f)
  BY <1>1, <1>2, <1>6, ResumeRecords DEF Decide
<1>7. CASE DecideAbort(f)
  BY <1>1, <1>2, <1>7, ResumeRecords DEF DecideAbort
<1> QED
  BY <1>3, <1>4, <1>5, <1>6, <1>7

\* The steps that carry a commit out.
LEMMA CommittersKeep ==
  ASSUME Inv, RecordInv, NEW f \in Fibers,
         \/ Finalized(f) \/ SendCommit(f) \/ CommitAcknowledged(f)
         \/ CommitUnacknowledged(f) \/ ResolvedFinalized(f)
  PROVE  RecordInv'
<1>1. Goes
  BY CommittersGo
<1>2. Told("manifest_registered")
  BY DEF Told
<1>4. CASE Finalized(f)
  BY <1>1, <1>2, <1>4, ReturnRecords, ExclusivelyRecords DEF Finalized
<1>5. CASE SendCommit(f)
  <2>1. CASE Call(f, "commit", "commit")
    BY <1>1, <2>1, CallRecords
  <2>2. CASE Return(f)
    BY <1>1, <2>2, ReturnRecords
  <2>3. CASE \/ UNCHANGED st /\ Goto(f, "commit_gate", Row)
             \/ UNCHANGED st /\ ResumeRecoveryOnce(f, seen[f])
    <3>1. Told(Row) /\ Told(seen[f])
      BY <2>3, ToldRows
    <3> QED
      BY <1>1, <2>3, <3>1, GotoRecords, ResumeRecords
  <2> QED
    BY <1>5, <2>1, <2>2, <2>3 DEF SendCommit
<1>6. CASE CommitAcknowledged(f) \/ CommitUnacknowledged(f)
  <2>1. CASE Return(f)
    BY <1>1, <2>1, ReturnRecords
  <2>2. CASE UNCHANGED st /\ ResumeRecoveryOnce(f, Row)
    <3>1. Told(Row)
      BY <2>2, ToldRows
    <3> QED
      BY <1>1, <2>2, <3>1, ResumeRecords
  <2> QED
    BY <1>6, <2>1, <2>2 DEF CommitAcknowledged, CommitUnacknowledged
<1>7. CASE ResolvedFinalized(f)
  <2>1. CASE Return(f)
    BY <1>1, <2>1, ReturnRecords
  <2>2. CASE UNCHANGED st /\ Exclusively(f, "commit_gate", st)
    <3>1. Told(st)
      BY <2>2, ToldRows
    <3> QED
      BY <1>1, <2>2, <3>1, ExclusivelyRecords
  <2>3. CASE Exclusively(f, "commit_gate", "manifest_registered")
    BY <1>1, <1>2, <2>3, ExclusivelyRecords
  <2> QED
    BY <1>7, <2>1, <2>2, <2>3 DEF ResolvedFinalized
<1> QED
  BY <1>4, <1>5, <1>6, <1>7

\* The steps that carry an abort out; the cancel is sent only for a row that
\* exists.
LEMMA AbortersKeep ==
  ASSUME Inv, RecordInv, NEW f \in Fibers,
         \/ SendAbort(f) \/ AbortAcknowledged(f) \/ ReservedAgain(f)
         \/ Cancelled(f) \/ ResolvedCancelled(f)
  PROVE  RecordInv'
<1>1. Goes
  BY AbortersGo
<1>2. Told("aborted_pending_manifest_cancel")
  BY DEF Told
<1>3. CASE SendAbort(f)
  <2>1. CASE Call(f, "undo", "abort")
    BY <1>1, <2>1, CallRecords
  <2>2. CASE UNCHANGED st /\ (Resume(f, Row) \/ Resume(f, seen[f]))
    <3>1. Told(Row) /\ Told(seen[f])
      BY <2>2, ToldRows
    <3> QED
      BY <1>1, <2>2, <3>1, ResumeRecords
  <2> QED
    BY <1>3, <2>1, <2>2 DEF SendAbort
<1>4. CASE AbortAcknowledged(f)
  <2>1. CASE Exclusively(f, "cancel_gate", "aborted_pending_manifest_cancel")
    BY <1>1, <1>2, <2>1, ExclusivelyRecords
  <2>2. CASE UNCHANGED st /\ Resume(f, Row)
    <3>1. Told(Row)
      BY <2>2, ToldRows
    <3> QED
      BY <1>1, <2>2, <3>1, ResumeRecords
  <2> QED
    BY <1>4, <2>1, <2>2 DEF AbortAcknowledged
<1>5. CASE ReservedAgain(f) \/ Cancelled(f)
  <2>1. CASE Return(f)
    BY <1>1, <2>1, ReturnRecords
  <2>2. CASE /\ RowExists /\ Call(f, "cancel", "cancel")
    <3> USE DEF OthersUnchanged, participantVars, manifestVars
    <3>1. OthersUnchanged /\ UNCHANGED RowExists /\ ControlTypeOK
          /\ AlarmHasWork /\ ReservedFirst
      BY <2>2, InvParts DEF Call, Await, RowExists, ControlOK, RecordInv
    <3>2. AlarmHasWork'
      BY <2>2, <3>1 DEF Call, Await, AlarmHasWork
    <3>3. ReservedFirst'
      BY <2>2, <3>1 DEF ReservedFirst
    <3>4. ASSUME NEW g \in Fibers PROVE (AnswerOK(g) /\ MemoryOK(g))'
      <4>1. AnswerOK(g) /\ MemoryOK(g) /\ (st = "committed" => st' = st)
        BY <1>1, <3>1, GoesKeeps DEF RecordInv
      <4>2. CASE Rests(g)
        BY <3>1, <4>1, <4>2 DEF Rests, AnswerOK, MemoryOK
      <4>3. CASE GoesOn(g, "new") /\ pc'[g] = "cancel"
        BY <4>3 DEF GoesOn, AnswerOK, MemoryOK
      <4> QED
        BY <2>2, <3>1, <4>2, <4>3
           DEF Call, Await, Rests, GoesOn, ControlTypeOK
    <3> QED
      BY <1>1, <3>1, <3>2, <3>3, <3>4, GoesKeeps DEF RecordInv
  <2>3. AnswerOK(f)
    BY DEF RecordInv
  <2> QED
    BY <1>5, <2>1, <2>2, <2>3 DEF ReservedAgain, Cancelled, CancelUnavailable,
       ParkCancel, FinishAbort, AnswerOK
<1>6. CASE ResolvedCancelled(f)
  <2>1. CASE Return(f)
    BY <1>1, <2>1, ReturnRecords
  <2>2. CASE UNCHANGED st /\ Resume(f, st)
    <3>1. Told(st)
      BY <2>2, ToldRows
    <3> QED
      BY <1>1, <2>2, <3>1, ResumeRecords
  <2> QED
    BY <1>6, <2>1, <2>2 DEF ResolvedCancelled
<1> QED
  BY <1>3, <1>4, <1>5, <1>6

\* No step of a fiber breaks the record.
LEMMA FiberStepRecords ==
  ASSUME Inv, RecordInv, NEW f \in Fibers, FiberStep(f) \/ ResolveStep(f)
  PROVE  RecordInv'
BY ReadersKeep, AlarmKeeps, ForwardersKeep, DecidersKeep, CommittersKeep,
   AbortersKeep DEF FiberStep, ResolveStep

-----------------------------------------------------------------------------
(* The steps of the shards, of the manifest, and the restart.              *)

\* A shard's step is one of the participant, whose intents, once applied,
\* stay applied, and whose tombstone stays.
LEMMA ShardEffect ==
  ASSUME Inv, ShardNext
  PROVE  /\ UNCHANGED <<decisionVars, recoveryVars, pc, seen, reply, excl,
                        alarmer, act, networkVars, manifestVars>>
         /\ \A s \in Shards : intents[s] = "committed"
              => intents'[s] = "committed"
         /\ \A s \in Shards : tombstone[s] # "none"
              => tombstone'[s] = tombstone[s]
<1> PICK s \in Shards :
      PrepareArrives(s) \/ CommitArrives(s) \/ AbortArrives(s) \/ Sweep(s)
  BY DEF ShardNext
<1>1. UNCHANGED <<decisionVars, recoveryVars, pc, seen, reply, excl, alarmer,
                  act, networkVars, manifestVars>>
  BY DEF PrepareArrives, CommitArrives, AbortArrives, Sweep,
     unchangedByShards
<1>2. ParticipantNext
  BY DEF PrepareArrives, CommitArrives, AbortArrives, Sweep, StatusAnswer,
     ParticipantNext
<1>3. ParticipantInv /\ ParticipantTypeOK
  BY DEF Inv, ParticipantInv
<1>4. \A p \in Shards : tombstone[p] # "none" => tombstone'[p] = tombstone[p]
  BY <1>2, <1>3, TombstoneStep
<1>5. ASSUME NEW p \in Shards, intents[p] = "committed"
      PROVE  intents'[p] = "committed"
  BY <1>2, <1>3, <1>5 DEF ParticipantNext, ParticipantInv, ParticipantTypeOK,
     LocksFollowIntents, SweepHoldsIntents, HandlePrepare, HandleCommit,
     HandleCommitApplyThrows, HandleAbort, SweepAsk, SweepCommit, SweepAbort,
     SweepFails, ApplyCommittedIntents, DiscardIntents, participantVars
<1> QED
  BY <1>1, <1>4, <1>5

\* Intents appear only where a prepare was sent.
LEMMA IntentsAppear ==
  ASSUME Inv, RecordInv, ShardNext, NEW p \in Shards, intents'[p] # "none"
  PROVE  RowExists
<1> PICK s \in Shards :
      PrepareArrives(s) \/ CommitArrives(s) \/ AbortArrives(s) \/ Sweep(s)
  BY DEF ShardNext
<1>1. /\ ParticipantTypeOK /\ SweepHoldsIntents
      /\ "prepare" \in msgs => RowExists
      /\ intents[p] # "none" => RowExists
  BY DEF Inv, ParticipantInv, RecordInv, ReservedFirst
<1>2. CASE PrepareArrives(s)
  BY <1>1, <1>2 DEF PrepareArrives
<1>3. CASE CommitArrives(s)
  BY <1>1, <1>3 DEF CommitArrives, HandleCommit, HandleCommitApplyThrows,
     ApplyCommittedIntents, ParticipantTypeOK, participantVars
<1>4. CASE AbortArrives(s)
  BY <1>1, <1>4 DEF AbortArrives, HandleAbort, DiscardIntents,
     ParticipantTypeOK
<1>5. CASE Sweep(s)
  BY <1>1, <1>5 DEF Sweep, SweepAsk, SweepCommit, SweepAbort, SweepFails,
     ApplyCommittedIntents, DiscardIntents, ParticipantTypeOK,
     SweepHoldsIntents
<1> QED
  BY <1>2, <1>3, <1>4, <1>5

\* An acknowledgement of /commit means applied intents, one of /abort an
\* abort tombstone.
LEMMA AcksAreTrue ==
  ASSUME Inv, RecordInv, ShardNext, NEW g \in Fibers, NEW p \in acks'[g]
  PROVE  /\ pc[g] = "commit" => intents'[p] = "committed"
         /\ pc[g] = "undo" => tombstone'[p] = "abort"
<1>1. /\ AnswerOK(g) /\ acks \in [Fibers -> SUBSET Shards]
      /\ ParticipantTypeOK
  BY DEF RecordInv, Inv, TypeOK
<1>2. CASE p \in acks[g]
  BY <1>1, <1>2, ShardEffect DEF AnswerOK
<1>3. CASE p \notin acks[g]
  <2> PICK s \in Shards :
        PrepareArrives(s) \/ CommitArrives(s) \/ AbortArrives(s) \/ Sweep(s)
    BY DEF ShardNext
  <2>1. ASSUME NEW label, Acknowledge(label, s)
        PROVE  p = s /\ pc[g] = label
    BY <1>1, <1>3, <2>1 DEF Acknowledge
  <2>2. CASE PrepareArrives(s)
    BY <2>1, <2>2 DEF PrepareArrives
  <2>3. CASE CommitArrives(s)
    <3>1. HandleCommit(s) /\ p = s /\ pc[g] = "commit"
      BY <1>3, <2>1, <2>3 DEF CommitArrives
    <3>2. tombstone[s] = "commit" => intents[s] # "none"
      BY DEF Inv, OutcomesFollow, RowsAgree, VotesHeld, Holds
    <3> QED
      BY <1>1, <3>1, <3>2 DEF HandleCommit, ApplyCommittedIntents,
         ParticipantTypeOK, participantVars
  <2>4. CASE AbortArrives(s)
    BY <1>1, <2>1, <2>4 DEF AbortArrives, HandleAbort, PersistTombstone,
       ParticipantTypeOK
  <2>5. CASE Sweep(s)
    BY <1>3, <2>5 DEF Sweep
  <2> QED
    BY <2>2, <2>3, <2>4, <2>5
<1> QED
  BY <1>2, <1>3

\* The shards keep the record.
LEMMA ShardRecords ==
  ASSUME Inv, RecordInv, ShardNext
  PROVE  RecordInv'
<1> USE DEF decisionVars, recoveryVars, networkVars, manifestVars
<1>1. /\ UNCHANGED <<decisionVars, recoveryVars, pc, seen, reply, excl,
                     alarmer, act, networkVars, manifestVars>>
      /\ UNCHANGED RowExists
  BY ShardEffect DEF RowExists
<1>2. NoSpuriousQuarantine' /\ DecidedWorkIsQueued' /\ AlarmHasWork'
  BY <1>1 DEF RecordInv, NoSpuriousQuarantine, DecidedWorkIsQueued,
     AlarmHasWork
<1>3. ReservedFirst'
  BY <1>1, IntentsAppear DEF RecordInv, ReservedFirst
<1>4. EndsReached'
  BY <1>1, ShardEffect DEF RecordInv, EndsReached
<1>5. ASSUME NEW g \in Fibers PROVE (AnswerOK(g) /\ MemoryOK(g))'
  <2>1. AnswerOK(g) /\ MemoryOK(g)
    BY DEF RecordInv
  <2>2. /\ pc[g] = "commit"
             => \A s \in acks'[g] : intents'[s] = "committed"
        /\ pc[g] = "undo"
             => \A s \in acks'[g] : tombstone'[s] = "abort"
    BY AcksAreTrue
  <2> QED
    BY <1>1, <2>1, <2>2 DEF AnswerOK, MemoryOK
<1> QED
  BY <1>2, <1>3, <1>4, <1>5 DEF RecordInv

\* A manifest row, once it is there, stays, and so do a closed row and a
\* quarantine's trace.
LEMMA ManifestEffect ==
  ASSUME Inv, ManifestNext
  PROVE  /\ UNCHANGED <<decisionVars, recoveryVars, pc, seen, acks, excl,
                        alarmer, act, networkVars, participantVars>>
         /\ RowExists => RowExists'
         /\ \A r \in {"REFUSED", "CANCELLED"} : mrow = r => mrow' = r
         /\ mq # "NONE" => mq' # "NONE"
<1>1. UNCHANGED <<decisionVars, recoveryVars, pc, seen, acks, excl, alarmer,
                  act, networkVars, participantVars>>
  BY DEF ManifestNext, ManifestAnswers, ManifestResolves, ManifestConflict,
     unchangedByManifest
<1>2. /\ RowExists => RowExists'
      /\ \A r \in {"REFUSED", "CANCELLED"} : mrow = r => mrow' = r
      /\ mq # "NONE" => mq' # "NONE"
  BY DEF Inv, TypeOK, ManifestNext, ManifestAnswers, ManifestResolves,
     ManifestConflict, Reserve, Finalize, Cancel, Terminate, ReleaseV2,
     ResolveQuarantine, Selects, ReserveOtherContent, RowExists,
     ResolutionRequest
<1> QED
  BY <1>1, <1>2

\* A fiber is answered what the manifest did.
LEMMA AnswersAreTrue ==
  ASSUME Inv, RecordInv, ManifestNext, NEW g \in Fibers
  PROVE  AnswerOK(g)'
<1>1. /\ AnswerOK(g) /\ reply \in [Fibers -> ManifestReply]
      /\ "cancel" \in msgs => RowExists
      /\ "finalize" \in msgs => RowExists
  BY DEF RecordInv, Inv, TypeOK, ReservedFirst, MessagesOK
<1>2. CASE reply'[g] = reply[g]
  BY <1>1, <1>2, ManifestEffect DEF AnswerOK, participantVars
<1>3. CASE reply'[g] # reply[g]
  <2>1. CASE ManifestAnswers
    <3> PICK r \in ManifestReply \ {"none"} :
         \/ /\ "reserve" \in msgs /\ Reserve(r)
            /\ Answer({"reserve", "cancel_reserve"}, r)
         \/ /\ "finalize" \in msgs /\ Finalize(r)
            /\ Answer({"finalize"}, r)
         \/ /\ "cancel" \in msgs /\ Cancel(r)
            /\ Answer({"cancel"}, r)
         \/ /\ "release" \in msgs /\ ReleaseV2(r)
            /\ Answer({"release"}, r)
      BY <2>1 DEF ManifestAnswers
    <3>1. ASSUME NEW labels, Answer(labels, r)
          PROVE  pc[g] \in labels /\ reply'[g] = r
      BY <1>1, <1>3, <3>1 DEF Answer
    <3>2. CASE Reserve(r) /\ Answer({"reserve", "cancel_reserve"}, r)
      <4>1. /\ r = "ok" => RowExists'
            /\ r = "refused" => mrow' = "REFUSED"
            /\ r \in {"quarantined", "conflict"} => mq' # "NONE"
        BY <3>2 DEF Reserve, RowExists
      <4> QED
        BY <1>1, <3>1, <3>2, <4>1, ManifestEffect DEF AnswerOK
    <3>3. CASE /\ "finalize" \in msgs /\ Finalize(r)
               /\ Answer({"finalize"}, r)
      <4>1. r \in {"quarantined", "conflict"} => mq' # "NONE"
        BY <1>1, <3>3 DEF Finalize, Terminate
      <4> QED
        BY <1>1, <3>1, <3>3, <4>1, ManifestEffect DEF AnswerOK
    <3>4. CASE "cancel" \in msgs /\ Cancel(r) /\ Answer({"cancel"}, r)
      <4>1. /\ r \in {"quarantined", "conflict"} => mq' # "NONE"
            /\ r = "ok" => mrow' = "CANCELLED"
        BY <1>1, <3>4 DEF Cancel, Terminate
      <4> QED
        BY <1>1, <3>1, <3>4, <4>1, ManifestEffect DEF AnswerOK
    <3>5. CASE ReleaseV2(r) /\ Answer({"release"}, r)
      BY <1>1, <3>1, <3>5, ManifestEffect DEF AnswerOK
    <3> QED
      BY <3>2, <3>3, <3>4, <3>5
  <2>2. CASE ManifestResolves
    <3> PICK request \in resolveReqs, r \in {"ok", "conflict"} :
          /\ ResolveQuarantine(request, r)
          /\ \/ UNCHANGED reply
             \/ \E f \in Fibers :
                  /\ pc[f] = ResolveLabel(request.resolution)
                  /\ seen[f] = request.attested /\ reply[f] = "none"
                  /\ reply' = [reply EXCEPT ![f] = r]
      BY <2>2 DEF ManifestResolves
    <3>1. /\ pc[g] = ResolveLabel(request.resolution)
          /\ seen[g] = request.attested /\ reply'[g] = r
      BY <1>1, <1>3
    <3>2. request \in ResolutionRequest
      BY DEF Inv, TypeOK
    <3>3. r = "ok" => /\ AuthorizesResolution(request)
                      /\ mrow' = request.resolution
      BY DEF ResolveQuarantine
    <3>4. UNCHANGED <<pc, seen>>
      BY ManifestEffect
    <3> QED
      BY <3>1, <3>2, <3>3, <3>4, ManifestEffect
         DEF AnswerOK, ResolveLabel, AuthorizesResolution, ResolutionRequest
  <2>3. CASE ManifestConflict
    BY <1>3, <2>3 DEF ManifestConflict
  <2> QED
    BY <2>1, <2>2, <2>3 DEF ManifestNext
<1> QED
  BY <1>2, <1>3

\* The manifest keeps the record.
LEMMA ManifestRecords ==
  ASSUME Inv, RecordInv, ManifestNext
  PROVE  RecordInv'
<1> USE DEF decisionVars, recoveryVars, networkVars, participantVars
<1>1. NoSpuriousQuarantine' /\ DecidedWorkIsQueued' /\ AlarmHasWork'
  BY ManifestEffect DEF RecordInv, NoSpuriousQuarantine, DecidedWorkIsQueued,
     AlarmHasWork
<1>2. ReservedFirst'
  BY ManifestEffect DEF RecordInv, ReservedFirst
<1>3. EndsReached'
  BY ManifestEffect DEF RecordInv, EndsReached
<1>4. ASSUME NEW g \in Fibers PROVE MemoryOK(g)'
  BY ManifestEffect DEF RecordInv, MemoryOK
<1> QED
  BY <1>1, <1>2, <1>3, <1>4, AnswersAreTrue DEF RecordInv

\* A restart loses the fibers and no record.
LEMMA RestartRecords ==
  ASSUME Inv, RecordInv, Restart
  PROVE  RecordInv'
<1> USE DEF decisionVars, networkVars, OthersUnchanged, participantVars,
            manifestVars
<1>1. NoSpuriousQuarantine' /\ DecidedWorkIsQueued' /\ AlarmHasWork'
  BY DEF RecordInv, NoSpuriousQuarantine, DecidedWorkIsQueued, AlarmHasWork,
     Restart
<1>2. ReservedFirst' /\ EndsReached'
  BY DEF RecordInv, ReservedFirst, EndsReached, RowExists, Restart
<1>3. ASSUME NEW g \in Fibers PROVE (AnswerOK(g) /\ MemoryOK(g))'
  BY DEF Restart, AnswerOK, MemoryOK
<1> QED
  BY <1>1, <1>2, <1>3 DEF RecordInv

\* Nothing is recorded at first.
LEMMA RecordInitially == Init => RecordInv
BY DEF Init, ParticipantInit, ManifestInit, RecordInv, NoSpuriousQuarantine,
   DecidedWorkIsQueued, ReservedFirst, EndsReached, AlarmHasWork, AnswerOK,
   MemoryOK

\* Every step keeps the record.
LEMMA RecordStep == Inv /\ RecordInv /\ [Next]_vars => RecordInv'
<1> SUFFICES ASSUME Inv, RecordInv, [Next]_vars PROVE RecordInv'
  OBVIOUS
<1>1. CASE Next
  BY <1>1, FiberStepRecords, ShardRecords, ManifestRecords, RestartRecords
     DEF Next, CoordinatorNext
<1>2. CASE UNCHANGED vars
  BY <1>2 DEF vars, coordinatorVars, decisionVars, recoveryVars, fiberVars,
     networkVars, participantVars, manifestVars, RecordInv,
     NoSpuriousQuarantine, DecidedWorkIsQueued, ReservedFirst, EndsReached,
     AlarmHasWork, AnswerOK, MemoryOK, RowExists
<1> QED
  BY <1>1, <1>2

-----------------------------------------------------------------------------
(* The theorems about the record.                                          *)

\* The durable record of the coordinator agrees with the participants and the
\* manifest.
LEMMA Recorded == Spec => [](Inv /\ RecordInv)
BY Initially, StepKeeps, RecordInitially, RecordStep, PTL DEF Spec

\* An aborted transaction left nothing behind and closed its reservation, and
\* a committed one, or a recorded acknowledgement, is an application: no lost,
\* late or repeated answer is taken for another one.
THEOREM RecordsTrue == Spec => []RecordsAreTrue
<1>1. ASSUME Inv, RecordInv PROVE RecordsAreTrue
  <2>1. LocksFollowIntents /\ AppliedAtMostOnce /\ RowsAgree /\ EndsReached
        /\ ReservedFirst /\ ParticipantTypeOK
    BY <1>1 DEF Inv, RecordInv, ParticipantInv
  <2>2. ASSUME st = "aborted", NEW s \in Shards PROVE intents[s] = "none"
    BY <2>1, <2>2 DEF EndsReached, LocksFollowIntents, RowsAgree, RowExists,
       ReservedFirst
  <2> QED
    BY <2>1, <2>2 DEF RecordsAreTrue, EndsReached, LocksFollowIntents,
       AppliedAtMostOnce, ParticipantTypeOK
<1> QED
  BY <1>1, Recorded, PTL

\* Retries, late answers and races alone never quarantine a transaction or
\* park its cancellation.
THEOREM QuarantineHasEvidence == Spec => []NoSpuriousQuarantine
<1>1. RecordInv => NoSpuriousQuarantine
  BY DEF RecordInv
<1> QED
  BY <1>1, Recorded, PTL

\* Whichever fiber wrote the queue last, a decided transaction keeps its
\* forward work.
THEOREM WorkIsQueued == Spec => []DecidedWorkIsQueued
<1>1. RecordInv => DecidedWorkIsQueued
  BY DEF RecordInv
<1> QED
  BY <1>1, Recorded, PTL

\* With the coordinator as their environment, the participants still hold
\* locks exactly as long as prepared intents.
THEOREM LocksHeldInSystem == Spec => []LocksFollowIntents
<1>1. Inv => LocksFollowIntents
  BY DEF Inv, ParticipantInv
<1> QED
  BY <1>1, Invariance, PTL

\* A fiber's step goes by RowMoves and leaves the others alone.
LEMMA FiberGoes ==
  ASSUME Inv, RecordInv, NEW f \in Fibers, FiberStep(f) \/ ResolveStep(f)
  PROVE  RowMoves
BY ReadersGo, DecidersGo, CommittersGo, AbortersGo
   DEF FiberStep, ResolveStep, Goes

\* The moves of the row are in the contract's table.
LEMMA MovesAreLegal ==
  ASSUME TypeOK, RowMoves
  PROVE  IsTransitionAllowed(st, st')
BY DEF TypeOK, RowMoves, IsTransitionAllowed, DirectTransitions,
   ForwardTransitions, TxState, CommitDecidedOrLater, CommitAuthorized

\* Every change of the row, by whichever request, alarm or resolution and
\* after whatever it waited for, is a transition the contract allows: the
\* throw in transition() is unreachable.
THEOREM StepsAreLegal == Spec => LegalSteps
<1>1. Inv /\ RecordInv /\ [Next]_vars => [IsTransitionAllowed(st, st')]_vars
  <2> SUFFICES ASSUME Inv, RecordInv, Next
               PROVE  IsTransitionAllowed(st, st')
    OBVIOUS
  <2>1. TypeOK
    BY DEF Inv
  <2>2. CASE CoordinatorNext
    BY <2>1, <2>2, FiberGoes, MovesAreLegal DEF CoordinatorNext
  <2>3. CASE ShardNext \/ ManifestNext \/ Restart
    BY <2>3, ShardEffect, ManifestEffect
       DEF Restart, decisionVars, IsTransitionAllowed
  <2> QED
    BY <2>2, <2>3 DEF Next
<1> QED
  BY <1>1, Recorded, PTL DEF Spec, LegalSteps

-----------------------------------------------------------------------------
(* The refinement: every step is one of AtomicCommit, or a stutter.        *)

\* A step that changes neither the verdict, nor a part, nor what the client
\* was told stutters.
LEMMA Stutters ==
  ASSUME UNCHANGED <<Verdict, Parts, ClientTold>>
  PROVE  [AC!Next]_AC!vars
BY DEF AC!vars

\* The initial states are those of the abstract transaction.
LEMMA RefinesInit == Init => AC!Init
BY DEF Init, ParticipantInit, AC!Init, Verdict, Parts, ClientTold

\* A fiber's step leaves the parts alone.
LEMMA SameParts ==
  ASSUME OthersUnchanged
  PROVE  UNCHANGED Parts
BY DEF OthersUnchanged, participantVars, Parts

\* No control operator touches the participants or the manifest.
LEMMA ControlLeavesOthers ==
  ASSUME NEW f, NEW row
  PROVE  /\ Return(f) => OthersUnchanged
         /\ Throw(f) => OthersUnchanged
         /\ \A label, message : Call(f, label, message) => OthersUnchanged
         /\ \A label : Goto(f, label, row) => OthersUnchanged
         /\ \A label : Exclusively(f, label, row) => OthersUnchanged
         /\ Resume(f, row) => OthersUnchanged
         /\ ResumeRecoveryOnce(f, row) => OthersUnchanged
BY DEF Return, Throw, Call, Goto, Await, Exclusively, Resume,
       ResumeRecoveryOnce

\* So a fiber's step reaches the others only by its messages.
LEMMA FiberLeavesOthers ==
  ASSUME NEW f \in Fibers, FiberStep(f) \/ ResolveStep(f)
  PROVE  OthersUnchanged
<1>1. CASE FiberStep(f)
  BY <1>1, ControlLeavesOthers DEF FiberStep, Begin, Admit, BeginExisting,
     AlarmFire, AlarmWork, AlarmDeferred, ForceAbort, GateDenied, Reserved,
     ReservedLate, PrepareSucceeds, PrepareFails, DecideArm, Decide,
     DecideLate, Finalized, FinalizedLate, SendCommit, CommitAcknowledged,
     CommitUnacknowledged, Released, AbortArm, DecideAbort, DecideAbortLate,
     SendAbort, AbortAcknowledged, AbortUnacknowledged, SendReserveAgain,
     ReservedAgain, Cancelled, CancelLate, CancelUnavailable, ParkCancel,
     FinishAbort
<1>2. CASE ResolveStep(f)
  BY <1>2, ControlLeavesOthers DEF ResolveStep, Resolve, Await,
     ResolvedFinalized, ResolvedCancelled, ResolveFails
<1> QED
  BY <1>1, <1>2

\* The verdict is taken once, and the client is told what it says and every
\* participant has carried out.
LEMMA RowRefines ==
  ASSUME Inv, RecordInv, RowMoves, OthersUnchanged
  PROVE  [AC!Next]_AC!vars
<1> USE SameParts DEF Verdict, ClientTold
<1>0. /\ RowsAgree /\ VotesHeld /\ OutcomesFollow /\ ReservedFirst
      /\ EndsReached /\ LocksFollowIntents /\ RowOK(st)
      /\ ParticipantTypeOK
  BY DEF Inv, RecordInv, ParticipantInv, RowsAgree
<1>1. CASE /\ st = "prepared" /\ st' = "commit_deciding"
           /\ finReq' /\ UNCHANGED canReq
  <2>1. ~finReq /\ ~canReq
    BY <1>0, <1>1 DEF RowsAgree
  <2>2. ASSUME NEW s \in Shards PROVE Parts[s] = "prepared"
    <3>1. Holds(s) /\ tombstone[s] \notin {"commit", "abort"}
      BY <1>0, <1>1, <2>1 DEF VotesHeld, OutcomesFollow, RowsAgree, AbortSide
    <3> QED
      BY <1>0, <3>1 DEF Holds, LocksFollowIntents, Parts
  <2>3. AC!DecideCommit
    BY <1>1, <2>1, <2>2 DEF AC!DecideCommit
  <2> QED
    BY <2>3 DEF AC!Next
<1>2. CASE /\ st \in {"manifest_reserving", "preparing", "prepared"}
           /\ st' = "abort_decided" /\ canReq' /\ UNCHANGED finReq
  <2>1. ~finReq /\ ~canReq
    BY <1>0, <1>2 DEF RowsAgree
  <2>2. AC!DecideAbort
    BY <1>2, <2>1 DEF AC!DecideAbort
  <2> QED
    BY <2>2 DEF AC!Next
<1>3. CASE /\ UNCHANGED <<finReq, canReq>>
           /\ st = "manifest_reserving" /\ st' = "aborted"
           /\ mrow = "REFUSED"
  <2>1. ~finReq /\ ~canReq
    BY <1>0, <1>3 DEF RowsAgree
  <2>2. ASSUME NEW s \in Shards PROVE Parts[s] = "working"
    <3>1. intents[s] = "none" /\ tombstone[s] # "abort"
      BY <1>0, <1>3, <2>1
         DEF ReservedFirst, RowExists, OutcomesFollow, AbortSide
    <3> QED
      BY <3>1 DEF Parts
  <2>3. AC!Reject
    BY <1>3, <2>1, <2>2 DEF AC!Reject
  <2> QED
    BY <2>3 DEF AC!Next
<1>4. CASE /\ UNCHANGED <<finReq, canReq>>
           /\ st \in {"committing", "committed_pending_ack"}
           /\ st' = "committed"
           /\ \A s \in Shards : intents[s] = "committed"
  <2>1. finReq
    BY <1>0, <1>4 DEF RowOK, CommitDecidedOrLater, CommitAuthorized
  <2>2. \A s \in Shards : Parts[s] = "committed"
    BY <1>4 DEF Parts
  <2>3. AC!TellCommitted
    BY <1>4, <2>1, <2>2 DEF AC!TellCommitted
  <2> QED
    BY <2>3 DEF AC!Next
<1>5. CASE /\ UNCHANGED <<finReq, canReq>>
           /\ st \in {"aborted_pending_manifest_cancel", "quarantined"}
           /\ st' = "aborted" /\ canReq
  <2>1. ~finReq
    BY <1>0, <1>5 DEF RowsAgree
  <2>2. ASSUME NEW s \in Shards PROVE Parts[s] = "aborted"
    BY <1>0, <1>5 DEF EndsReached, LocksFollowIntents, Parts
  <2>3. AC!TellAborted
    BY <1>5, <2>1, <2>2 DEF AC!TellAborted
  <2> QED
    BY <2>3 DEF AC!Next
<1>6. CASE /\ UNCHANGED <<finReq, canReq>>
           /\ \/ UNCHANGED st
              \/ {st, st'} \cap {"committed", "aborted"} = {}
  BY <1>6, Stutters
<1> QED
  BY <1>1, <1>2, <1>3, <1>4, <1>5, <1>6
     DEF RowMoves, CommitDecidedOrLater, CommitAuthorized

\* What a shard does follows the verdict, and none prepares once the client
\* was told of an abort.
LEMMA ShardRefines ==
  ASSUME Inv, RecordInv, ShardNext
  PROVE  [AC!Next]_AC!vars
<1> PICK s \in Shards :
      PrepareArrives(s) \/ CommitArrives(s) \/ AbortArrives(s) \/ Sweep(s)
  BY DEF ShardNext
<1>0. /\ RowsAgree /\ MessagesOK /\ OutcomesFollow /\ ReservedFirst
      /\ EndsReached /\ LocksFollowIntents /\ SweepHoldsIntents
      /\ ParticipantTypeOK
  BY DEF Inv, RecordInv, ParticipantInv
<1>1. UNCHANGED <<Verdict, ClientTold>>
  BY ShardEffect DEF decisionVars, Verdict, ClientTold
<1>2. CASE UNCHANGED Parts
  BY <1>1, <1>2, Stutters
<1>3. CASE /\ "prepare" \in msgs /\ tombstone[s] = "none"
           /\ Parts[s] = "working"
           /\ Parts' = [Parts EXCEPT ![s] = "prepared"]
  <2>1. ClientTold = "nothing"
    <3>1. st # "committed"
      BY <1>0, <1>3 DEF EndsReached, Parts
    <3>2. st # "aborted"
      BY <1>0, <1>3 DEF EndsReached, ReservedFirst, RowExists, RowsAgree
    <3> QED
      BY <3>1, <3>2 DEF ClientTold
  <2> QED
    BY <1>1, <1>3, <2>1 DEF AC!Next, AC!Prepare
<1>4. CASE /\ mrow = "FINALIZED" /\ Parts[s] = "prepared"
           /\ Parts' = [Parts EXCEPT ![s] = "committed"]
  <2>1. Verdict = "commit"
    BY <1>0, <1>4 DEF RowsAgree, Verdict
  <2> QED
    BY <1>1, <1>4, <2>1 DEF AC!Next, AC!Commit
<1>5. CASE /\ AbortSide /\ Parts[s] \in {"working", "prepared"}
           /\ Parts' = [Parts EXCEPT ![s] = "aborted"]
  <2>1. Verdict = "abort"
    BY <1>0, <1>5 DEF RowsAgree, Verdict, AbortSide
  <2> QED
    BY <1>1, <1>5, <2>1 DEF AC!Next, AC!Abort
<1>6. CASE PrepareArrives(s)
  <2>1. CASE intents[s] = "none"
    <3>1. /\ "prepare" \in msgs /\ tombstone[s] = "none"
          /\ Parts[s] = "working"
          /\ Parts' = [Parts EXCEPT ![s] = "prepared"]
      BY <1>0, <1>6, <2>1 DEF PrepareArrives, HandlePrepare, Parts,
         ParticipantTypeOK
    <3> QED
      BY <1>3, <3>1
  <2>2. CASE intents[s] # "none"
    BY <1>0, <1>2, <1>6, <2>2 DEF PrepareArrives, HandlePrepare, Parts,
       ParticipantTypeOK, LocksFollowIntents
  <2> QED
    BY <2>1, <2>2
<1>7. CASE CommitArrives(s)
  <2>1. mrow = "FINALIZED"
    BY <1>0, <1>7 DEF CommitArrives, MessagesOK
  <2>2. CASE intents[s] = "prepared" /\ ApplyCommittedIntents(s)
    <3>0. /\ tombstone' = [tombstone EXCEPT ![s] = "commit"]
          /\ tombstone[s] # "abort"
      BY <1>0, <1>7, <2>2 DEF CommitArrives, HandleCommit,
         HandleCommitApplyThrows, PersistTombstone, MayDecide
    <3>1. /\ Parts[s] = "prepared"
          /\ Parts' = [Parts EXCEPT ![s] = "committed"]
      BY <1>0, <2>2, <3>0
         DEF ApplyCommittedIntents, Parts, ParticipantTypeOK
    <3> QED
      BY <1>4, <2>1, <3>1
  <2>3. CASE UNCHANGED intents
    <3>1. UNCHANGED Parts
      BY <1>0, <1>7, <2>3 DEF CommitArrives, HandleCommit,
         HandleCommitApplyThrows, PersistTombstone, MayDecide, Parts,
         ParticipantTypeOK, participantVars
    <3> QED
      BY <1>2, <3>1
  <2> QED
    BY <1>7, <2>2, <2>3 DEF CommitArrives, HandleCommit,
       HandleCommitApplyThrows, participantVars
<1>8. CASE \/ AbortArrives(s)
           \/ Sweep(s) /\ SweepAbort(s)
  <2>1. AbortSide
    BY <1>0, <1>8 DEF AbortArrives, MessagesOK, AbortSide, SweepAbort,
       OutcomesFollow
  <2>2. /\ intents' = [intents EXCEPT ![s] = "none"]
        /\ tombstone' = [tombstone EXCEPT ![s] = "abort"]
        /\ intents[s] # "committed"
    BY <1>0, <1>8 DEF AbortArrives, HandleAbort, SweepAbort, DiscardIntents,
       PersistTombstone, SweepHoldsIntents
  <2>3. Parts' = [Parts EXCEPT ![s] = "aborted"]
    BY <1>0, <2>2 DEF Parts, ParticipantTypeOK
  <2>4. CASE Parts[s] = "aborted"
    <3>1. UNCHANGED Parts
      BY <2>3, <2>4 DEF Parts
    <3> QED
      BY <1>2, <3>1
  <2>5. CASE Parts[s] # "aborted"
    <3>1. Parts[s] \in {"working", "prepared"}
      BY <2>2, <2>5 DEF Parts
    <3> QED
      BY <1>5, <2>1, <2>3, <3>1
  <2> QED
    BY <2>4, <2>5
<1>9. CASE Sweep(s) /\ SweepCommit(s)
  <2>1. mrow = "FINALIZED" /\ intents[s] = "prepared"
    BY <1>0, <1>9 DEF SweepCommit, OutcomesFollow, SweepHoldsIntents
  <2>2. /\ Parts[s] = "prepared"
        /\ Parts' = [Parts EXCEPT ![s] = "committed"]
    BY <1>0, <1>9, <2>1 DEF SweepCommit, ApplyCommittedIntents,
       PersistTombstone, MayDecide, Parts, ParticipantTypeOK,
       LocksFollowIntents
  <2> QED
    BY <1>4, <2>1, <2>2
<1>10. CASE Sweep(s) /\ ~SweepCommit(s) /\ ~SweepAbort(s)
  <2>1. UNCHANGED Parts
    BY <1>0, <1>10 DEF Sweep, SweepAsk, SweepFails, MayDecide,
       PersistTombstone, Parts, ParticipantTypeOK
  <2> QED
    BY <1>2, <2>1
<1> QED
  BY <1>6, <1>7, <1>8, <1>9, <1>10

\* Every step is one of the abstract transaction, or none of it.
LEMMA RefinesNext ==
  ASSUME Inv, RecordInv, [Next]_vars
  PROVE  [AC!Next]_AC!vars
<1>1. CASE CoordinatorNext
  <2> PICK f \in Fibers : FiberStep(f) \/ ResolveStep(f)
    BY <1>1 DEF CoordinatorNext
  <2>1. RowMoves
    BY FiberGoes
  <2>2. OthersUnchanged
    BY FiberLeavesOthers
  <2> QED
    BY <2>1, <2>2, RowRefines
<1>2. CASE ShardNext
  BY <1>2, ShardRefines
<1>3. CASE ManifestNext
  BY <1>3, ManifestEffect, Stutters
     DEF decisionVars, participantVars, Verdict, Parts, ClientTold
<1>4. CASE Restart
  BY <1>4, Stutters DEF Restart, OthersUnchanged, decisionVars,
     participantVars, Verdict, Parts, ClientTold
<1>5. CASE UNCHANGED vars
  BY <1>5, Stutters DEF vars, coordinatorVars, decisionVars, participantVars,
     Verdict, Parts, ClientTold
<1> QED
  BY <1>1, <1>2, <1>3, <1>4, <1>5 DEF Next

\* The whole protocol, with its late, repeated and lost messages, its alarms,
\* its sweeps and its restarts, is an atomic commitment.
THEOREM Implements == Spec => ImplementsAtomicCommit
<1>1. Inv /\ RecordInv /\ [Next]_vars => [AC!Next]_AC!vars
  BY RefinesNext
<1> QED
  BY <1>1, Recorded, RefinesInit, PTL DEF Spec, AC!Spec, ImplementsAtomicCommit
=============================================================================
