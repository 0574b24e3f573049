----------------------- MODULE VbucketMigrationProofs -----------------------
(***************************************************************************)
(* Proofs about VbucketMigration, for any shards, rows, requests and        *)
(* bounds.  The handler's next step says where the move stands; from that   *)
(* follows who owns a fence and which copy is deleted (ControlInv).  Where   *)
(* each mirror is, and what the cutover has looked at, says why the copy     *)
(* that is served is the one the accepted writes made (CopyInv).            *)
(***************************************************************************)
EXTENDS VbucketMigration, SequenceTheorems, WellFoundedInduction, TLAPS

CopySteps    == {"export", "import", "save"}
CutoverSteps == {"fence", "drain", "intents", "sums", "compare", "unfence",
                 "purge", "wipe", "rewind", "holds", "flip"}
AbortSteps   == {"abort unfence", "abort purge", "abort wipe", "clear"}
CleanupSteps == {"delete", "unfence source", "release"}

\* The steps that follow the lifting of a fence, up to the end of a handler.
LiftedSteps  == {"purge", "wipe", "rewind", "abort purge", "abort wipe", "clear",
                 "release"}

\* While a handler runs, the map is in the status its steps belong to.
HandlerFitsMap ==
    /\ handler.pc \in CopySteps => map.status = "backfilling"
    /\ handler.pc \in CutoverSteps => map.status = "cutover"
    /\ handler.pc \in AbortSteps => map.status = "aborting"
    /\ handler.pc \in CleanupSteps => map.cleanup # NoShard

\* A vbucket that moves has a target, and no source left to clean up.
MoveHasTarget ==
    map.status # "none" => map.target # NoShard /\ map.cleanup = NoShard

\* After its fence was lifted, a handler leaves no fence behind.
FenceIsLifted == handler.pc \in LiftedSteps => fenced = {}

\* While no lease lapses the call that was checked is the only one, finds the
\* map as it was checked, and moves the vbucket to another shard.
OneMover ==
    Undisturbed =>
        /\ map.target # map.shard /\ map.cleanup # map.shard
        /\ \A c \in calls : /\ lock # 0 /\ c.target # map.shard
                            /\ map.status = "none" /\ map.cleanup = NoShard
                            /\ calls = {c}

ControlInv == /\ HandlerFitsMap /\ MoveHasTarget /\ FencesAreOwned
              /\ FenceIsLifted /\ OneMover

MigrationInv == MigrationTypeOK /\ ControlInv

(* Copies: what the served shard holds.                                    *)

Ghosts == [truth : [Rows -> Values], stranded : SUBSET Writes, purged : SUBSET Writes,
           undrained : SUBSET Writes, landed : SUBSET Writes, late : SUBSET Writes]

Excused == ghost.purged \cup ghost.stranded \cup ghost.undrained

Items(q) == {q[i] : i \in DOMAIN q}
Batched(s) == Items(batch[s])
Known(s) == Queued(s) \cup Batched(s)

\* From its drain to its flip a cutover looks at no mirror any more, and from
\* its count of prepared intents on the source accepts no write.
DrainedSteps == {"intents", "sums", "compare", "holds", "flip"}
QuietSteps   == {"sums", "compare", "holds", "flip"}

\* A shard mirrors to others only.
MirrorsGoElsewhere ==
    /\ \A f \in flights : f.mirror # f.shard
    /\ \A s \in Shards : /\ \A i \in intents[s] : i.mirror # s
                         /\ \A job \in Known(s) : job.to # s

SourceIsQuiet ==
    /\ handler.pc \in DrainedSteps \cup {"drain"} => Routed \in fenced
    /\ handler.pc \in QuietSteps => intents[Routed] = {}

\* A mirror that its target has not run and that nothing excuses is queued at
\* the served shard, and the drain has yet to come.
Waits(s, job) == s = Routed /\ job \in Queued(s) /\ handler.pc \notin DrainedSteps

JobsAreAccounted ==
    \A s \in Shards : \A job \in Known(s) :
        job.write \in Excused \/ job.write \in mirrors[job.to] \/ Waits(s, job)

StraysAreExcused == ghost.late \cup ghost.landed \subseteq Excused

\* The served copy is true; the checksums that were taken still hold.
CopiesAgree ==
    ghost.late = {} =>
        /\ store[map.shard] = ghost.truth
        /\ handler.pc = "compare" =>
             /\ handler.side \in {map.shard, map.target}
             /\ handler.side = map.shard => handler.seen = store[map.shard]
             /\ handler.side = map.target /\ ghost.landed = {}
                  => handler.seen = store[map.target]
        /\ handler.pc \in {"holds", "flip"} /\ ghost.landed = {}
             => store[map.target] = store[map.shard]

CopyParts == /\ MirrorsGoElsewhere /\ SourceIsQuiet /\ JobsAreAccounted
             /\ StraysAreExcused /\ CopiesAgree

CopyInv == ghost \in Ghosts /\ (Undisturbed => CopyParts)

-----------------------------------------------------------------------------
(* Lemmas on numbers and sequences. *)

\* A set of naturals has a least element: Min picks one.
LEMMA MinIsLeast ==
  ASSUME NEW I \in SUBSET Nat, I # {}
  PROVE  Min(I) \in I /\ \A y \in I : Min(I) <= y
<1> DEFINE L == {ss \in Nat \X Nat : ss[1] < ss[2]}
<1>1. IsWellFoundedOn(L, Nat)
  BY NatLessThanWellFounded DEF OpToRel
<1> HIDE DEF L
<1>2. PICK x \in I : \A y \in I : ~(<<y, x>> \in L)
  BY <1>1, WFMin
<1>3. \A y \in I : ~(y < x)
  BY <1>2 DEF L
<1>4. \A y \in I : x <= y
  BY <1>3
<1> QED
  BY <1>4 DEF Min

\* A queue without the first of its jobs that equals e is a queue of jobs.
LEMMA RemoveFirstType ==
  ASSUME NEW S, NEW s \in Seq(S), NEW e
  PROVE  RemoveFirst(s, e) \in Seq(S)
<1> DEFINE I == {i \in 1 .. Len(s) : s[i] = e}
<1>1. CASE I = {}
  BY <1>1 DEF RemoveFirst
<1>2. CASE I # {}
  <2>1. I \in SUBSET Nat
    OBVIOUS
  <2>2. PICK m \in 1 .. Len(s) : m = Min(I)
    BY <1>2, <2>1, MinIsLeast
  <2>3. RemoveFirst(s, e) = SubSeq(s, 1, m - 1) \o SubSeq(s, m + 1, Len(s))
    BY <1>2, <2>2 DEF RemoveFirst, SelectInSeq, RemoveAt
  <2>4. SubSeq(s, 1, m - 1) \in Seq(S)
    BY SubSeqProperties, LenProperties
  <2>5. SubSeq(s, m + 1, Len(s)) \in Seq(S)
    BY SubSeqProperties, LenProperties
  <2> QED
    BY <2>3, <2>4, <2>5, ConcatProperties
<1> QED
  BY <1>1, <1>2

\* The items of a queue after one was appended.
LEMMA ItemsOfAppend ==
  ASSUME NEW S, NEW q \in Seq(S), NEW e \in S
  PROVE  Items(Append(q, e)) = Items(q) \cup {e}
<1>1. /\ DOMAIN Append(q, e) = 1 .. Len(q) + 1 /\ DOMAIN q = 1 .. Len(q) /\ Len(q) \in Nat
      /\ \A i \in 1 .. Len(q) : Append(q, e)[i] = q[i]
      /\ Append(q, e)[Len(q) + 1] = e
  BY AppendProperties, LenProperties
<1> HIDE DEF Items
<1>2. ASSUME NEW x \in Items(Append(q, e)) PROVE x \in Items(q) \cup {e}
  <2>1. PICK i \in 1 .. Len(q) + 1 : x = Append(q, e)[i]
    BY <1>1 DEF Items
  <2>2. i \in 1 .. Len(q) \/ i = Len(q) + 1
    BY <1>1
  <2> QED
    BY <1>1, <2>1, <2>2 DEF Items
<1>3. ASSUME NEW x \in Items(q) \cup {e} PROVE x \in Items(Append(q, e))
  <2>1. CASE x = e
    <3>1. Len(q) + 1 \in DOMAIN Append(q, e)
      BY <1>1
    <3> QED
      BY <1>1, <2>1, <3>1 DEF Items
  <2>2. CASE x # e
    <3>1. PICK i \in 1 .. Len(q) : x = q[i]
      BY <1>1, <2>2 DEF Items
    <3>2. i \in DOMAIN Append(q, e)
      BY <1>1
    <3> QED
      BY <1>1, <3>1, <3>2 DEF Items
  <2> QED
    BY <2>1, <2>2
<1> QED
  BY <1>2, <1>3

\* The items of a queue after the first was taken off.
LEMMA ItemsOfTail ==
  ASSUME NEW S, NEW q \in Seq(S), q # <<>>
  PROVE  Head(q) \in Items(q) /\ Items(Tail(q)) \subseteq Items(q)
<1>1. /\ Len(q) \in Nat /\ Len(q) # 0 /\ DOMAIN q = 1 .. Len(q) /\ Head(q) = q[1]
      /\ Len(Tail(q)) = Len(q) - 1 /\ DOMAIN Tail(q) = 1 .. Len(q) - 1
      /\ \A i \in 1 .. Len(q) - 1 : Tail(q)[i] = q[i + 1]
  BY HeadTailProperties, LenProperties, EmptySeq
<1>2. 1 \in DOMAIN q
  BY <1>1
<1>3. ASSUME NEW x \in Items(Tail(q)) PROVE x \in Items(q)
  <2>1. PICK i \in 1 .. Len(q) - 1 : x = Tail(q)[i]
    BY <1>1, <1>3 DEF Items
  <2>2. i + 1 \in DOMAIN q /\ x = q[i + 1]
    BY <1>1, <2>1
  <2> QED
    BY <2>2 DEF Items
<1> QED
  BY <1>1, <1>2, <1>3 DEF Items

\* Taking off an item leaves every other item.
LEMMA ItemsOfRemoveFirst ==
  ASSUME NEW S, NEW q \in Seq(S), NEW e
  PROVE  /\ Items(RemoveFirst(q, e)) \subseteq Items(q)
         /\ Items(q) \ {e} \subseteq Items(RemoveFirst(q, e))
<1> DEFINE I == {i \in 1 .. Len(q) : q[i] = e}
<1>1. CASE I = {}
  BY <1>1 DEF RemoveFirst
<1>2. CASE I # {}
  <2>1. I \in SUBSET Nat
    OBVIOUS
  <2>2. PICK m \in 1 .. Len(q) : m = Min(I) /\ q[m] = e
    BY <1>2, <2>1, MinIsLeast
  <2> DEFINE p == SubSeq(q, 1, m - 1)  r == SubSeq(q, m + 1, Len(q))
  <2>3. RemoveFirst(q, e) = p \o r
    BY <1>2, <2>2 DEF RemoveFirst, SelectInSeq, RemoveAt
  <2>4. Len(q) \in Nat /\ DOMAIN q = 1 .. Len(q)
    BY LenProperties
  <2>5. /\ p \in Seq(S) /\ Len(p) = m - 1
        /\ \A i \in 1 .. m - 1 : p[i] = q[i]
    BY <2>4, SubSeqProperties
  <2>6. /\ r \in Seq(S) /\ Len(r) = Len(q) - m
        /\ \A i \in 1 .. Len(q) - m : r[i] = q[m + i]
    <3>1. \A i \in m + 1 .. Len(q) : q[i] \in S
      BY <2>4, ElementOfSeq
    <3>2. /\ r \in Seq(S) /\ Len(r) = IF m + 1 <= Len(q) THEN Len(q) - (m + 1) + 1 ELSE 0
          /\ \A i \in 1 .. Len(q) - (m + 1) + 1 : r[i] = q[m + 1 + i - 1]
      BY <2>4, <3>1, SubSeqProperties
    <3>3. \A i \in 1 .. Len(q) - m : m + 1 + i - 1 = m + i
      BY <2>4
    <3>4. Len(q) - (m + 1) + 1 = Len(q) - m
      BY <2>4
    <3> HIDE DEF r
    <3>5. Len(r) = Len(q) - m
      BY <2>2, <2>4, <3>2
    <3> QED
      BY <3>2, <3>3, <3>4, <3>5
  <2> HIDE DEF p, r, I
  <2>7. /\ DOMAIN (p \o r) = 1 .. Len(q) - 1
        /\ \A i \in 1 .. Len(q) - 1 :
             (p \o r)[i] = IF i <= m - 1 THEN p[i] ELSE r[i - (m - 1)]
    <3>1. Len(p) + Len(r) = Len(q) - 1
      BY <2>4, <2>5, <2>6
    <3>2. p \o r \in Seq(S) /\ Len(p \o r) = Len(q) - 1
      BY <2>5, <2>6, <3>1, ConcatProperties
    <3>3. \A i \in 1 .. Len(q) - 1 :
            (p \o r)[i] = IF i <= Len(p) THEN p[i] ELSE r[i - Len(p)]
      BY <2>5, <2>6, <3>1, ConcatProperties
    <3> QED
      BY <2>5, <3>2, <3>3, LenProperties
  <2>8. \A i \in 1 .. Len(q) - 1 : (p \o r)[i] = IF i < m THEN q[i] ELSE q[i + 1]
    <3> SUFFICES ASSUME NEW i \in 1 .. Len(q) - 1
                 PROVE  (p \o r)[i] = IF i < m THEN q[i] ELSE q[i + 1]
      OBVIOUS
    <3>1. CASE i < m
      <4>1. i <= m - 1 /\ i \in 1 .. m - 1
        BY <2>4, <3>1
      <4> QED
        BY <2>5, <2>7, <3>1, <4>1
    <3>2. CASE ~(i < m)
      <4>1. i - (m - 1) \in 1 .. Len(q) - m /\ m + (i - (m - 1)) = i + 1 /\ ~(i <= m - 1)
        BY <2>4, <3>2
      <4> QED
        BY <2>6, <2>7, <3>2, <4>1
    <3> QED
      BY <3>1, <3>2
  <2>9. ASSUME NEW x \in Items(p \o r) PROVE x \in Items(q)
    <3>1. PICK i \in 1 .. Len(q) - 1 : x = (p \o r)[i]
      BY <2>7, <2>9 DEF Items
    <3>2. i \in DOMAIN q /\ i + 1 \in DOMAIN q
      BY <2>4
    <3> QED
      BY <2>8, <3>1, <3>2 DEF Items
  <2>10. ASSUME NEW x \in Items(q) \ {e} PROVE x \in Items(p \o r)
    <3>1. PICK i \in 1 .. Len(q) : x = q[i]
      BY <2>4, <2>10 DEF Items
    <3>2. i # m
      BY <2>2, <3>1, <2>10
    <3>3. CASE i < m
      <4>1. i \in 1 .. Len(q) - 1
        BY <2>4, <3>3
      <4> QED
        BY <2>7, <2>8, <3>1, <3>3, <4>1 DEF Items
    <3>4. CASE i > m
      <4>1. i - 1 \in 1 .. Len(q) - 1 /\ ~(i - 1 < m) /\ (i - 1) + 1 = i
        BY <2>4, <3>4
      <4> QED
        BY <2>7, <2>8, <3>1, <4>1 DEF Items
    <3> QED
      BY <3>2, <3>3, <3>4
  <2> QED
    BY <2>3, <2>9, <2>10
<1> QED
  BY <1>1, <1>2

-----------------------------------------------------------------------------
(* Types. *)

\* A statement turns rows into rows.
LEMMA RunType ==
  ASSUME NEW w \in Writes, NEW copy \in [Rows -> Values]
  PROVE  Run(w, copy) \in [Rows -> Values]
<1>1. Statement[w].value \in Values /\ Absent \in Values
  BY MigrationAssumption DEF Values
<1> QED
  BY <1>1 DEF Run

\* Applying a write at its shard keeps rows and queue well-formed.
LEMMA ApplyType ==
  ASSUME MigrationTypeOK, NEW s \in Shards, NEW w \in Writes,
         NEW m \in Shards \cup {NoShard}, Apply(s, w, m)
  PROVE  store' \in [Shards -> [Rows -> Values]] /\ queue' \in [Shards -> Seq(Jobs)]
<1>1. Run(w, store[s]) \in [Rows -> Values]
  BY RunType DEF MigrationTypeOK
<1>2. m # NoShard => Append(queue[s], [write |-> w, to |-> m]) \in Seq(Jobs)
  BY AppendProperties DEF MigrationTypeOK, Jobs
<1> QED
  BY <1>1, <1>2 DEF Apply, MigrationTypeOK

\* So does running a mirror at its target.
LEMMA MirrorType ==
  ASSUME MigrationTypeOK, NEW job \in Jobs, Mirror(job)
  PROVE  /\ store' \in [Shards -> [Rows -> Values]]
         /\ mirrors' \in [Shards -> SUBSET Writes]
         /\ requests' \in [Shards -> SUBSET Writes]
<1> DEFINE t == job.to  w == job.write
<1>1. t \in Shards /\ w \in Writes
  BY DEF Jobs
<1>2. Run(w, store[t]) \in [Rows -> Values]
  BY <1>1, RunType DEF MigrationTypeOK
<1>3. /\ mirrors[t] \cup {w} \in SUBSET Writes
      /\ requests[t] \cup {w} \in SUBSET Writes
  BY <1>1 DEF MigrationTypeOK
<1>4. CASE UNCHANGED <<store, mirrors, requests>>
  BY <1>4 DEF MigrationTypeOK
<1>5. CASE /\ store' = [store EXCEPT ![t] = Run(w, @)]
           /\ mirrors' = [mirrors EXCEPT ![t] = @ \cup {w}]
           /\ \/ requests' = [requests EXCEPT ![t] = @ \cup {w}]
              \/ requests' = requests
  <2>1. store' \in [Shards -> [Rows -> Values]]
    BY <1>1, <1>2, <1>5 DEF MigrationTypeOK
  <2>2. mirrors' \in [Shards -> SUBSET Writes]
    BY <1>1, <1>3, <1>5 DEF MigrationTypeOK
  <2>3. requests' \in [Shards -> SUBSET Writes]
    BY <1>1, <1>3, <1>5 DEF MigrationTypeOK
  <2> QED
    BY <2>1, <2>2, <2>3
<1> QED
  BY <1>4, <1>5 DEF Mirror

\* The jobs of a queue are jobs.
LEMMA QueuedType ==
  ASSUME MigrationTypeOK, NEW s \in Shards
  PROVE  Queued(s) \subseteq Jobs
BY LenProperties, ElementOfSeq DEF MigrationTypeOK, Queued

\* A handler that rests, and one that goes on, is well-formed.
LEMMA RestingType == Resting \in Handlers
BY MigrationAssumption DEF Resting, Handlers, Steps, Values

\* A tick that goes on to another step keeps the handler's shape.
LEMMA GotoType ==
  ASSUME NEW h \in Handlers, NEW step \in Steps
  PROVE  [h EXCEPT !.pc = step] \in Handlers
BY DEF Handlers

\* Stopped handlers and lost answers are counted.
LEMMA UsesType ==
  ASSUME NEW u \in Uses
  PROVE  Failed(u) \in Uses
<1>1. u.failures + 1 \in Nat
  BY DEF Uses
<1> QED
  BY <1>1 DEF Uses, Failed

\* A step of the catalog alone keeps the shards well-formed.
LEMMA CatalogStepType ==
  ASSUME MigrationTypeOK, map' \in Maps, lock' \in Operations, calls' \subseteq Calls,
         handler' \in Handlers,
         UNCHANGED <<store, fenced, queue, batch, requests, mirrors, intents, flights, used>>
  PROVE  MigrationTypeOK'
BY DEF MigrationTypeOK

\* A step of a shard alone keeps the catalog well-formed.
LEMMA ShardStepType ==
  ASSUME MigrationTypeOK, UNCHANGED <<map, lock, calls>>, handler' \in Handlers,
         store' \in [Shards -> [Rows -> Values]], fenced' \subseteq Shards,
         queue' \in [Shards -> Seq(Jobs)], batch' \in [Shards -> Seq(Jobs)],
         requests' \in [Shards -> SUBSET Writes], mirrors' \in [Shards -> SUBSET Writes],
         intents' \in [Shards -> SUBSET Intents], flights' \subseteq Requests,
         used' \in Uses
  PROVE  MigrationTypeOK'
BY DEF MigrationTypeOK

\* The rows of a shard may be deleted at any time.
LEMMA DeleteRowsType ==
  ASSUME MigrationTypeOK, NEW s, DeleteRows(s)
  PROVE  store' \in [Shards -> [Rows -> Values]] /\ queue' \in [Shards -> Seq(Jobs)]
BY EmptySeq DEF MigrationTypeOK, DeleteRows, Values

\* Every step of a tick keeps the state well-formed.
LEMMA TickTypes == MigrationInv /\ Tick => MigrationTypeOK'
<1> SUFFICES ASSUME MigrationInv, Tick PROVE MigrationTypeOK'
  OBVIOUS
<1>0. MigrationTypeOK /\ ControlInv
  BY DEF MigrationInv
<1>a. map \in Maps /\ lock \in Operations /\ calls \subseteq Calls /\ handler \in Handlers
  BY <1>0 DEF MigrationTypeOK
<1>b. 0 \in 0 .. NRows /\ Rows \subseteq 0 .. NRows /\ 0 \in Operations
  BY MigrationAssumption DEF Rows, Operations
<1>1. CASE BeginBackfill
  <2>1. handler' \in Handlers
    BY <1>a, <1>1 DEF BeginBackfill, Handlers, Maps, Steps
  <2> QED
    BY <1>0, <1>a, <1>1, <2>1, CatalogStepType DEF BeginBackfill, mapVars, shardVars, tickVars
<1>2. CASE BeginCutover
  <2>1. handler' \in Handlers
    BY <1>a, <1>2, GotoType DEF BeginCutover, Goto, Steps
  <2> QED
    BY <1>0, <1>a, <1>2, <2>1, CatalogStepType DEF BeginCutover, mapVars, shardVars, tickVars
<1>3. CASE BeginCleanup
  <2>1. handler' \in Handlers
    BY <1>a, <1>3, GotoType DEF BeginCleanup, Goto, Steps
  <2> QED
    BY <1>0, <1>a, <1>3, <2>1, CatalogStepType DEF BeginCleanup, mapVars, shardVars, tickVars
<1>4. CASE Export
  <2>1. PICK r \in Remaining : handler' = [handler EXCEPT !.pc = "import", !.at = r,
                                             !.value = store[map.shard][r]]
    BY <1>4 DEF Export
  <2>2. r \in Rows /\ store[map.shard][r] \in Values
    BY <1>0, <1>a DEF Remaining, MigrationTypeOK, Maps
  <2>3. handler' \in Handlers
    BY <1>a, <1>b, <2>1, <2>2 DEF Handlers, Steps
  <2> QED
    BY <1>0, <1>a, <1>4, <2>3, CatalogStepType DEF Export, mapVars, shardVars, tickVars
<1>5. CASE Import
  <2>1. store' \in [Shards -> [Rows -> Values]]
    BY <1>0, <1>a, <1>5 DEF Import, MigrationTypeOK, Handlers
  <2>2. handler' \in Handlers
    BY <1>a, <1>5 DEF Import, Handlers, Steps, Values
  <2> QED
    BY <1>0, <1>5, <2>1, <2>2 DEF Import, MigrationTypeOK, mapVars, tickVars
<1>6. CASE SaveCursor
  <2>1. map' \in Maps
    BY <1>a, <1>6 DEF SaveCursor, Maps, Handlers
  <2> QED
    BY <1>0, <1>a, <1>6, <2>1, RestingType, CatalogStepType
       DEF SaveCursor, Rest, shardVars, tickVars
<1>7. CASE EnterCutover
  <2>1. map' \in Maps
    BY <1>a, <1>b, <1>7 DEF EnterCutover, Maps
  <2>2. handler' \in Handlers
    BY <1>7, RestingType, GotoType DEF EnterCutover, Steps
  <2> QED
    BY <1>0, <1>a, <1>7, <2>1, <2>2, CatalogStepType DEF EnterCutover, shardVars, tickVars
<1>8. CASE Fence
  <2>1. handler' \in Handlers
    BY <1>a, <1>8, GotoType DEF Fence, Goto, Steps
  <2>2. fenced' \subseteq Shards
    BY <1>0, <1>a, <1>8 DEF Fence, MigrationTypeOK, Maps
  <2> QED
    BY <1>0, <1>8, <2>1, <2>2 DEF Fence, MigrationTypeOK, mapVars, tickVars
<1>9. CASE DrainEnds
  <2>1. handler' \in Handlers
    BY <1>a, <1>9, GotoType, RestingType DEF DrainEnds, Goto, Rest, Steps
  <2> QED
    BY <1>0, <1>a, <1>9, <2>1, CatalogStepType DEF DrainEnds, mapVars, shardVars, tickVars
<1>10. CASE CountIntents
  <2>1. handler' \in Handlers
    BY <1>a, <1>10, GotoType, RestingType DEF CountIntents, Goto, Rest, Steps
  <2> QED
    BY <1>0, <1>a, <1>10, <2>1, CatalogStepType DEF CountIntents, mapVars, shardVars, tickVars
<1>11. ASSUME NEW s \in Shards, NEW job \in Queued(s), DrainMirror(job)
       PROVE  MigrationTypeOK'
  <2>1. job \in Jobs
    BY <1>0, QueuedType
  <2>2. /\ store' \in [Shards -> [Rows -> Values]]
        /\ mirrors' \in [Shards -> SUBSET Writes]
        /\ requests' \in [Shards -> SUBSET Writes]
    BY <1>0, <1>11, <2>1, MirrorType DEF DrainMirror
  <2>3. queue \in [Shards -> Seq(Jobs)] /\ map.shard \in Shards
    BY <1>0, <1>a DEF MigrationTypeOK, Maps
  <2>4. RemoveFirst(queue[map.shard], job) \in Seq(Jobs)
    BY <2>3, RemoveFirstType
  <2>5. queue' \in [Shards -> Seq(Jobs)]
    BY <1>11, <2>3, <2>4 DEF DrainMirror
  <2> QED
    BY <1>0, <1>11, <2>2, <2>5 DEF DrainMirror, MigrationTypeOK, mapVars, tickVars
<1>12. ASSUME NEW s \in Shards, FirstChecksum(s) PROVE MigrationTypeOK'
  <2>1. store[s] \in [Rows -> Values]
    BY <1>0, <1>12 DEF MigrationTypeOK
  <2>2. handler' \in Handlers
    BY <1>a, <1>12, <2>1 DEF FirstChecksum, Checksum, Handlers, Steps
  <2> QED
    BY <1>0, <1>a, <1>12, <2>2, CatalogStepType DEF FirstChecksum, mapVars, shardVars, tickVars
<1>13. CASE SecondChecksum
  <2>1. handler' \in Handlers
    BY <1>13, RestingType, GotoType DEF SecondChecksum, Steps
  <2> QED
    BY <1>0, <1>a, <1>13, <2>1, CatalogStepType DEF SecondChecksum, mapVars, shardVars, tickVars
<1>14. CASE CheckLease
  <2>1. handler' \in Handlers
    BY <1>a, <1>14, GotoType, RestingType DEF CheckLease, Goto, Rest, Steps
  <2> QED
    BY <1>0, <1>a, <1>14, <2>1, CatalogStepType DEF CheckLease, mapVars, shardVars, tickVars
<1>15. CASE Flip
  <2>1. map.target \in Shards
    BY <1>0, <1>a, <1>15 DEF Flip, At, ControlInv, HandlerFitsMap, MoveHasTarget,
                             CutoverSteps, Maps
  <2>2. map' \in Maps
    BY <1>a, <1>15, <2>1 DEF Flip, Maps
  <2>3. handler' \in Handlers
    BY <1>a, <1>15, GotoType DEF Flip, Goto, Steps
  <2> QED
    BY <1>0, <1>a, <1>15, <2>2, <2>3, CatalogStepType DEF Flip, shardVars, tickVars
<1>16. CASE LiftFence
  <2>1. handler' \in Handlers
    BY <1>a, <1>16, GotoType DEF LiftFence, Goto, Steps
  <2> QED
    BY <1>0, <1>16, <2>1 DEF LiftFence, MigrationTypeOK, mapVars, tickVars
<1>17. CASE PurgeMirrors
  <2>1. handler' \in Handlers
    BY <1>a, <1>17, GotoType DEF PurgeMirrors, Goto, Steps
  <2>2. queue' \in [Shards -> Seq(Jobs)]
    BY <1>0, <1>17, EmptySeq DEF PurgeMirrors, MigrationTypeOK
  <2> QED
    BY <1>0, <1>17, <2>1, <2>2 DEF PurgeMirrors, MigrationTypeOK, mapVars, tickVars
<1>18. CASE WipeTarget
  <2>1. handler' \in Handlers
    BY <1>a, <1>18, GotoType DEF WipeTarget, Goto, Steps
  <2>2. store' \in [Shards -> [Rows -> Values]] /\ queue' \in [Shards -> Seq(Jobs)]
    BY <1>0, <1>18, DeleteRowsType DEF WipeTarget
  <2> QED
    BY <1>0, <1>18, <2>1, <2>2 DEF WipeTarget, MigrationTypeOK, mapVars, tickVars
<1>19. CASE Rewind
  <2>1. map' \in Maps
    BY <1>a, <1>19 DEF Rewind, Maps
  <2> QED
    BY <1>0, <1>a, <1>19, <2>1, RestingType, CatalogStepType
       DEF Rewind, Rest, shardVars, tickVars
<1>20. CASE DeleteSource
  <2>1. handler' \in Handlers
    BY <1>a, <1>20, GotoType DEF DeleteSource, Goto, Steps
  <2>2. store' \in [Shards -> [Rows -> Values]] /\ queue' \in [Shards -> Seq(Jobs)]
    BY <1>0, <1>20, DeleteRowsType DEF DeleteSource
  <2> QED
    BY <1>0, <1>20, <2>1, <2>2 DEF DeleteSource, MigrationTypeOK, mapVars, tickVars
<1>21. CASE UnfenceSource
  <2>1. handler' \in Handlers
    BY <1>a, <1>21, GotoType DEF UnfenceSource, Goto, Steps
  <2> QED
    BY <1>0, <1>21, <2>1 DEF UnfenceSource, MigrationTypeOK, mapVars, tickVars
<1>22. CASE EndMigration
  <2>1. map' \in Maps
    BY <1>a, <1>b, <1>22 DEF EndMigration, NoMap, Maps
  <2>2. lock' \in Operations
    BY <1>a, <1>b, <1>22 DEF EndMigration
  <2> QED
    BY <1>0, <1>a, <1>22, <2>1, <2>2, RestingType, CatalogStepType
       DEF EndMigration, Rest, shardVars, tickVars
<1> QED
  BY <1>1, <1>2, <1>3, <1>4, <1>5, <1>6, <1>7, <1>8, <1>9, <1>10, <1>11, <1>12,
     <1>13, <1>14, <1>15, <1>16, <1>17, <1>18, <1>19, <1>20, <1>21, <1>22 DEF Tick

\* Every step of a client keeps the state well-formed.
LEMMA ClientTypes == MigrationTypeOK /\ Client => MigrationTypeOK'
<1> SUFFICES ASSUME MigrationTypeOK, Client PROVE MigrationTypeOK'
  OBVIOUS
<1>a. /\ map \in Maps /\ flights \subseteq Requests /\ intents \in [Shards -> SUBSET Intents]
      /\ requests \in [Shards -> SUBSET Writes] /\ used \in Uses
  BY DEF MigrationTypeOK
<1>1. ASSUME NEW w \in Writes, Route(w) PROVE MigrationTypeOK'
  <2>1. used' \in Uses
    BY <1>a, <1>1, UsesType DEF Route, Uses
  <2>2. flights' \subseteq Requests
    BY <1>a, <1>1 DEF Route, Requests, Routed, Maps
  <2> QED
    BY <1>1, <2>1, <2>2 DEF Route, MigrationTypeOK, mapVars, shardVars
<1>2. ASSUME NEW f \in flights, Execute(f) PROVE MigrationTypeOK'
  <2>1. f.shard \in Shards /\ f.write \in Writes /\ f.mirror \in Shards \cup {NoShard}
    BY <1>a DEF Requests
  <2>2. CASE UNCHANGED <<store, queue, requests>>
    BY <1>2, <2>2 DEF Execute, MigrationTypeOK, mapVars
  <2>3. CASE /\ Apply(f.shard, f.write, f.mirror)
             /\ requests' = [requests EXCEPT ![f.shard] = @ \cup {f.write}]
    <3>1. store' \in [Shards -> [Rows -> Values]] /\ queue' \in [Shards -> Seq(Jobs)]
      BY <2>1, <2>3, ApplyType
    <3>2. requests' \in [Shards -> SUBSET Writes]
      BY <1>a, <2>1, <2>3
    <3> QED
      BY <1>2, <3>1, <3>2 DEF Execute, MigrationTypeOK, mapVars
  <2> QED
    BY <1>2, <2>2, <2>3 DEF Execute
<1>3. ASSUME NEW f \in flights, Prepare(f) PROVE MigrationTypeOK'
  <2>1. [write |-> f.write, mirror |-> f.mirror] \in Intents /\ f.shard \in Shards
    BY <1>a DEF Requests, Intents
  <2>2. intents' \in [Shards -> SUBSET Intents]
    BY <1>a, <1>3, <2>1 DEF Prepare
  <2> QED
    BY <1>3, <2>2 DEF Prepare, MigrationTypeOK, mapVars
<1>4. ASSUME NEW s \in Shards, NEW i \in intents[s], CommitIntent(s, i)
      PROVE  MigrationTypeOK'
  <2>1. i.write \in Writes /\ i.mirror \in Shards \cup {NoShard}
    BY <1>a DEF Intents
  <2>2. store' \in [Shards -> [Rows -> Values]] /\ queue' \in [Shards -> Seq(Jobs)]
    BY <1>4, <2>1, ApplyType DEF CommitIntent
  <2>3. intents' \in [Shards -> SUBSET Intents]
    BY <1>a, <1>4 DEF CommitIntent
  <2> QED
    BY <1>4, <2>2, <2>3 DEF CommitIntent, MigrationTypeOK, mapVars
<1>5. ASSUME NEW s \in Shards, NEW i \in intents[s], AbortIntent(s, i)
      PROVE  MigrationTypeOK'
  <2>1. intents' \in [Shards -> SUBSET Intents]
    BY <1>a, <1>5 DEF AbortIntent
  <2> QED
    BY <1>5, <2>1 DEF AbortIntent, MigrationTypeOK, mapVars
<1> QED
  BY <1>1, <1>2, <1>3, <1>4, <1>5 DEF Client

\* A mirror alarm keeps the state well-formed, answered or not.
LEMMA AlarmTypes ==
  ASSUME MigrationTypeOK, NEW s \in Shards, Alarm(s) \/ AlarmSkips(s)
  PROVE  MigrationTypeOK'
<1>a. /\ queue \in [Shards -> Seq(Jobs)] /\ batch \in [Shards -> Seq(Jobs)] /\ used \in Uses
  BY DEF MigrationTypeOK
<1>1. CASE AlarmReads(s)
  <2>1. batch' \in [Shards -> Seq(Jobs)]
    BY <1>a, <1>1 DEF AlarmReads
  <2> QED
    BY <1>1, <2>1 DEF AlarmReads, MigrationTypeOK, mapVars, shardVars
<1>2. CASE AlarmDelivers(s)
  <2>1. Head(batch[s]) \in Jobs /\ Tail(batch[s]) \in Seq(Jobs)
    BY <1>a, <1>2, HeadTailProperties DEF AlarmDelivers
  <2>2. Mirror(Head(batch[s]))
    BY <1>2 DEF AlarmDelivers
  <2>3. /\ store' \in [Shards -> [Rows -> Values]]
        /\ mirrors' \in [Shards -> SUBSET Writes]
        /\ requests' \in [Shards -> SUBSET Writes]
    BY <2>1, <2>2, MirrorType
  <2>4. RemoveFirst(queue[s], Head(batch[s])) \in Seq(Jobs)
    BY <1>a, RemoveFirstType
  <2>5. /\ queue' = queue \/ queue' = [queue EXCEPT ![s] = RemoveFirst(@, Head(batch[s]))]
        /\ used' = used \/ used' = Failed(used)
        /\ batch' = [batch EXCEPT ![s] = Tail(@)]
    BY <1>2 DEF AlarmDelivers
  <2>6. queue' \in [Shards -> Seq(Jobs)] /\ batch' \in [Shards -> Seq(Jobs)]
    BY <1>a, <2>1, <2>4, <2>5
  <2>7. used' \in Uses
    BY <1>a, <2>5, UsesType
  <2> QED
    BY <1>2, <2>3, <2>6, <2>7 DEF AlarmDelivers, MigrationTypeOK, mapVars
<1>3. CASE AlarmSkips(s)
  <2>1. Tail(batch[s]) \in Seq(Jobs)
    BY <1>a, <1>3, HeadTailProperties DEF AlarmSkips
  <2>2. batch' \in [Shards -> Seq(Jobs)]
    BY <1>a, <1>3, <2>1 DEF AlarmSkips
  <2>3. used' \in Uses
    BY <1>a, <1>3, UsesType DEF AlarmSkips
  <2> QED
    BY <1>3, <2>2, <2>3 DEF AlarmSkips, MigrationTypeOK, mapVars, shardVars
<1> QED
  BY <1>1, <1>2, <1>3 DEF Alarm

\* Every step keeps the state well-formed.
LEMMA TypeStep == MigrationInv /\ [Next]_vars => MigrationTypeOK'
<1> SUFFICES ASSUME MigrationInv, [Next]_vars PROVE MigrationTypeOK'
  OBVIOUS
<1>0. MigrationTypeOK
  BY DEF MigrationInv
<1>a. /\ map \in Maps /\ lock \in Operations /\ calls \subseteq Calls /\ handler \in Handlers
      /\ used \in Uses /\ 0 \in Operations
  BY <1>0, MigrationAssumption DEF MigrationTypeOK, Operations
<1>1. ASSUME NEW t \in Shards, RequestMigration(t) PROVE MigrationTypeOK'
  <2>1. used.migrations + 1 \in Operations /\ used.migrations + 1 \in 0 .. MaxMigrations
    BY <1>a, <1>1, MigrationAssumption DEF RequestMigration, Operations, Uses
  <2>2. used' \in Uses
    BY <1>a, <1>1, <2>1 DEF RequestMigration, Uses
  <2>3. calls' \subseteq Calls /\ lock' \in Operations
    BY <1>a, <1>1, <2>1 DEF RequestMigration, Calls
  <2> QED
    BY <1>0, <1>1, <2>2, <2>3 DEF RequestMigration, MigrationTypeOK, shardVars
<1>2. ASSUME NEW c \in calls, ClaimMigration(c) PROVE MigrationTypeOK'
  <2>1. c.op \in Operations /\ c.target \in Shards
    BY <1>a DEF Calls
  <2>2. 0 \in 0 .. NRows
    BY MigrationAssumption
  <2>3. map' \in Maps
    <3>1. CASE map' = map
      BY <1>a, <3>1
    <3>2. CASE map' = [map EXCEPT !.status = "backfilling", !.target = c.target,
                                  !.cursor = 0, !.op = c.op]
      BY <1>a, <2>1, <2>2, <3>2 DEF Maps
    <3> QED
      BY <1>2, <3>1, <3>2 DEF ClaimMigration
  <2>4. lock' \in Operations /\ calls' \subseteq Calls
    BY <1>a, <1>2 DEF ClaimMigration
  <2> QED
    BY <1>0, <1>2, <2>3, <2>4 DEF ClaimMigration, MigrationTypeOK, shardVars
<1>3. CASE LeaseLapses
  <2>1. used' \in Uses
    <3>1. Failed(used) \in Uses
      BY <1>a, UsesType
    <3>2. used' = [Failed(used) EXCEPT !.lapses = @ + 1]
      BY <1>3 DEF LeaseLapses
    <3>3. Failed(used).lapses + 1 \in Nat
      BY <3>1 DEF Uses
    <3> QED
      BY <3>1, <3>2, <3>3 DEF Uses
  <2> QED
    BY <1>0, <1>3, <2>1, MigrationAssumption
       DEF LeaseLapses, MigrationTypeOK, Operations, shardVars
<1>4. CASE Abort
  <2>1. map' \in Maps /\ handler' \in Handlers
    BY <1>a, <1>4, GotoType DEF Abort, Goto, Maps, Steps
  <2> QED
    BY <1>0, <1>4, <2>1 DEF Abort, MigrationTypeOK, shardVars, tickVars
<1>5. CASE StopHandler
  <2>1. used' \in Uses /\ handler' \in Handlers
    BY <1>a, <1>5, RestingType, UsesType DEF StopHandler, Rest
  <2> QED
    BY <1>0, <1>5, <2>1 DEF StopHandler, MigrationTypeOK, mapVars, shardVars, tickVars
<1>6. CASE UNCHANGED vars
  BY <1>0, <1>6 DEF vars, MigrationTypeOK
<1> QED
  BY <1>0, <1>1, <1>2, <1>3, <1>4, <1>5, <1>6, ClientTypes, AlarmTypes, TickTypes DEF Next

-----------------------------------------------------------------------------
(* Control: where the move stands. *)

\* Steps of clients and of mirror alarms leave the move alone.
LEMMA ControlFrame ==
  ASSUME ControlInv, UNCHANGED <<map, lock, calls, handler, fenced>>,
         used'.lapses = used.lapses
  PROVE  ControlInv'
BY DEF ControlInv, HandlerFitsMap, MoveHasTarget, FencesAreOwned, FenceIsLifted,
       OneMover, Undisturbed, Routed

\* A handler that stops or waits at a step says no more about the map.
LEMMA HandlerRests ==
  ASSUME ControlInv, Rest, UNCHANGED <<map, lock, calls, fenced, used>>
  PROVE  ControlInv'
BY DEF ControlInv, Rest, Resting, HandlerFitsMap, MoveHasTarget, FencesAreOwned,
       FenceIsLifted, OneMover, Undisturbed, Routed, CopySteps, CutoverSteps,
       AbortSteps, CleanupSteps, LiftedSteps

\* A handler that goes on within its part of the move, with the fence as it is.
LEMMA HandlerGoesOn ==
  ASSUME ControlInv, UNCHANGED <<map, lock, calls, fenced, used>>,
         \/ handler'.pc \in CopySteps /\ map.status = "backfilling"
         \/ handler'.pc \in CutoverSteps \ LiftedSteps /\ map.status = "cutover"
         \/ handler'.pc \in CutoverSteps /\ handler.pc \in LiftedSteps
              /\ map.status = "cutover"
         \/ handler'.pc \in AbortSteps /\ handler.pc \in LiftedSteps
              /\ map.status = "aborting"
         \/ handler'.pc \in CleanupSteps \ LiftedSteps /\ map.cleanup # NoShard
  PROVE  ControlInv'
BY DEF ControlInv, HandlerFitsMap, MoveHasTarget, FencesAreOwned,
       FenceIsLifted, OneMover, Undisturbed, Routed, CopySteps, CutoverSteps,
       AbortSteps, CleanupSteps, LiftedSteps

\* Every step of a tick keeps the move in order.
LEMMA TickControl == MigrationInv /\ Tick => ControlInv'
<1> SUFFICES ASSUME MigrationInv, Tick PROVE ControlInv'
  OBVIOUS
<1>a. /\ ControlInv /\ NoShard \notin Shards
      /\ map \in Maps /\ handler \in Handlers /\ fenced \subseteq Shards
  BY MigrationAssumption DEF MigrationInv, MigrationTypeOK
<1>b. HandlerFitsMap
  BY <1>a DEF ControlInv
<1>1. CASE BeginBackfill
  <2>1. handler'.pc = "export" /\ map.status = "backfilling"
    BY <1>a, <1>1 DEF BeginBackfill, Handlers
  <2> QED
    BY <1>a, <1>1, <2>1, HandlerGoesOn DEF BeginBackfill, CopySteps, mapVars, shardVars
<1>2. CASE BeginCutover
  <2>1. handler'.pc = "fence" /\ map.status = "cutover"
    BY <1>a, <1>2 DEF BeginCutover, Goto, Handlers
  <2> QED
    BY <1>a, <1>2, <2>1, HandlerGoesOn
       DEF BeginCutover, CutoverSteps, LiftedSteps, mapVars, shardVars
<1>3. CASE BeginCleanup
  <2>1. handler'.pc = "delete" /\ map.cleanup # NoShard
    BY <1>a, <1>3 DEF BeginCleanup, Goto, Handlers
  <2> QED
    BY <1>a, <1>3, <2>1, HandlerGoesOn
       DEF BeginCleanup, CleanupSteps, LiftedSteps, mapVars, shardVars
<1>4. CASE Export
  <2>1. handler'.pc = "import" /\ map.status = "backfilling"
    BY <1>a, <1>b, <1>4 DEF Export, At, HandlerFitsMap, CopySteps, Handlers
  <2> QED
    BY <1>a, <1>4, <2>1, HandlerGoesOn DEF Export, CopySteps, mapVars, shardVars
<1>5. CASE Import
  <2>1. handler'.pc \in CopySteps /\ map.status = "backfilling"
    BY <1>a, <1>b, <1>5 DEF Import, At, HandlerFitsMap, CopySteps, Handlers
  <2> QED
    BY <1>a, <1>5, <2>1, HandlerGoesOn DEF Import, mapVars
<1>6. CASE SaveCursor
  <2>1. /\ map.status = "backfilling" /\ handler'.pc = "idle"
        /\ map' = [map EXCEPT !.cursor = handler.at]
    BY <1>b, <1>6 DEF SaveCursor, At, Rest, Resting, HandlerFitsMap, CopySteps
  <2> QED
    BY <1>a, <1>6, <2>1
       DEF SaveCursor, Maps, shardVars, ControlInv, HandlerFitsMap, MoveHasTarget, FencesAreOwned,
           FenceIsLifted, OneMover, Undisturbed, Routed, CopySteps, CutoverSteps,
           AbortSteps, CleanupSteps, LiftedSteps
<1>7. CASE EnterCutover
  <2>1. /\ map.status = "backfilling" /\ handler'.pc = "fence"
        /\ map' = [map EXCEPT !.status = "cutover", !.cursor = 0]
    BY <1>b, <1>7 DEF EnterCutover, At, Resting, HandlerFitsMap, CopySteps
  <2> QED
    BY <1>a, <1>7, <2>1
       DEF EnterCutover, Maps, shardVars, ControlInv, HandlerFitsMap, MoveHasTarget, FencesAreOwned,
           FenceIsLifted, OneMover, Undisturbed, Routed, CopySteps, CutoverSteps,
           AbortSteps, CleanupSteps, LiftedSteps
<1>8. CASE Fence
  <2>1. map.status = "cutover" /\ handler'.pc = "drain"
    BY <1>a, <1>b, <1>8 DEF Fence, At, Goto, HandlerFitsMap, CutoverSteps, Handlers
  <2> QED
    BY <1>a, <1>8, <2>1
       DEF Fence, mapVars, ControlInv, HandlerFitsMap, MoveHasTarget, FencesAreOwned,
           FenceIsLifted, OneMover, Undisturbed, Routed, CopySteps, CutoverSteps,
           AbortSteps, CleanupSteps, LiftedSteps
<1>9. CASE DrainEnds
  <2>1. CASE Rest
    BY <1>a, <1>9, <2>1, HandlerRests DEF DrainEnds, mapVars, shardVars
  <2>2. CASE Goto("intents")
    <3>1. map.status = "cutover" /\ handler'.pc = "intents"
      BY <1>a, <1>b, <1>9, <2>2 DEF DrainEnds, At, Goto, HandlerFitsMap, CutoverSteps,
                                    Handlers
    <3> QED
      BY <1>a, <1>9, <3>1, HandlerGoesOn
         DEF DrainEnds, CutoverSteps, LiftedSteps, mapVars, shardVars
  <2> QED
    BY <1>9, <2>1, <2>2 DEF DrainEnds
<1>10. CASE CountIntents
  <2>1. CASE Rest
    BY <1>a, <1>10, <2>1, HandlerRests DEF CountIntents, mapVars, shardVars
  <2>2. CASE Goto("sums")
    <3>1. map.status = "cutover" /\ handler'.pc = "sums"
      BY <1>a, <1>b, <1>10, <2>2 DEF CountIntents, At, Goto, HandlerFitsMap, CutoverSteps,
                                     Handlers
    <3> QED
      BY <1>a, <1>10, <3>1, HandlerGoesOn
         DEF CountIntents, CutoverSteps, LiftedSteps, mapVars, shardVars
  <2> QED
    BY <1>10, <2>1, <2>2 DEF CountIntents
<1>11. ASSUME NEW s \in Shards, NEW job \in Queued(s), DrainMirror(job)
       PROVE  ControlInv'
  BY <1>a, <1>11, ControlFrame DEF DrainMirror, mapVars
<1>12. ASSUME NEW s \in Shards, FirstChecksum(s) PROVE ControlInv'
  <2>1. map.status = "cutover" /\ handler'.pc = "compare"
    BY <1>a, <1>b, <1>12 DEF FirstChecksum, At, HandlerFitsMap, CutoverSteps, Handlers
  <2> QED
    BY <1>a, <1>12, <2>1, HandlerGoesOn
       DEF FirstChecksum, CutoverSteps, LiftedSteps, mapVars, shardVars
<1>13. CASE SecondChecksum
  <2>1. map.status = "cutover" /\ handler'.pc \in {"holds", "unfence"}
    BY <1>b, <1>13 DEF SecondChecksum, At, Resting, HandlerFitsMap, CutoverSteps
  <2> QED
    BY <1>a, <1>13, <2>1, HandlerGoesOn
       DEF SecondChecksum, CutoverSteps, LiftedSteps, mapVars, shardVars
<1>14. CASE CheckLease
  <2>1. CASE Rest
    BY <1>a, <1>14, <2>1, HandlerRests DEF CheckLease, mapVars, shardVars
  <2>2. CASE Goto("flip")
    <3>1. map.status = "cutover" /\ handler'.pc = "flip"
      BY <1>a, <1>b, <1>14, <2>2 DEF CheckLease, At, Goto, HandlerFitsMap, CutoverSteps,
                                     Handlers
    <3> QED
      BY <1>a, <1>14, <3>1, HandlerGoesOn
         DEF CheckLease, CutoverSteps, LiftedSteps, mapVars, shardVars
  <2> QED
    BY <1>14, <2>1, <2>2 DEF CheckLease
<1>15. CASE Flip
  <2>1. /\ map.status = "cutover" /\ handler'.pc = "delete"
        /\ map' = [map EXCEPT !.shard = map.target, !.status = "none",
                              !.target = NoShard, !.cleanup = map.shard]
    BY <1>a, <1>b, <1>15 DEF Flip, At, Goto, HandlerFitsMap, CutoverSteps, Handlers
  <2>2. /\ map'.shard = map.target /\ map'.status = "none" /\ map'.target = NoShard
        /\ map'.cleanup = map.shard /\ map.target # NoShard /\ map.shard # NoShard
    BY <1>a, <2>1 DEF Maps, ControlInv, MoveHasTarget
  <2>3. UNCHANGED <<lock, calls, fenced, used>>
    BY <1>15 DEF Flip, shardVars
  <2>4. FencesAreOwned'
    BY <1>a, <2>1, <2>2, <2>3 DEF ControlInv, FencesAreOwned, MoveHasTarget, Routed
  <2>5. OneMover'
    BY <1>a, <2>1, <2>2, <2>3 DEF ControlInv, OneMover, Undisturbed
  <2> QED
    BY <2>1, <2>2, <2>4, <2>5
       DEF ControlInv, HandlerFitsMap, MoveHasTarget, FenceIsLifted, CopySteps,
           CutoverSteps, AbortSteps, CleanupSteps, LiftedSteps
<1>16. CASE LiftFence
  <2>1. \/ map.status = "cutover" /\ handler'.pc = "purge"
        \/ map.status = "aborting" /\ handler'.pc = "abort purge"
    BY <1>a, <1>b, <1>16 DEF LiftFence, At, Goto, HandlerFitsMap, CutoverSteps, AbortSteps,
                             Handlers
  <2>2. fenced' = {}
    BY <1>a, <1>16, <2>1 DEF LiftFence, ControlInv, FencesAreOwned, MoveHasTarget, Routed
  <2> QED
    BY <1>a, <1>16, <2>1, <2>2
       DEF LiftFence, mapVars, ControlInv, HandlerFitsMap, MoveHasTarget, FencesAreOwned,
           FenceIsLifted, OneMover, Undisturbed, Routed, CopySteps, CutoverSteps,
           AbortSteps, CleanupSteps, LiftedSteps
<1>17. CASE PurgeMirrors
  <2>1. \/ /\ map.status = "cutover" /\ handler.pc = "purge" /\ handler'.pc = "wipe"
        \/ /\ map.status = "aborting" /\ handler.pc = "abort purge"
           /\ handler'.pc = "abort wipe"
    BY <1>a, <1>b, <1>17 DEF PurgeMirrors, At, Goto, HandlerFitsMap, CutoverSteps,
                             AbortSteps, Handlers
  <2> QED
    BY <1>a, <1>17, <2>1, HandlerGoesOn
       DEF PurgeMirrors, CutoverSteps, AbortSteps, LiftedSteps, mapVars
<1>18. CASE WipeTarget
  <2>1. \/ /\ map.status = "cutover" /\ handler.pc = "wipe" /\ handler'.pc = "rewind"
        \/ /\ map.status = "aborting" /\ handler.pc = "abort wipe"
           /\ handler'.pc = "clear"
    BY <1>a, <1>b, <1>18 DEF WipeTarget, At, Goto, HandlerFitsMap, CutoverSteps,
                             AbortSteps, Handlers
  <2> QED
    BY <1>a, <1>18, <2>1, HandlerGoesOn
       DEF WipeTarget, CutoverSteps, AbortSteps, LiftedSteps, mapVars
<1>19. CASE Rewind
  <2>1. /\ map.status = "cutover" /\ handler.pc = "rewind" /\ handler'.pc = "idle"
        /\ map' = [map EXCEPT !.status = "backfilling"]
    BY <1>b, <1>19 DEF Rewind, At, Rest, Resting, HandlerFitsMap, CutoverSteps
  <2> QED
    BY <1>a, <1>19, <2>1
       DEF Rewind, Maps, shardVars, ControlInv, HandlerFitsMap, MoveHasTarget, FencesAreOwned,
           FenceIsLifted, OneMover, Undisturbed, Routed, CopySteps, CutoverSteps,
           AbortSteps, CleanupSteps, LiftedSteps
<1>20. CASE DeleteSource
  <2>1. map.cleanup # NoShard /\ handler'.pc = "unfence source"
    BY <1>a, <1>b, <1>20 DEF DeleteSource, At, Goto, HandlerFitsMap, CleanupSteps, Handlers
  <2> QED
    BY <1>a, <1>20, <2>1, HandlerGoesOn DEF DeleteSource, CleanupSteps, LiftedSteps, mapVars
<1>21. CASE UnfenceSource
  <2>1. map.cleanup # NoShard /\ handler'.pc = "release"
    BY <1>a, <1>b, <1>21 DEF UnfenceSource, At, Goto, HandlerFitsMap, CleanupSteps, Handlers
  <2>2. fenced' = {}
    BY <1>a, <1>21, <2>1 DEF UnfenceSource, ControlInv, FencesAreOwned, MoveHasTarget
  <2> QED
    BY <1>a, <1>21, <2>1, <2>2
       DEF UnfenceSource, mapVars, ControlInv, HandlerFitsMap, MoveHasTarget, FencesAreOwned,
           FenceIsLifted, OneMover, Undisturbed, Routed, CopySteps, CutoverSteps,
           AbortSteps, CleanupSteps, LiftedSteps
<1>22. CASE EndMigration
  <2>1. handler'.pc = "idle" /\ fenced = {} /\ fenced' = {} /\ calls' = calls
    BY <1>a, <1>22 DEF EndMigration, At, Rest, Resting, ControlInv, FenceIsLifted,
                       LiftedSteps, shardVars
  <2>2. Undisturbed => calls = {}
    BY <1>a, <1>b, <1>22 DEF EndMigration, At, ControlInv, OneMover, HandlerFitsMap,
                             AbortSteps, CleanupSteps
  <2>3. /\ map'.shard = map.shard /\ map'.status = "none"
        /\ map'.target \in {map.target, NoShard}
        /\ map'.cleanup \in {map.cleanup, NoShard}
    <3>1. CASE At("release") /\ map' = [map EXCEPT !.cleanup = NoShard, !.op = 0]
      <4>1. map.status = "none"
        BY <1>a, <1>b, <3>1 DEF At, ControlInv, MoveHasTarget, HandlerFitsMap, CleanupSteps
      <4> QED
        BY <1>a, <3>1, <4>1 DEF Maps
    <3>2. CASE map' = [NoMap EXCEPT !.shard = map.shard, !.cleanup = map.cleanup]
      BY <3>2 DEF NoMap
    <3> QED
      BY <1>22, <3>1, <3>2 DEF EndMigration
  <2> QED
    BY <1>a, <1>22, <2>1, <2>2, <2>3
       DEF EndMigration, Maps, shardVars, ControlInv, HandlerFitsMap, MoveHasTarget, FencesAreOwned,
           FenceIsLifted, OneMover, Undisturbed, Routed, CopySteps, CutoverSteps,
           AbortSteps, CleanupSteps, LiftedSteps
<1> QED
  BY <1>1, <1>2, <1>3, <1>4, <1>5, <1>6, <1>7, <1>8, <1>9, <1>10, <1>11, <1>12,
     <1>13, <1>14, <1>15, <1>16, <1>17, <1>18, <1>19, <1>20, <1>21, <1>22 DEF Tick

\* Every step keeps the move in order.
LEMMA ControlStep == MigrationInv /\ [Next]_vars => ControlInv'
<1> SUFFICES ASSUME MigrationInv, [Next]_vars PROVE ControlInv'
  OBVIOUS
<1>a. /\ ControlInv /\ NoShard \notin Shards /\ map \in Maps /\ handler \in Handlers
      /\ fenced \subseteq Shards /\ used \in Uses
  BY MigrationAssumption DEF MigrationInv, MigrationTypeOK
<1>1. CASE Client
  <2>1. UNCHANGED <<map, lock, calls, handler, fenced>> /\ used'.lapses = used.lapses
    <3>1. ASSUME NEW w \in Writes, Route(w)
          PROVE  UNCHANGED <<map, lock, calls, handler, fenced>> /\ used'.lapses = used.lapses
      BY <1>a, <3>1 DEF Route, Failed, Uses, mapVars, shardVars
    <3> QED
      BY <1>1, <3>1 DEF Client, Execute, Prepare, CommitIntent, AbortIntent, mapVars
  <2> QED
    BY <1>a, <2>1, ControlFrame
<1>2. ASSUME NEW s \in Shards, Alarm(s) \/ AlarmSkips(s) PROVE ControlInv'
  <2>1. UNCHANGED <<map, lock, calls, handler, fenced>>
    BY <1>2 DEF Alarm, AlarmReads, AlarmDelivers, AlarmSkips, mapVars, shardVars
  <2>2. used' = used \/ used' = Failed(used)
    BY <1>2 DEF Alarm, AlarmReads, AlarmDelivers, AlarmSkips
  <2>3. used'.lapses = used.lapses
    BY <1>a, <2>2 DEF Failed, Uses
  <2> QED
    BY <1>a, <2>1, <2>3, ControlFrame
<1>3. ASSUME NEW t \in Shards, RequestMigration(t) PROVE ControlInv'
  <2>1. lock' # 0 /\ used'.lapses = used.lapses /\ UNCHANGED <<map, handler, fenced>>
    BY <1>a, <1>3 DEF RequestMigration, Uses, shardVars
  <2>2. Undisturbed => calls = {}
    BY <1>a, <1>3 DEF RequestMigration, ControlInv, OneMover
  <2>3. OneMover'
    BY <1>a, <1>3, <2>1, <2>2 DEF RequestMigration, ControlInv, OneMover, Undisturbed, Routed
  <2> QED
    BY <1>a, <2>1, <2>3 DEF ControlInv, HandlerFitsMap, MoveHasTarget, FencesAreOwned,
                            FenceIsLifted, Routed
<1>4. ASSUME NEW c \in calls, ClaimMigration(c) PROVE ControlInv'
  <2>1. c.target # NoShard
    BY <1>a, <1>4 DEF MigrationInv, MigrationTypeOK, Calls
  <2>2. CASE map.status = "none" /\ map.cleanup = NoShard
    <3>1. map' = [map EXCEPT !.status = "backfilling", !.target = c.target,
                             !.cursor = 0, !.op = c.op]
      BY <1>4, <2>2 DEF ClaimMigration
    <3>2. /\ fenced = {} /\ fenced' = {} /\ handler' = handler /\ used' = used
          /\ calls' = calls \ {c}
      BY <1>a, <1>4, <2>2 DEF ClaimMigration, ControlInv, FencesAreOwned, shardVars
    <3>3. /\ map'.shard = map.shard /\ map'.status = "backfilling"
          /\ map'.target = c.target /\ map'.cleanup = NoShard
      BY <1>a, <2>2, <3>1 DEF Maps
    <3>4. OneMover'
      BY <1>a, <2>2, <3>2, <3>3 DEF ControlInv, OneMover, Undisturbed, Maps
    <3>5. handler.pc \notin CopySteps \cup CutoverSteps \cup AbortSteps \cup CleanupSteps
      BY <1>a, <2>2 DEF ControlInv, HandlerFitsMap
    <3>6. HandlerFitsMap'
      BY <3>2, <3>5 DEF HandlerFitsMap, CopySteps, CutoverSteps, AbortSteps, CleanupSteps
    <3> QED
      BY <2>1, <3>2, <3>3, <3>4, <3>6
         DEF ControlInv, MoveHasTarget, FencesAreOwned, FenceIsLifted
  <2>3. CASE ~(map.status = "none" /\ map.cleanup = NoShard)
    <3>1. Undisturbed => FALSE
      BY <1>a, <2>3 DEF ControlInv, OneMover
    <3> QED
      BY <1>a, <1>4, <2>3, <3>1
         DEF ClaimMigration, shardVars, ControlInv, HandlerFitsMap, MoveHasTarget,
             FencesAreOwned, FenceIsLifted, OneMover, Undisturbed, Routed
  <2> QED
    BY <2>2, <2>3
<1>5. CASE LeaseLapses
  <2>1. ~Undisturbed' /\ UNCHANGED <<map, handler, fenced>>
    BY <1>a, <1>5 DEF LeaseLapses, Failed, Undisturbed, Uses, shardVars
  <2> QED
    BY <1>a, <2>1 DEF ControlInv, HandlerFitsMap, MoveHasTarget, FencesAreOwned,
                      FenceIsLifted, OneMover, Routed
<1>6. CASE Abort
  <2>1. /\ map.status # "none" /\ handler'.pc = "abort unfence"
        /\ map' = [map EXCEPT !.status = "aborting"]
    BY <1>a, <1>6 DEF Abort, Goto, Handlers
  <2> QED
    BY <1>a, <1>6, <2>1
       DEF Abort, Maps, shardVars, ControlInv, HandlerFitsMap, MoveHasTarget, FencesAreOwned,
           FenceIsLifted, OneMover, Undisturbed, Routed, CopySteps, CutoverSteps,
           AbortSteps, CleanupSteps, LiftedSteps
<1>7. CASE StopHandler
  <2>1. handler'.pc = "idle" /\ used'.lapses = used.lapses
    BY <1>a, <1>7 DEF StopHandler, Rest, Resting, Failed, Uses
  <2> QED
    BY <1>a, <1>7, <2>1
       DEF StopHandler, mapVars, shardVars, ControlInv, HandlerFitsMap, MoveHasTarget, FencesAreOwned,
           FenceIsLifted, OneMover, Undisturbed, Routed, CopySteps, CutoverSteps,
           AbortSteps, CleanupSteps, LiftedSteps
<1>8. CASE UNCHANGED vars
  BY <1>a, <1>8, ControlFrame DEF vars
<1> QED
  BY <1>1, <1>2, <1>3, <1>4, <1>5, <1>6, <1>7, <1>8, TickControl DEF Next

-----------------------------------------------------------------------------
(* Theorems. *)

\* MigrationInv holds of a vbucket at rest and is kept by every step.
THEOREM MigrationSafe == Spec => []MigrationInv
<1>1. Init => MigrationInv
  <2> SUFFICES ASSUME Init PROVE MigrationInv
    OBVIOUS
  <2>1. ControlInv
    BY MigrationAssumption
       DEF Init, NoMap, Resting, ControlInv, HandlerFitsMap, MoveHasTarget, FencesAreOwned,
           FenceIsLifted, OneMover, CopySteps, CutoverSteps, AbortSteps, CleanupSteps
  <2>2. map \in Maps /\ used \in Uses /\ lock \in Operations
    BY MigrationAssumption DEF Init, NoMap, Maps, Uses, Operations
  <2>3. store \in [Shards -> [Rows -> Values]]
    BY MigrationAssumption DEF Init, Values
  <2>4. queue \in [Shards -> Seq(Jobs)] /\ batch \in [Shards -> Seq(Jobs)]
    BY EmptySeq DEF Init
  <2> QED
    BY <2>1, <2>2, <2>3, <2>4, RestingType DEF Init, MigrationInv, MigrationTypeOK
<1>2. MigrationInv /\ [Next]_vars => MigrationInv'
  BY TypeStep, ControlStep DEF MigrationInv
<1> QED
  BY <1>1, <1>2, PTL DEF Spec

\* The catalog, the shards and the requests in flight stay well-formed.
THEOREM MigrationTypes == Spec => []MigrationTypeOK
<1>1. MigrationInv => MigrationTypeOK
  BY DEF MigrationInv
<1> QED
  BY <1>1, MigrationSafe, PTL

\* A fence row outlives no move: whatever tick or abort stops half way, a
\* fenced shard is the source of a cutover or abort, or awaits its cleanup.
THEOREM FencesOwned == Spec => []FencesAreOwned
<1>1. MigrationInv => FencesAreOwned
  BY DEF MigrationInv, ControlInv
<1> QED
  BY <1>1, MigrationSafe, PTL

\* /delete-vbucket-rows never reaches the shard that serves the vbucket, as
\* long as no topology lease lapses.
THEOREM NeverWiped == Spec => RoutedCopyIsNeverWiped
<1>1. MigrationInv /\ [Next]_vars
        => [Undisturbed /\ (DeleteSource \/ WipeTarget)
              => \A s \in Shards : s = Routed => store'[s] = store[s]]_vars
  <2> SUFFICES ASSUME MigrationInv, Undisturbed, DeleteSource \/ WipeTarget,
                      NEW s \in Shards, s = Routed
               PROVE  store'[s] = store[s]
    OBVIOUS
  <2>1. s # map.cleanup /\ s # map.target
    BY DEF MigrationInv, ControlInv, OneMover, Routed
  <2>2. store \in [Shards -> [Rows -> Values]]
    BY DEF MigrationInv, MigrationTypeOK
  <2> QED
    BY <2>1, <2>2 DEF DeleteSource, WipeTarget, DeleteRows
<1> QED
  BY <1>1, MigrationSafe, PTL DEF Spec, RoutedCopyIsNeverWiped

-----------------------------------------------------------------------------
(* What the writes of clients and mirrors do to the copies. *)

\* A stray write is late on the served copy, landed on the verified one.
LEMMA StrayFacts ==
  ASSUME ghost \in Ghosts, NEW w \in Writes, NEW s \in Shards, NEW g, g = Stray(w, s)
  PROVE  /\ g \in Ghosts /\ g.truth = ghost.truth
         /\ g.stranded = ghost.stranded /\ g.purged = ghost.purged
         /\ g.undrained = ghost.undrained
         /\ g.late \subseteq ghost.late \cup {w} /\ g.landed \subseteq ghost.landed \cup {w}
         /\ s # Routed => g.late = ghost.late
         /\ ~Verified(s) => g.landed = ghost.landed
         /\ s = Routed => g.late # {}
         /\ Verified(s) => g.landed # {}
         /\ ghost.late \subseteq g.late /\ ghost.landed \subseteq g.landed
BY DEF Stray, Ghosts

\* A mirror changes the target's copy only as a stray that it had not run.
LEMMA MirrorFacts ==
  ASSUME MigrationTypeOK, ghost \in Ghosts, NEW job \in Jobs, Mirror(job)
  PROVE  /\ ghost' \in Ghosts /\ Excused' = Excused
         /\ \A t \in Shards : mirrors[t] \subseteq mirrors'[t]
         /\ MirrorApplied(job) => job.write \in mirrors'[job.to]
         /\ \/ store' = store /\ ghost' = ghost
            \/ /\ job.write \notin mirrors[job.to] /\ ghost' = Stray(job.write, job.to)
               /\ store' = [store EXCEPT ![job.to] = Run(job.write, @)]
<1> DEFINE t == job.to  w == job.write
<1>1. t \in Shards /\ w \in Writes
  BY DEF Jobs
<1>2. mirrors \in [Shards -> SUBSET Writes] /\ store \in [Shards -> [Rows -> Values]]
  BY DEF MigrationTypeOK
<1>3. CASE UNCHANGED <<store, mirrors, requests, ghost>>
           /\ (w \in mirrors[t] \/ Fails(w, store[t]))
  BY <1>3 DEF Excused, MirrorApplied
<1>4. CASE /\ w \notin mirrors[t]
           /\ store' = [store EXCEPT ![t] = Run(w, @)]
           /\ mirrors' = [mirrors EXCEPT ![t] = @ \cup {w}]
           /\ ghost' = IF Touches(w, store[t]) THEN Stray(w, t) ELSE ghost
  <2>1. /\ \A x \in Shards : mirrors[x] \subseteq mirrors'[x]
        /\ w \in mirrors'[t]
    BY <1>1, <1>2, <1>4
  <2>2. CASE Touches(w, store[t])
    <3>1. ghost' = Stray(w, t)
      BY <1>4, <2>2
    <3>2. ghost' \in Ghosts /\ Excused' = Excused
      BY <1>1, <3>1, StrayFacts DEF Excused
    <3> QED
      BY <1>4, <2>1, <3>1, <3>2
  <2>3. CASE ~Touches(w, store[t])
    <3>1. Run(w, store[t]) = store[t]
      BY <2>3 DEF Run
    <3>2. store' = store
      BY <1>1, <1>2, <1>4, <3>1
    <3> QED
      BY <1>4, <2>1, <2>3, <3>2 DEF Excused
  <2> QED
    BY <2>2, <2>3
<1> QED
  BY <1>3, <1>4 DEF Mirror

\* A write that its shard accepts: what a correct store would hold changes with
\* the served copy; on another shard the write is stranded.
LEMMA ApplyFacts ==
  ASSUME MigrationTypeOK, ghost \in Ghosts, NEW s \in Shards, NEW w \in Writes,
         NEW m \in Shards \cup {NoShard}, Apply(s, w, m)
  PROVE  /\ ghost' \in Ghosts /\ Excused \subseteq Excused'
         /\ s = Routed => /\ ghost'.truth = Run(w, ghost.truth)
                          /\ ghost'.late = ghost.late /\ ghost'.landed = ghost.landed
         /\ s # Routed => /\ ghost'.truth = ghost.truth /\ ghost'.late = ghost.late
                          /\ ghost.landed \subseteq ghost'.landed
                          /\ ghost'.landed \subseteq ghost.landed \cup Excused'
                          /\ store' = store \/ (Verified(s) => ghost'.landed # {})
         /\ store' = [store EXCEPT ![s] = Run(w, @)]
         /\ queue' # queue => /\ m # NoShard
                              /\ queue' = [queue EXCEPT ![s] =
                                             Append(@, [write |-> w, to |-> m])]
                              /\ s # Routed \/ At("intents") => w \in Excused'
<1>1. store \in [Shards -> [Rows -> Values]] /\ store[s] \in [Rows -> Values]
  BY DEF MigrationTypeOK
<1>2. Run(w, ghost.truth) \in [Rows -> Values]
  BY RunType DEF Ghosts
<1>3. CASE s = Routed
  <2>1. ghost' = [ghost EXCEPT
                    !.truth = Run(w, @),
                    !.undrained = IF Slips(w, s, m) THEN @ \cup {w} ELSE @]
    BY <1>3 DEF Apply
  <2>2. /\ ghost' \in Ghosts /\ Excused \subseteq Excused'
        /\ ghost'.truth = Run(w, ghost.truth)
        /\ ghost'.late = ghost.late /\ ghost'.landed = ghost.landed
        /\ Slips(w, s, m) => w \in Excused'
    BY <1>2, <2>1 DEF Ghosts, Excused
  <2>3. queue' # queue /\ At("intents") => Slips(w, s, m)
    BY <1>3 DEF Apply, Slips
  <2> QED
    BY <1>3, <2>2, <2>3 DEF Apply
<1>4. CASE s # Routed /\ ~Touches(w, store[s])
  <2>1. ghost' = ghost /\ queue' = queue
    BY <1>4 DEF Apply
  <2>2. store' = store
    BY <1>1, <1>4 DEF Apply, Run
  <2> QED
    BY <1>4, <2>1, <2>2 DEF Apply, Excused
<1>5. CASE s # Routed /\ Touches(w, store[s])
  <2> DEFINE g == Stray(w, s)
  <2>1. /\ g \in Ghosts /\ g.truth = ghost.truth /\ g.late = ghost.late
        /\ g.stranded = ghost.stranded /\ g.purged = ghost.purged
        /\ g.undrained = ghost.undrained /\ ghost.landed \subseteq g.landed
        /\ g.landed \subseteq ghost.landed \cup {w}
        /\ Verified(s) => g.landed # {}
    BY <1>5, StrayFacts
  <2>2. ghost' = [g EXCEPT !.stranded = @ \cup {w}]
    BY <1>5 DEF Apply
  <2> HIDE DEF g
  <2>3. /\ ghost' \in Ghosts /\ w \in Excused' /\ Excused \subseteq Excused'
        /\ ghost'.truth = ghost.truth /\ ghost'.late = ghost.late
        /\ ghost'.landed = g.landed
    BY <2>1, <2>2 DEF Ghosts, Excused
  <2> QED
    BY <1>5, <2>1, <2>3 DEF Apply
<1> QED
  BY <1>3, <1>4, <1>5

-----------------------------------------------------------------------------
(* The steps of the catalog, by what they do to the copies' bookkeeping. *)

\* Steps that touch neither a queue nor a mirror.
Moves ==
    \/ BeginBackfill \/ BeginCutover \/ BeginCleanup
    \/ Export \/ Import \/ SaveCursor \/ EnterCutover
    \/ Fence \/ CountIntents
    \/ \E s \in Shards : FirstChecksum(s)
    \/ SecondChecksum \/ CheckLease \/ Flip
    \/ LiftFence \/ Rewind \/ UnfenceSource \/ EndMigration
    \/ Abort \/ StopHandler
    \/ \E t \in Shards : RequestMigration(t)
    \/ \E c \in calls : ClaimMigration(c)

\* Steps that empty a queue.
Clears == PurgeMirrors \/ WipeTarget \/ DeleteSource

\* No step but these.
LEMMA StepCases ==
  ASSUME Next
  PROVE  \/ Client
         \/ \E s \in Shards : Alarm(s) \/ AlarmSkips(s)
         \/ \E s \in Shards : \E job \in Queued(s) : DrainMirror(job)
         \/ DrainEnds \/ Clears \/ Moves \/ LeaseLapses
BY DEF Next, Tick, Moves, Clears

\* A handler that goes to another step keeps its locals.
LEMMA GotoPc ==
  ASSUME handler \in Handlers, NEW step, Goto(step)
  PROVE  handler'.pc = step
BY DEF Handlers, Goto

\* What a move of the catalog leaves alone.
LEMMA MovesFacts ==
  ASSUME MigrationTypeOK, ghost \in Ghosts, Moves
  PROVE  /\ UNCHANGED <<queue, batch, mirrors, intents, flights>>
         /\ ghost' \in Ghosts /\ Excused' = Excused /\ ghost'.truth = ghost.truth
         /\ ghost'.late \cup ghost'.landed \subseteq ghost.late \cup ghost.landed
         /\ handler'.pc \in DrainedSteps => handler.pc \in DrainedSteps
         /\ Routed' = Routed \/ handler.pc = "flip"
<1>a. map \in Maps /\ handler \in Handlers
  BY DEF MigrationTypeOK
<1>b. Resting.pc = "idle" /\ [Resting EXCEPT !.pc = "fence"].pc = "fence"
  BY DEF Resting
<1>1. CASE UNCHANGED <<ghost, map>>
           /\ (BeginBackfill \/ BeginCutover \/ BeginCleanup \/ Export \/ Import)
  <2>1. UNCHANGED <<queue, batch, mirrors, intents, flights>>
    BY <1>1 DEF BeginBackfill, BeginCutover, BeginCleanup, Export, Import, shardVars,
                tickVars
  <2>2. handler'.pc \in {"export", "fence", "delete", "import", "save"}
    BY <1>a, <1>1, GotoPc DEF BeginBackfill, BeginCutover, BeginCleanup, Export, Import,
                              Handlers
  <2> QED
    BY <1>1, <2>1, <2>2 DEF Excused, Routed, DrainedSteps
<1>2. CASE SaveCursor \/ EnterCutover \/ Rewind \/ EndMigration \/ Abort
  <2>1. UNCHANGED <<queue, batch, mirrors, intents, flights, ghost>>
    BY <1>2 DEF SaveCursor, EnterCutover, Rewind, EndMigration, Abort, shardVars, tickVars
  <2>2. handler'.pc \in {"idle", "fence", "abort unfence"}
    BY <1>a, <1>b, <1>2, GotoPc DEF SaveCursor, EnterCutover, Rewind, EndMigration, Abort, Rest
  <2>3. Routed' = Routed
    BY <1>a, <1>2 DEF SaveCursor, EnterCutover, Rewind, EndMigration, Abort, Routed,
                      Maps, NoMap
  <2> QED
    BY <2>1, <2>2, <2>3 DEF Excused, DrainedSteps
<1>3. CASE Fence \/ LiftFence \/ UnfenceSource \/ StopHandler
  <2>1. UNCHANGED <<queue, batch, mirrors, intents, flights, ghost, map>>
    BY <1>3 DEF Fence, LiftFence, UnfenceSource, StopHandler, mapVars, shardVars, tickVars
  <2>2. handler'.pc \in {"drain", "purge", "abort purge", "release", "idle"}
    BY <1>a, <1>b, <1>3, GotoPc DEF Fence, LiftFence, UnfenceSource, StopHandler, Rest
  <2> QED
    BY <2>1, <2>2 DEF Excused, DrainedSteps, Routed
<1>4. CASE CountIntents \/ SecondChecksum \/ CheckLease
  <2>1. UNCHANGED <<queue, batch, mirrors, intents, flights, ghost, map>>
    BY <1>4 DEF CountIntents, SecondChecksum, CheckLease, mapVars, shardVars, tickVars
  <2>2. handler.pc \in DrainedSteps
    BY <1>4 DEF CountIntents, SecondChecksum, CheckLease, At, DrainedSteps
  <2> QED
    BY <2>1, <2>2 DEF Excused, Routed
<1>5. ASSUME NEW s \in Shards, FirstChecksum(s)
      PROVE  /\ UNCHANGED <<queue, batch, mirrors, intents, flights, map>>
             /\ ghost' = [ghost EXCEPT !.landed = {}] /\ handler.pc \in DrainedSteps
  BY <1>5 DEF FirstChecksum, At, DrainedSteps, mapVars, shardVars, tickVars
<1>6. CASE Flip
  <2>1. /\ UNCHANGED <<queue, batch, mirrors, intents, flights>> /\ handler.pc = "flip"
        /\ ghost' = [ghost EXCEPT !.late = IF @ = {} THEN ghost.landed ELSE @,
                                  !.landed = {}]
    BY <1>6 DEF Flip, At, shardVars, tickVars
  <2>2. /\ ghost' \in Ghosts /\ Excused' = Excused /\ ghost'.truth = ghost.truth
        /\ ghost'.late \cup ghost'.landed \subseteq ghost.late \cup ghost.landed
    BY <2>1 DEF Ghosts, Excused
  <2> QED
    BY <2>1, <2>2 DEF DrainedSteps
<1>7. CASE (\E t \in Shards : RequestMigration(t)) \/ (\E c \in calls : ClaimMigration(c))
  <2>1. UNCHANGED <<queue, batch, mirrors, intents, flights, ghost, handler>>
    BY <1>7 DEF RequestMigration, ClaimMigration, shardVars
  <2>2. Routed' = Routed
    BY <1>a, <1>7 DEF RequestMigration, ClaimMigration, Routed, Maps
  <2> QED
    BY <2>1, <2>2 DEF Excused
<1>8. CASE \E s \in Shards : FirstChecksum(s)
  <2>1. /\ UNCHANGED <<queue, batch, mirrors, intents, flights, map>>
        /\ ghost' = [ghost EXCEPT !.landed = {}] /\ handler.pc \in DrainedSteps
    BY <1>5, <1>8
  <2> QED
    BY <2>1 DEF Ghosts, Excused, Routed
<1>9. BeginBackfill \/ BeginCutover \/ BeginCleanup \/ Export \/ Import
        => UNCHANGED <<ghost, map>>
  BY DEF BeginBackfill, BeginCutover, BeginCleanup, Export, Import, mapVars
<1> QED
  BY <1>1, <1>2, <1>3, <1>4, <1>6, <1>7, <1>8, <1>9 DEF Moves

\* Emptying a queue excuses the mirrors that were never delivered.
LEMMA ClearsFacts ==
  ASSUME MigrationInv, ghost \in Ghosts, Clears
  PROVE  /\ UNCHANGED <<batch, mirrors, intents, flights, map>>
         /\ ghost' \in Ghosts /\ Excused \subseteq Excused' /\ ghost'.truth = ghost.truth
         /\ ghost'.late = ghost.late /\ ghost'.landed = ghost.landed
         /\ handler'.pc \notin DrainedSteps /\ handler'.pc # "drain"
         /\ \E s \in Shards : /\ queue' = [queue EXCEPT ![s] = <<>>]
                              /\ Purged(s) \subseteq Excused'
                              /\ store' = store \/ s = map.target \/ s = map.cleanup
                              /\ \A x \in Shards : x # s => store'[x] = store[x]
<1>a. /\ MigrationTypeOK /\ handler \in Handlers /\ map \in Maps
      /\ HandlerFitsMap /\ MoveHasTarget /\ store \in [Shards -> [Rows -> Values]]
  BY DEF MigrationInv, MigrationTypeOK, ControlInv
<1>b. \A s \in Shards : Purged(s) \subseteq Writes
  BY <1>a, QueuedType DEF Purged, Jobs
<1>1. PICK s \in Shards :
        /\ queue' = [queue EXCEPT ![s] = <<>>]
        /\ ghost' = [ghost EXCEPT !.purged = @ \cup Purged(s)]
        /\ store' = store \/ s = map.target \/ s = map.cleanup
        /\ \A x \in Shards : x # s => store'[x] = store[x]
  <2>1. CASE PurgeMirrors
    <3>1. map.shard \in Shards
      BY <1>a DEF Maps
    <3> QED
      BY <2>1, <3>1 DEF PurgeMirrors
  <2>2. CASE WipeTarget
    <3>1. map.target \in Shards
      BY <1>a, <2>2 DEF WipeTarget, At, HandlerFitsMap, MoveHasTarget, CutoverSteps,
                        AbortSteps, Maps
    <3> QED
      BY <1>a, <2>2, <3>1 DEF WipeTarget, DeleteRows
  <2>3. CASE DeleteSource
    <3>1. map.cleanup \in Shards
      BY <1>a, <2>3 DEF DeleteSource, At, HandlerFitsMap, CleanupSteps, Maps
    <3> QED
      BY <1>a, <2>3, <3>1 DEF DeleteSource, DeleteRows
  <2> QED
    BY <2>1, <2>2, <2>3 DEF Clears
<1>2. /\ ghost' \in Ghosts /\ Excused \subseteq Excused' /\ ghost'.truth = ghost.truth
      /\ ghost'.late = ghost.late /\ ghost'.landed = ghost.landed
      /\ Purged(s) \subseteq Excused'
  BY <1>b, <1>1 DEF Ghosts, Excused
<1>3. UNCHANGED <<batch, mirrors, intents, flights, map>>
  BY DEF Clears, PurgeMirrors, WipeTarget, DeleteSource, mapVars, tickVars
<1>4. handler'.pc \in {"wipe", "abort wipe", "rewind", "clear", "unfence source"}
  BY <1>a, GotoPc DEF Clears, PurgeMirrors, WipeTarget, DeleteSource
<1> QED
  BY <1>1, <1>2, <1>3, <1>4 DEF DrainedSteps

-----------------------------------------------------------------------------
(* The parts of CopyParts, one by one. *)

\* The jobs of a queue or a batch go to shards.
LEMMA KnownType ==
  ASSUME MigrationTypeOK, NEW s \in Shards
  PROVE  Known(s) \subseteq Jobs /\ Queued(s) = Items(queue[s])
BY LenProperties, ElementOfSeq DEF MigrationTypeOK, Known, Queued, Batched, Items

\* A queued job that was delivered leaves the queue, the others stay.
LEMMA KnownAfterDelivery ==
  ASSUME MigrationTypeOK, NEW s \in Shards, NEW job,
         queue' = queue \/ queue' = [queue EXCEPT ![s] = RemoveFirst(@, job)]
  PROVE  \A x \in Shards : /\ Queued(x)' \subseteq Queued(x)
                           /\ Queued(x) \subseteq Queued(x)' \/ queue' # queue
                           /\ Queued(x) \ {job} \subseteq Queued(x)'
                           /\ x # s => Queued(x)' = Queued(x)
<1> SUFFICES ASSUME NEW x \in Shards
             PROVE  /\ Queued(x)' \subseteq Queued(x)
                    /\ Queued(x) \subseteq Queued(x)' \/ queue' # queue
                    /\ Queued(x) \ {job} \subseteq Queued(x)'
                    /\ x # s => Queued(x)' = Queued(x)
  OBVIOUS
<1>1. Queued(x) = Items(queue[x]) /\ Queued(x)' = Items(queue'[x])
  BY DEF Queued, Items
<1>2. queue \in [Shards -> Seq(Jobs)]
  BY DEF MigrationTypeOK
<1>3. /\ Items(RemoveFirst(queue[s], job)) \subseteq Items(queue[s])
      /\ Items(queue[s]) \ {job} \subseteq Items(RemoveFirst(queue[s], job))
  BY <1>2, ItemsOfRemoveFirst
<1>4. queue'[x] = queue[x] \/ (x = s /\ queue'[x] = RemoveFirst(queue[s], job) /\ queue' # queue)
  BY <1>2
<1> QED
  BY <1>1, <1>3, <1>4

\* What a shard's mirror alarm does.
LEMMA AlarmFacts ==
  ASSUME MigrationTypeOK, ghost \in Ghosts, NEW s \in Shards, Alarm(s) \/ AlarmSkips(s)
  PROVE  /\ UNCHANGED <<map, handler, fenced, intents, flights>>
         /\ \A x \in Shards : Batched(x)' \subseteq Known(x) /\ Queued(x)' \subseteq Queued(x)
         /\ \/ UNCHANGED <<queue, store, mirrors, ghost>>
            \/ \E job \in Batched(s) :
                 /\ Mirror(job)
                 /\ \A x \in Shards :
                      \/ Queued(x)' = Queued(x)
                      \/ MirrorApplied(job) /\ Queued(x) \ {job} \subseteq Queued(x)'
<1>a. queue \in [Shards -> Seq(Jobs)] /\ batch \in [Shards -> Seq(Jobs)]
  BY DEF MigrationTypeOK
<1>1. CASE AlarmReads(s)
  <2>1. batch' = [batch EXCEPT ![s] = queue[s]]
    BY <1>1 DEF AlarmReads
  <2>2. \A x \in Shards : batch'[x] = batch[x] \/ batch'[x] = queue[x]
    BY <1>a, <2>1
  <2> QED
    BY <1>1, <2>2 DEF AlarmReads, Known, Batched, Queued, Items, mapVars, shardVars
<1>2. ASSUME batch[s] # <<>>, batch' = [batch EXCEPT ![s] = Tail(@)]
      PROVE  /\ Head(batch[s]) \in Batched(s) /\ Head(batch[s]) \in Jobs
             /\ \A x \in Shards : Batched(x)' \subseteq Batched(x)
  <2>1. Head(batch[s]) \in Items(batch[s]) /\ Items(Tail(batch[s])) \subseteq Items(batch[s])
    BY <1>a, <1>2, ItemsOfTail
  <2>2. Head(batch[s]) \in Jobs
    BY <1>a, <1>2, HeadTailProperties
  <2>3. \A x \in Shards : batch'[x] = batch[x] \/ (x = s /\ batch'[x] = Tail(batch[s]))
    BY <1>a, <1>2
  <2> QED
    BY <2>1, <2>2, <2>3 DEF Batched
<1>3. CASE AlarmDelivers(s)
  <2> DEFINE job == Head(batch[s])
  <2>1. /\ job \in Batched(s) /\ job \in Jobs
        /\ \A x \in Shards : Batched(x)' \subseteq Batched(x)
    BY <1>2, <1>3 DEF AlarmDelivers
  <2>2. Mirror(job) /\ UNCHANGED <<map, handler, fenced, intents, flights>>
    BY <1>3 DEF AlarmDelivers, mapVars
  <2>3. \/ queue' = queue
        \/ MirrorApplied(job) /\ queue' = [queue EXCEPT ![s] = RemoveFirst(@, job)]
    BY <1>3 DEF AlarmDelivers
  <2>4. \A x \in Shards : /\ Queued(x)' \subseteq Queued(x)
                          /\ Queued(x) \ {job} \subseteq Queued(x)'
    BY <2>3, KnownAfterDelivery
  <2>5. queue' = queue => \A x \in Shards : Queued(x)' = Queued(x)
    BY DEF Queued
  <2> HIDE DEF job
  <2> QED
    BY <2>1, <2>2, <2>3, <2>4, <2>5 DEF Known
<1>4. CASE AlarmSkips(s)
  <2>1. \A x \in Shards : Batched(x)' \subseteq Batched(x)
    BY <1>2, <1>4 DEF AlarmSkips
  <2> QED
    BY <1>4, <2>1 DEF AlarmSkips, Known, Queued, mapVars, shardVars
<1> QED
  BY <1>1, <1>3, <1>4 DEF Alarm

\* A delivery of the drain takes its job off the served shard's queue.
LEMMA DrainFacts ==
  ASSUME MigrationTypeOK, ghost \in Ghosts, NEW s \in Shards, NEW job \in Queued(s),
         DrainMirror(job)
  PROVE  /\ UNCHANGED <<map, handler, fenced, intents, flights, batch>>
         /\ At("drain") /\ Mirror(job) /\ MirrorApplied(job) /\ job \in Queued(map.shard)
         /\ \A x \in Shards : /\ Queued(x)' \subseteq Queued(x)
                              /\ Queued(x) \ {job} \subseteq Queued(x)'
<1>1. map.shard \in Shards
  BY DEF MigrationTypeOK, Maps
<1>2. /\ UNCHANGED <<map, handler, fenced, intents, flights, batch>>
      /\ At("drain") /\ Mirror(job) /\ MirrorApplied(job) /\ job \in Queued(map.shard)
      /\ queue' = [queue EXCEPT ![map.shard] = RemoveFirst(@, job)]
  BY DEF DrainMirror, mapVars, tickVars
<1> QED
  BY <1>1, <1>2, KnownAfterDelivery

\* A client's step as the copies see it.
LEMMA ClientFacts ==
  ASSUME MigrationTypeOK, ghost \in Ghosts, Client
  PROVE  /\ UNCHANGED <<map, handler, fenced, batch, mirrors>>
         /\ \/ UNCHANGED <<store, queue, ghost>>
            \/ \E s \in Shards, w \in Writes, m \in Shards \cup {NoShard} :
                 /\ Apply(s, w, m)
                 /\ \/ /\ s \notin fenced
                       /\ [write |-> w, shard |-> s, mirror |-> m] \in flights
                    \/ [write |-> w, mirror |-> m] \in intents[s]
<1>a. flights \subseteq Requests /\ intents \in [Shards -> SUBSET Intents]
  BY DEF MigrationTypeOK
<1>1. ASSUME NEW w \in Writes, Route(w)
      PROVE  UNCHANGED <<map, handler, fenced, batch, mirrors, store, queue, ghost>>
  BY <1>1 DEF Route, mapVars, shardVars
<1>2. ASSUME NEW f \in flights, Execute(f)
      PROVE  /\ UNCHANGED <<map, handler, fenced, batch, mirrors>>
             /\ \/ UNCHANGED <<store, queue, ghost>>
                \/ Apply(f.shard, f.write, f.mirror) /\ f.shard \notin fenced
  BY <1>2 DEF Execute, Refused, mapVars
<1>3. ASSUME NEW f \in flights, Prepare(f)
      PROVE  UNCHANGED <<map, handler, fenced, batch, mirrors, store, queue, ghost>>
  BY <1>3 DEF Prepare, mapVars
<1>4. ASSUME NEW s \in Shards, NEW i \in intents[s], CommitIntent(s, i)
      PROVE  /\ UNCHANGED <<map, handler, fenced, batch, mirrors>>
             /\ Apply(s, i.write, i.mirror)
  BY <1>4 DEF CommitIntent, mapVars
<1>5. ASSUME NEW s \in Shards, NEW i \in intents[s], AbortIntent(s, i)
      PROVE  UNCHANGED <<map, handler, fenced, batch, mirrors, store, queue, ghost>>
  BY <1>5 DEF AbortIntent, mapVars
<1>6. \A f \in flights :
        /\ f.shard \in Shards /\ f.write \in Writes /\ f.mirror \in Shards \cup {NoShard}
        /\ f = [write |-> f.write, shard |-> f.shard, mirror |-> f.mirror]
  BY <1>a DEF Requests
<1>7. \A s \in Shards : \A i \in intents[s] :
        /\ i.write \in Writes /\ i.mirror \in Shards \cup {NoShard}
        /\ i = [write |-> i.write, mirror |-> i.mirror]
  BY <1>a DEF Intents
<1>8. CASE \E w \in Writes : Route(w)
  BY <1>1, <1>8
<1>9. CASE \E f \in flights : Execute(f)
  BY <1>2, <1>6, <1>9
<1>10. CASE \E f \in flights : Prepare(f)
  BY <1>3, <1>10
<1>11. CASE \E s \in Shards : \E i \in intents[s] : CommitIntent(s, i)
  <2>1. PICK s \in Shards : \E i \in intents[s] : CommitIntent(s, i)
    BY <1>11
  <2>2. PICK i \in intents[s] : CommitIntent(s, i)
    BY <2>1
  <2>3. UNCHANGED <<map, handler, fenced, batch, mirrors>> /\ Apply(s, i.write, i.mirror)
    BY <1>4, <2>2
  <2>4. /\ i.write \in Writes /\ i.mirror \in Shards \cup {NoShard}
        /\ [write |-> i.write, mirror |-> i.mirror] \in intents[s]
    BY <1>7
  <2> QED
    BY <2>3, <2>4
<1>12. CASE \E s \in Shards : \E i \in intents[s] : AbortIntent(s, i)
  BY <1>5, <1>12
<1> QED
  BY <1>8, <1>9, <1>10, <1>11, <1>12 DEF Client

\* A write that is accepted adds at most one job, to its shard's queue.
LEMMA KnownAfterApply ==
  ASSUME MigrationTypeOK, ghost \in Ghosts, batch' = batch, NEW s \in Shards,
         NEW w \in Writes, NEW m \in Shards \cup {NoShard}, Apply(s, w, m)
  PROVE  \A x \in Shards : \A job \in Known(x)' :
            \/ job \in Known(x) /\ (job \in Queued(x) => job \in Queued(x)')
            \/ /\ x = s /\ m # NoShard /\ job = [write |-> w, to |-> m]
               /\ s # Routed \/ At("intents") => w \in Excused'
               /\ job \in Queued(x)'
<1>a. queue \in [Shards -> Seq(Jobs)]
  BY DEF MigrationTypeOK
<1>b. \A x : Queued(x) = Items(queue[x]) /\ Queued(x)' = Items(queue'[x])
  BY DEF Queued, Items
<1>c. \A x : Batched(x)' = Batched(x)
  BY DEF Batched
<1>1. CASE queue' = queue
  BY <1>1, <1>b, <1>c DEF Known
<1>2. CASE queue' # queue
  <2> DEFINE job == [write |-> w, to |-> m]
  <2>1. /\ m # NoShard /\ queue' = [queue EXCEPT ![s] = Append(@, job)]
        /\ s # Routed \/ At("intents") => w \in Excused'
    BY <1>2, ApplyFacts
  <2>2. job \in Jobs
    BY <2>1 DEF Jobs
  <2> HIDE DEF job
  <2>3. Items(queue'[s]) = Items(queue[s]) \cup {job}
    BY <1>a, <2>1, <2>2, ItemsOfAppend
  <2>4. \A x \in Shards : x # s => queue'[x] = queue[x]
    BY <1>a, <2>1
  <2> QED
    BY <1>b, <1>c, <2>1, <2>3, <2>4 DEF Known, job
<1> QED
  BY <1>1, <1>2

\* A shard mirrors to others only: the gateway names the target of the move.
LEMMA ElsewhereStep ==
  ASSUME MigrationInv, ghost \in Ghosts, Undisturbed, MirrorsGoElsewhere, Next,
         ~LeaseLapses
  PROVE  MirrorsGoElsewhere'
<1>a. /\ MigrationTypeOK /\ map \in Maps /\ map.target # map.shard
      /\ NoShard \notin Shards /\ flights \subseteq Requests
      /\ intents \in [Shards -> SUBSET Intents]
  BY MigrationAssumption DEF MigrationInv, MigrationTypeOK, ControlInv, OneMover
<1>1. ASSUME flights' \subseteq flights, \A s \in Shards : intents'[s] \subseteq intents[s],
             \A s \in Shards : Known(s)' \subseteq Known(s)
      PROVE  MirrorsGoElsewhere'
  BY <1>1 DEF MirrorsGoElsewhere
<1>2. CASE Client
  <2>1. \A s \in Shards : \A job \in Known(s)' : job.to # s
    <3>1. CASE UNCHANGED <<store, queue, ghost>>
      BY <1>a, <1>2, <3>1, ClientFacts DEF MirrorsGoElsewhere, Known, Queued, Batched
    <3>2. ASSUME NEW s \in Shards, NEW w \in Writes, NEW m \in Shards \cup {NoShard},
                 Apply(s, w, m), m # s, batch' = batch
          PROVE  \A x \in Shards : \A job \in Known(x)' : job.to # x
      BY <1>a, <3>2, KnownAfterApply DEF MirrorsGoElsewhere
    <3>3. \A f \in flights : f.mirror # f.shard
      BY DEF MirrorsGoElsewhere
    <3>4. \A s \in Shards : \A i \in intents[s] : i.mirror # s
      BY DEF MirrorsGoElsewhere
    <3> QED
      BY <1>a, <1>2, <3>1, <3>2, <3>3, <3>4, ClientFacts
  <2>2. \A f \in flights' : f.mirror # f.shard
    <3>1. \/ flights' \subseteq flights
          \/ \E w \in Writes : flights' = flights \cup
               {[write |-> w, shard |-> Routed,
                 mirror |-> IF map.status \in {"backfilling", "cutover"}
                            THEN map.target ELSE NoShard]}
      BY <1>2 DEF Client, Route, Execute, Prepare, CommitIntent, AbortIntent
    <3>2. map.shard # NoShard
      BY <1>a DEF Maps
    <3> QED
      BY <1>a, <3>1, <3>2 DEF MirrorsGoElsewhere, Routed
  <2>3. \A s \in Shards : \A i \in intents'[s] : i.mirror # s
    <3>1. CASE \E w \in Writes : Route(w)
      BY <3>1 DEF Route, shardVars, MirrorsGoElsewhere
    <3>2. CASE \E f \in flights : Execute(f)
      BY <3>2 DEF Execute, MirrorsGoElsewhere
    <3>3. CASE \E f \in flights : Prepare(f)
      <4>1. PICK f \in flights : Prepare(f)
        BY <3>3
      <4>2. f.shard \in Shards /\ f.mirror # f.shard
        BY <1>a DEF Requests, MirrorsGoElsewhere
      <4>3. \/ intents' = intents
            \/ intents' = [intents EXCEPT ![f.shard] =
                             @ \cup {[write |-> f.write, mirror |-> f.mirror]}]
        BY <4>1 DEF Prepare
      <4> QED
        BY <1>a, <4>2, <4>3 DEF MirrorsGoElsewhere
    <3>4. CASE \E s \in Shards : \E i \in intents[s] : CommitIntent(s, i) \/ AbortIntent(s, i)
      <4>1. PICK s \in Shards : \E i : intents' = [intents EXCEPT ![s] = @ \ {i}]
        BY <3>4 DEF CommitIntent, AbortIntent
      <4> QED
        BY <1>a, <4>1 DEF MirrorsGoElsewhere
    <3> QED
      BY <1>2, <3>1, <3>2, <3>3, <3>4 DEF Client
  <2> QED
    BY <2>1, <2>2, <2>3 DEF MirrorsGoElsewhere
<1>3. ASSUME NEW s \in Shards, Alarm(s) \/ AlarmSkips(s) PROVE MirrorsGoElsewhere'
  <2>1. /\ \A x \in Shards : Batched(x)' \subseteq Known(x) /\ Queued(x)' \subseteq Queued(x)
        /\ UNCHANGED <<intents, flights>>
    BY <1>a, <1>3, AlarmFacts
  <2> QED
    BY <1>1, <2>1 DEF Known
<1>4. ASSUME NEW s \in Shards, NEW job \in Queued(s), DrainMirror(job)
      PROVE  MirrorsGoElsewhere'
  <2>1. /\ \A x \in Shards : Queued(x)' \subseteq Queued(x)
        /\ UNCHANGED <<intents, flights, batch>>
    BY <1>a, <1>4, DrainFacts
  <2> QED
    BY <1>1, <2>1 DEF Known, Batched
<1>5. CASE DrainEnds
  <2>1. UNCHANGED <<queue, batch, intents, flights>>
    BY <1>5 DEF DrainEnds, shardVars, tickVars
  <2> QED
    BY <2>1 DEF MirrorsGoElsewhere, Known, Queued, Batched
<1>6. CASE Clears
  <2>1. PICK s \in Shards : /\ queue' = [queue EXCEPT ![s] = <<>>]
                            /\ UNCHANGED <<batch, intents, flights>>
    BY <1>6, ClearsFacts
  <2>2. \A x \in Shards : queue'[x] = queue[x] \/ queue'[x] = <<>>
    BY <1>a, <2>1 DEF MigrationTypeOK
  <2>3. \A x \in Shards : Known(x)' \subseteq Known(x)
    BY <2>1, <2>2 DEF Known, Queued, Batched
  <2> QED
    BY <1>1, <2>1, <2>3
<1>7. CASE Moves
  <2>1. UNCHANGED <<queue, batch, intents, flights>>
    BY <1>a, <1>7, MovesFacts
  <2> QED
    BY <2>1 DEF MirrorsGoElsewhere, Known, Queued, Batched
<1> QED
  BY <1>2, <1>3, <1>4, <1>5, <1>6, <1>7, StepCases

\* The cutover fences its source first; behind the fence no intent is prepared.
LEMMA QuietStep ==
  ASSUME MigrationInv, ghost \in Ghosts, Undisturbed, SourceIsQuiet, Next, ~LeaseLapses
  PROVE  SourceIsQuiet'
<1>a. /\ MigrationTypeOK /\ map \in Maps /\ handler \in Handlers
      /\ flights \subseteq Requests /\ intents \in [Shards -> SUBSET Intents]
  BY DEF MigrationInv, MigrationTypeOK
<1>b. Resting.pc = "idle" /\ [Resting EXCEPT !.pc = "fence"].pc = "fence"
  BY DEF Resting
<1>1. ASSUME UNCHANGED <<map, handler, fenced, intents>> PROVE SourceIsQuiet'
  BY <1>1 DEF SourceIsQuiet, Routed
<1>2. ASSUME handler'.pc \notin DrainedSteps \cup {"drain"} PROVE SourceIsQuiet'
  BY <1>2 DEF SourceIsQuiet, DrainedSteps, QuietSteps
<1>3. CASE Client
  <2>1. UNCHANGED <<map, handler, fenced>>
    BY <1>a, <1>3, ClientFacts
  <2>2. \A s \in Shards : intents'[s] \subseteq intents[s] \/ s \notin fenced
    <3>1. CASE \E w \in Writes : Route(w)
      BY <3>1 DEF Route, shardVars
    <3>2. CASE \E f \in flights : Execute(f)
      BY <3>2 DEF Execute
    <3>3. CASE \E f \in flights : Prepare(f)
      <4>1. PICK f \in flights : Prepare(f)
        BY <3>3
      <4>2. \/ intents' = intents
            \/ /\ f.shard \notin fenced
               /\ intents' = [intents EXCEPT ![f.shard] =
                                @ \cup {[write |-> f.write, mirror |-> f.mirror]}]
        BY <4>1 DEF Prepare, Refused
      <4> QED
        BY <1>a, <4>2
    <3>4. CASE \E s \in Shards : \E i \in intents[s] : CommitIntent(s, i) \/ AbortIntent(s, i)
      <4>1. PICK s \in Shards : \E i : intents' = [intents EXCEPT ![s] = @ \ {i}]
        BY <3>4 DEF CommitIntent, AbortIntent
      <4> QED
        BY <1>a, <4>1
    <3> QED
      BY <1>3, <3>1, <3>2, <3>3, <3>4 DEF Client
  <2> QED
    BY <1>a, <2>1, <2>2 DEF SourceIsQuiet, Routed, Maps, QuietSteps, DrainedSteps
<1>4. ASSUME NEW s \in Shards, Alarm(s) \/ AlarmSkips(s) PROVE SourceIsQuiet'
  BY <1>a, <1>1, <1>4, AlarmFacts
<1>5. ASSUME NEW s \in Shards, NEW job \in Queued(s), DrainMirror(job) PROVE SourceIsQuiet'
  BY <1>a, <1>1, <1>5, DrainFacts
<1>6. CASE DrainEnds
  <2>1. UNCHANGED <<map, fenced, intents>> /\ handler.pc = "drain"
    BY <1>6 DEF DrainEnds, At, mapVars, shardVars
  <2>2. handler'.pc \in {"intents", "idle"}
    BY <1>a, <1>b, <1>6, GotoPc DEF DrainEnds, Rest
  <2> QED
    BY <2>1, <2>2 DEF SourceIsQuiet, Routed, QuietSteps
<1>7. CASE Clears
  BY <1>2, <1>7, ClearsFacts
<1>8. CASE Fence
  <2>1. handler'.pc = "drain" /\ map' = map /\ fenced' = fenced \cup {map.shard}
    BY <1>a, <1>8, GotoPc DEF Fence, mapVars
  <2> QED
    BY <2>1 DEF SourceIsQuiet, Routed, QuietSteps
<1>9. CASE CountIntents
  <2>1. UNCHANGED <<map, fenced, intents>> /\ handler.pc = "intents"
    BY <1>9 DEF CountIntents, At, mapVars, shardVars
  <2>2. handler'.pc = "idle" \/ intents[map.shard] = {}
    BY <1>b, <1>9 DEF CountIntents, Rest
  <2> QED
    BY <2>1, <2>2 DEF SourceIsQuiet, Routed, QuietSteps, DrainedSteps
<1>10. CASE (\E s \in Shards : FirstChecksum(s)) \/ SecondChecksum \/ CheckLease
  <2>1. UNCHANGED <<map, fenced, intents>> /\ handler.pc \in QuietSteps
    BY <1>10 DEF FirstChecksum, SecondChecksum, CheckLease, At, QuietSteps, mapVars, shardVars
  <2> QED
    BY <2>1 DEF SourceIsQuiet, Routed, QuietSteps, DrainedSteps
<1>11. CASE (\E t \in Shards : RequestMigration(t)) \/ (\E c \in calls : ClaimMigration(c))
  <2>1. UNCHANGED <<fenced, intents, handler>>
    BY <1>11 DEF RequestMigration, ClaimMigration, shardVars
  <2>2. Routed' = Routed
    BY <1>a, <1>11 DEF RequestMigration, ClaimMigration, Routed, Maps
  <2> QED
    BY <2>1, <2>2 DEF SourceIsQuiet
<1>12. CASE BeginBackfill \/ BeginCutover \/ BeginCleanup \/ Export \/ Import
  <2>1. handler'.pc \in {"export", "fence", "delete", "import", "save"}
    BY <1>a, <1>12, GotoPc DEF BeginBackfill, BeginCutover, BeginCleanup, Export, Import,
                               Handlers
  <2> QED
    BY <1>2, <2>1 DEF DrainedSteps
<1>13. CASE SaveCursor \/ EnterCutover \/ Rewind \/ EndMigration \/ Abort
            \/ LiftFence \/ UnfenceSource \/ StopHandler \/ Flip
  <2>1. handler'.pc \in {"idle", "fence", "abort unfence", "purge", "abort purge", "release",
                         "delete"}
    BY <1>a, <1>b, <1>13, GotoPc
       DEF SaveCursor, EnterCutover, Rewind, EndMigration, Abort, LiftFence, UnfenceSource,
           StopHandler, Flip, Rest
  <2> QED
    BY <1>2, <2>1 DEF DrainedSteps
<1> QED
  BY <1>3, <1>4, <1>5, <1>6, <1>7, <1>8, <1>9, <1>10, <1>11, <1>12, <1>13, StepCases DEF Moves

\* No mirror gets lost between a queue, a batch and its target, unless a queue
\* was emptied, its write was stranded or it slipped past the drain.
LEMMA JobsStep ==
  ASSUME MigrationInv, ghost \in Ghosts, Undisturbed, SourceIsQuiet, JobsAreAccounted,
         Next, ~LeaseLapses
  PROVE  JobsAreAccounted'
<1>a. /\ MigrationTypeOK /\ map \in Maps /\ handler \in Handlers
      /\ \A s \in Shards : Known(s) \subseteq Jobs
      /\ mirrors \in [Shards -> SUBSET Writes] /\ queue \in [Shards -> Seq(Jobs)]
  BY KnownType DEF MigrationInv, MigrationTypeOK
<1>b. \A s \in Shards : \A job \in Known(s) :
        job.write \in Excused \/ job.write \in mirrors[job.to] \/ Waits(s, job)
  BY DEF JobsAreAccounted
<1>1. CASE Client
  <2>1. UNCHANGED <<map, handler, fenced, batch, mirrors>>
    BY <1>a, <1>1, ClientFacts
  <2>2. CASE UNCHANGED <<store, queue, ghost>>
    BY <2>1, <2>2 DEF JobsAreAccounted, Waits, Routed, Known, Queued, Batched, Excused
  <2>3. ASSUME NEW s \in Shards, NEW w \in Writes, NEW m \in Shards \cup {NoShard},
               Apply(s, w, m), s \notin fenced \/ intents[s] # {}
        PROVE  JobsAreAccounted'
    <3>1. s = Routed => handler.pc \notin QuietSteps
      BY <2>3 DEF SourceIsQuiet, QuietSteps, DrainedSteps
    <3>2. Excused \subseteq Excused'
      BY <1>a, <2>3, ApplyFacts
    <3> SUFFICES ASSUME NEW x \in Shards, NEW job \in Known(x)'
                 PROVE  \/ job.write \in Excused' \/ job.write \in mirrors'[job.to]
                        \/ Waits(x, job)'
      BY DEF JobsAreAccounted
    <3>3. CASE job \in Known(x) /\ (job \in Queued(x) => job \in Queued(x)')
      BY <1>b, <2>1, <3>2, <3>3 DEF Waits, Routed
    <3>4. CASE /\ x = s /\ m # NoShard /\ job = [write |-> w, to |-> m]
               /\ s # Routed \/ At("intents") => w \in Excused'
               /\ job \in Queued(x)'
      BY <2>1, <3>1, <3>4 DEF Waits, Routed, At, QuietSteps, DrainedSteps
    <3> QED
      BY <1>a, <2>1, <2>3, <3>3, <3>4, KnownAfterApply
  <2> QED
    BY <1>a, <1>1, <2>2, <2>3, ClientFacts
<1>2. ASSUME NEW job \in Jobs, Mirror(job), UNCHANGED <<map, handler>>,
             \A x \in Shards : /\ Known(x)' \subseteq Known(x)
                               /\ \/ Queued(x)' = Queued(x)
                                  \/ /\ MirrorApplied(job)
                                     /\ Queued(x) \ {job} \subseteq Queued(x)'
      PROVE  JobsAreAccounted'
  <2>1. /\ Excused' = Excused
        /\ \A t \in Shards : mirrors[t] \subseteq mirrors'[t]
        /\ MirrorApplied(job) => job.write \in mirrors'[job.to]
    BY <1>a, <1>2, MirrorFacts
  <2> SUFFICES ASSUME NEW x \in Shards, NEW j \in Known(x)'
               PROVE  j.write \in Excused' \/ j.write \in mirrors'[j.to] \/ Waits(x, j)'
    BY DEF JobsAreAccounted
  <2>2. j \in Known(x) /\ j.to \in Shards
    BY <1>a, <1>2 DEF Jobs
  <2>3. CASE Waits(x, j)
    BY <1>2, <2>1, <2>3 DEF Waits, Routed
  <2> QED
    BY <1>b, <2>1, <2>2, <2>3
<1>3. ASSUME NEW s \in Shards, Alarm(s) \/ AlarmSkips(s) PROVE JobsAreAccounted'
  <2>1. /\ UNCHANGED <<map, handler>>
        /\ \A x \in Shards : Batched(x)' \subseteq Known(x) /\ Queued(x)' \subseteq Queued(x)
    BY <1>a, <1>3, AlarmFacts
  <2>2. \A x \in Shards : Known(x)' \subseteq Known(x)
    BY <2>1 DEF Known
  <2>3. CASE UNCHANGED <<queue, store, mirrors, ghost>>
    BY <1>b, <2>1, <2>2, <2>3 DEF JobsAreAccounted, Waits, Routed, Queued, Excused
  <2>4. CASE \E job \in Batched(s) :
               /\ Mirror(job)
               /\ \A x \in Shards :
                    \/ Queued(x)' = Queued(x)
                    \/ MirrorApplied(job) /\ Queued(x) \ {job} \subseteq Queued(x)'
    BY <1>a, <1>2, <2>1, <2>2, <2>4 DEF Known
  <2> QED
    BY <1>a, <1>3, <2>3, <2>4, AlarmFacts
<1>4. ASSUME NEW s \in Shards, NEW job \in Queued(s), DrainMirror(job)
      PROVE  JobsAreAccounted'
  <2>1. /\ UNCHANGED <<map, handler, batch>> /\ Mirror(job) /\ MirrorApplied(job)
        /\ \A x \in Shards : /\ Queued(x)' \subseteq Queued(x)
                             /\ Queued(x) \ {job} \subseteq Queued(x)'
    BY <1>a, <1>4, DrainFacts
  <2>2. \A x \in Shards : Known(x)' \subseteq Known(x)
    BY <2>1 DEF Known, Batched
  <2>3. job \in Jobs
    BY <1>a DEF Known
  <2> QED
    BY <1>2, <2>1, <2>2, <2>3
<1>5. CASE DrainEnds
  <2>1. UNCHANGED <<map, queue, batch, mirrors, ghost>>
    BY <1>5 DEF DrainEnds, mapVars, shardVars, tickVars
  <2>2. queue[map.shard] = <<>> \/ handler'.pc = "idle"
    BY <1>5 DEF DrainEnds, Rest, Resting
  <2>3. queue[map.shard] = <<>> => Queued(map.shard) = {}
    BY DEF Queued
  <2> QED
    BY <1>b, <2>1, <2>2, <2>3
       DEF JobsAreAccounted, Waits, Routed, Known, Queued, Batched, Excused, DrainedSteps
<1>6. CASE Clears
  <2>1. /\ UNCHANGED <<batch, mirrors, map>> /\ Excused \subseteq Excused'
        /\ handler'.pc \notin DrainedSteps
    BY <1>6, ClearsFacts
  <2>2. PICK s \in Shards : queue' = [queue EXCEPT ![s] = <<>>] /\ Purged(s) \subseteq Excused'
    BY <1>6, ClearsFacts
  <2> SUFFICES ASSUME NEW x \in Shards, NEW j \in Known(x)'
               PROVE  j.write \in Excused' \/ j.write \in mirrors'[j.to] \/ Waits(x, j)'
    BY DEF JobsAreAccounted
  <2>3. queue'[x] = queue[x] \/ (x = s /\ queue'[x] = <<>>)
    BY <1>a, <2>2
  <2>4. j \in Known(x)
    BY <2>1, <2>3 DEF Known, Queued, Batched
  <2>5. CASE Waits(x, j) /\ queue'[x] = queue[x]
    BY <2>1, <2>5 DEF Waits, Routed, Queued
  <2>6. CASE Waits(x, j) /\ x = s
    <3>1. j \in Queued(s)
      BY <2>6 DEF Waits
    <3>2. j.write \in mirrors[j.to] \/ j.write \in Purged(s)
      BY <3>1 DEF Purged
    <3> QED
      BY <2>1, <2>2, <3>2
  <2> QED
    BY <1>b, <2>1, <2>3, <2>4, <2>5, <2>6
<1>7. CASE Moves
  <2>1. /\ UNCHANGED <<queue, batch, mirrors>> /\ Excused' = Excused
        /\ handler'.pc \in DrainedSteps => handler.pc \in DrainedSteps
        /\ Routed' = Routed \/ handler.pc = "flip"
    BY <1>a, <1>7, MovesFacts
  <2>2. \A x, j : Waits(x, j) => Waits(x, j)'
    BY <2>1 DEF Waits, Queued, DrainedSteps
  <2> QED
    BY <1>b, <2>1, <2>2 DEF JobsAreAccounted, Known, Queued, Batched
<1> QED
  BY <1>1, <1>3, <1>4, <1>5, <1>6, <1>7, StepCases

\* A mirror that strays is excused: the drain waits for the others, and a shard
\* does not mirror to itself.
LEMMA MirrorStrays ==
  ASSUME MigrationTypeOK, ghost \in Ghosts, MirrorsGoElsewhere, JobsAreAccounted,
         StraysAreExcused, NEW s \in Shards, NEW job \in Known(s), Mirror(job)
  PROVE  ghost'.late \cup ghost'.landed \subseteq Excused'
<1>1. job \in Jobs /\ job.to \in Shards /\ job.write \in Writes
  BY KnownType DEF Jobs
<1>2. job.write \notin mirrors[job.to] /\ (job.to = Routed \/ Verified(job.to))
        => job.write \in Excused
  BY DEF JobsAreAccounted, Waits, MirrorsGoElsewhere, Verified, At, DrainedSteps
<1>3. Excused' = Excused
  BY <1>1, MirrorFacts
<1>4. CASE ghost' = ghost
  BY <1>3, <1>4 DEF StraysAreExcused
<1>5. CASE job.write \notin mirrors[job.to] /\ ghost' = Stray(job.write, job.to)
  <2>1. /\ ghost'.late \subseteq ghost.late \cup {job.write}
        /\ ghost'.landed \subseteq ghost.landed \cup {job.write}
        /\ job.to # Routed => ghost'.late = ghost.late
        /\ ~Verified(job.to) => ghost'.landed = ghost.landed
    BY <1>1, <1>5, StrayFacts
  <2> QED
    BY <1>2, <1>3, <1>5, <2>1 DEF StraysAreExcused
<1> QED
  BY <1>1, <1>4, <1>5, MirrorFacts

\* Only excused writes stray.
LEMMA StraysStep ==
  ASSUME MigrationInv, ghost \in Ghosts, MirrorsGoElsewhere, JobsAreAccounted,
         StraysAreExcused, Next, ~LeaseLapses
  PROVE  StraysAreExcused' /\ ghost' \in Ghosts
<1>a. MigrationTypeOK
  BY DEF MigrationInv
<1>1. CASE Client
  <2>1. CASE UNCHANGED <<store, queue, ghost>>
    BY <2>1 DEF StraysAreExcused, Excused
  <2>2. ASSUME NEW s \in Shards, NEW w \in Writes, NEW m \in Shards \cup {NoShard},
               Apply(s, w, m)
        PROVE  StraysAreExcused' /\ ghost' \in Ghosts
    <3>1. /\ ghost' \in Ghosts /\ Excused \subseteq Excused' /\ ghost'.late = ghost.late
          /\ ghost'.landed \subseteq ghost.landed \cup Excused'
      BY <1>a, <2>2, ApplyFacts
    <3> QED
      BY <3>1 DEF StraysAreExcused
  <2> QED
    BY <1>a, <1>1, <2>1, <2>2, ClientFacts
<1>2. ASSUME NEW s \in Shards, Alarm(s) \/ AlarmSkips(s)
      PROVE  StraysAreExcused' /\ ghost' \in Ghosts
  <2>1. CASE UNCHANGED <<queue, store, mirrors, ghost>>
    BY <2>1 DEF StraysAreExcused, Excused
  <2>2. ASSUME NEW job \in Batched(s), Mirror(job)
        PROVE  StraysAreExcused' /\ ghost' \in Ghosts
    <3>1. job \in Known(s) /\ job \in Jobs
      BY <1>a, KnownType DEF Known
    <3> QED
      BY <1>a, <2>2, <3>1, MirrorStrays, MirrorFacts DEF StraysAreExcused
  <2> QED
    BY <1>a, <1>2, <2>1, <2>2, AlarmFacts
<1>3. ASSUME NEW s \in Shards, NEW job \in Queued(s), DrainMirror(job)
      PROVE  StraysAreExcused' /\ ghost' \in Ghosts
  <2>1. job \in Known(s) /\ job \in Jobs /\ Mirror(job)
    BY <1>a, <1>3, KnownType DEF Known, DrainMirror
  <2> QED
    BY <1>a, <2>1, MirrorStrays, MirrorFacts DEF StraysAreExcused
<1>4. CASE DrainEnds
  BY <1>4 DEF DrainEnds, StraysAreExcused, Excused
<1>5. CASE Clears
  <2>1. /\ ghost' \in Ghosts /\ Excused \subseteq Excused' /\ ghost'.late = ghost.late
        /\ ghost'.landed = ghost.landed
    BY <1>5, ClearsFacts
  <2> QED
    BY <2>1 DEF StraysAreExcused
<1>6. CASE Moves
  <2>1. /\ ghost' \in Ghosts /\ Excused' = Excused
        /\ ghost'.late \cup ghost'.landed \subseteq ghost.late \cup ghost.landed
    BY <1>a, <1>6, MovesFacts
  <2> QED
    BY <2>1 DEF StraysAreExcused
<1> QED
  BY <1>1, <1>2, <1>3, <1>4, <1>5, <1>6, StepCases

\* Steps that keep the served copy and leave no checksum pending.
LEMMA CopiesRest ==
  ASSUME CopiesAgree, map'.shard = map.shard, ghost'.late = {} => ghost.late = {},
         store'[map.shard] = store[map.shard], ghost'.truth = ghost.truth,
         handler'.pc \notin {"compare", "holds", "flip"}
  PROVE  CopiesAgree'
BY DEF CopiesAgree

\* A mirror that changes the served copy is late, one that changes the verified
\* copy has landed; the others change neither.
LEMMA CopiesUnderMirror ==
  ASSUME MigrationTypeOK, ghost \in Ghosts, CopiesAgree, NEW job \in Jobs, Mirror(job),
         UNCHANGED <<map, handler>>
  PROVE  CopiesAgree'
<1>1. job.to \in Shards /\ job.write \in Writes /\ map \in Maps
      /\ store \in [Shards -> [Rows -> Values]]
  BY DEF Jobs, MigrationTypeOK
<1>2. CASE store' = store /\ ghost' = ghost
  BY <1>2 DEF CopiesAgree
<1>3. CASE /\ ghost' = Stray(job.write, job.to)
           /\ store' = [store EXCEPT ![job.to] = Run(job.write, @)]
  <2>1. /\ ghost'.truth = ghost.truth /\ ghost.late \subseteq ghost'.late
        /\ ghost.landed \subseteq ghost'.landed
        /\ job.to = Routed => ghost'.late # {}
        /\ Verified(job.to) => ghost'.landed # {}
    BY <1>1, <1>3, StrayFacts
  <2>2. \A x : x # job.to => store'[x] = store[x]
    BY <1>1, <1>3
  <2>3. ASSUME ghost'.late = {}
        PROVE  /\ ghost.late = {} /\ store'[map.shard] = store[map.shard]
               /\ ghost'.landed = {} => ghost.landed = {}
               /\ job.to = map.target /\ ghost'.landed = {}
                    => /\ handler.pc \notin {"holds", "flip"}
                       /\ handler.pc = "compare" => handler.side # map.target
    BY <2>1, <2>2, <2>3 DEF Routed, Verified, At
  <2> QED
    BY <2>1, <2>2, <2>3, <1>2 DEF CopiesAgree
<1> QED
  BY <1>2, <1>3, MirrorFacts

\* A client's write changes the served copy as it changes the truth, and never
\* once the checksums are taken; the verified copy it changes as a stray.
LEMMA CopiesUnderApply ==
  ASSUME MigrationTypeOK, ghost \in Ghosts, CopiesAgree, SourceIsQuiet,
         NEW s \in Shards, NEW w \in Writes, NEW m \in Shards \cup {NoShard},
         Apply(s, w, m), s \notin fenced \/ intents[s] # {}, UNCHANGED <<map, handler>>
  PROVE  CopiesAgree'
<1>1. map \in Maps /\ store \in [Shards -> [Rows -> Values]]
  BY DEF MigrationTypeOK
<1>2. store' = [store EXCEPT ![s] = Run(w, @)]
  BY ApplyFacts
<1>3. CASE s = Routed
  <2>1. handler.pc \notin QuietSteps
    BY <1>3 DEF SourceIsQuiet, QuietSteps, DrainedSteps
  <2>2. ghost'.truth = Run(w, ghost.truth) /\ ghost'.late = ghost.late
    BY <1>3, ApplyFacts
  <2>3. store'[map.shard] = Run(w, store[map.shard])
    BY <1>1, <1>2, <1>3 DEF Routed
  <2> QED
    BY <2>1, <2>2, <2>3 DEF CopiesAgree, QuietSteps
<1>4. CASE s # Routed
  <2>1. /\ ghost'.truth = ghost.truth /\ ghost'.late = ghost.late
        /\ ghost.landed \subseteq ghost'.landed
        /\ store' = store \/ (Verified(s) => ghost'.landed # {})
    BY <1>4, ApplyFacts
  <2>2. \A x : x # s => store'[x] = store[x]
    BY <1>1, <1>2
  <2>3. CASE store' = store
    BY <2>1, <2>3 DEF CopiesAgree
  <2>4. CASE Verified(s) => ghost'.landed # {}
    BY <1>4, <2>1, <2>2, <2>4 DEF CopiesAgree, Verified, At, Routed
  <2> QED
    BY <2>1, <2>3, <2>4
<1> QED
  BY <1>3, <1>4

\* The served copy stays true, and the flip passes it on.
LEMMA CopiesStep ==
  ASSUME MigrationInv, ghost \in Ghosts, Undisturbed, CopyParts, Next, ~LeaseLapses
  PROVE  CopiesAgree'
<1>a. /\ MigrationTypeOK /\ map \in Maps /\ handler \in Handlers
      /\ store \in [Shards -> [Rows -> Values]]
      /\ map.target # map.shard /\ map.cleanup # map.shard
      /\ CopiesAgree /\ SourceIsQuiet
  BY DEF MigrationInv, MigrationTypeOK, ControlInv, OneMover, CopyParts
<1>b. Resting.pc = "idle" /\ [Resting EXCEPT !.pc = "fence"].pc = "fence"
  BY DEF Resting
<1>1. CASE Client
  <2>1. UNCHANGED <<map, handler>>
    BY <1>a, <1>1, ClientFacts
  <2>2. CASE UNCHANGED <<store, queue, ghost>>
    BY <1>a, <2>1, <2>2 DEF CopiesAgree
  <2>3. ASSUME NEW s \in Shards, NEW w \in Writes, NEW m \in Shards \cup {NoShard},
               Apply(s, w, m), s \notin fenced \/ intents[s] # {}
        PROVE  CopiesAgree'
    BY <1>a, <2>1, <2>3, CopiesUnderApply
  <2> QED
    BY <1>a, <1>1, <2>2, <2>3, ClientFacts
<1>2. ASSUME NEW s \in Shards, Alarm(s) \/ AlarmSkips(s) PROVE CopiesAgree'
  <2>1. UNCHANGED <<map, handler>>
    BY <1>a, <1>2, AlarmFacts
  <2>2. CASE UNCHANGED <<queue, store, mirrors, ghost>>
    BY <1>a, <2>1, <2>2 DEF CopiesAgree
  <2>3. ASSUME NEW job \in Batched(s), Mirror(job) PROVE CopiesAgree'
    <3>1. job \in Jobs
      BY <1>a, KnownType DEF Known
    <3> QED
      BY <1>a, <2>1, <2>3, <3>1, CopiesUnderMirror
  <2> QED
    BY <1>a, <1>2, <2>2, <2>3, AlarmFacts
<1>3. ASSUME NEW s \in Shards, NEW job \in Queued(s), DrainMirror(job) PROVE CopiesAgree'
  <2>1. job \in Jobs
    BY <1>a, KnownType DEF Known
  <2>2. Mirror(job) /\ UNCHANGED <<map, handler>>
    BY <1>a, <1>3, DrainFacts
  <2> QED
    BY <1>a, <2>1, <2>2, CopiesUnderMirror
<1>4. CASE DrainEnds
  <2>1. UNCHANGED <<map, store, ghost>>
    BY <1>4 DEF DrainEnds, mapVars, shardVars
  <2>2. handler'.pc \in {"intents", "idle"}
    BY <1>a, <1>b, <1>4, GotoPc DEF DrainEnds, Rest
  <2> QED
    BY <1>a, <2>1, <2>2, CopiesRest
<1>5. CASE Clears
  <2>1. /\ map' = map /\ ghost'.late = ghost.late /\ ghost'.truth = ghost.truth
        /\ handler'.pc \notin DrainedSteps
    BY <1>5, ClearsFacts
  <2>2. store'[map.shard] = store[map.shard]
    <3>1. PICK s \in Shards : /\ store' = store \/ s = map.target \/ s = map.cleanup
                              /\ \A x \in Shards : x # s => store'[x] = store[x]
      BY <1>5, ClearsFacts
    <3> QED
      BY <1>a, <3>1 DEF Maps
  <2> QED
    BY <1>a, <2>1, <2>2, CopiesRest DEF DrainedSteps
<1>6. CASE Moves
  <2>1. CASE BeginBackfill \/ BeginCutover \/ BeginCleanup \/ Export \/ Import
    <3>1. handler'.pc \in {"export", "fence", "delete", "import", "save"}
      BY <1>a, <2>1, GotoPc DEF BeginBackfill, BeginCutover, BeginCleanup, Export, Import,
                                Handlers
    <3>2. UNCHANGED <<map, ghost>>
      BY <2>1 DEF BeginBackfill, BeginCutover, BeginCleanup, Export, Import, mapVars
    <3>3. store' = store \/ Import
      BY <2>1 DEF BeginBackfill, BeginCutover, BeginCleanup, Export, shardVars
    <3>4. store'[map.shard] = store[map.shard]
      BY <1>a, <3>3 DEF Import, Maps
    <3> QED
      BY <1>a, <3>1, <3>2, <3>4, CopiesRest
  <2>2. CASE SaveCursor \/ EnterCutover \/ Rewind \/ EndMigration \/ Abort \/ LiftFence
             \/ UnfenceSource \/ StopHandler \/ Fence
    <3>1. handler'.pc \in {"idle", "fence", "abort unfence", "purge", "abort purge",
                           "release", "drain"}
      BY <1>a, <1>b, <2>2, GotoPc
         DEF SaveCursor, EnterCutover, Rewind, EndMigration, Abort, LiftFence, UnfenceSource,
             StopHandler, Fence, Rest
    <3>2. UNCHANGED <<store, ghost>>
      BY <2>2 DEF SaveCursor, EnterCutover, Rewind, EndMigration, Abort, LiftFence,
                  UnfenceSource, StopHandler, Fence, shardVars
    <3>3. map'.shard = map.shard
      BY <1>a, <2>2 DEF SaveCursor, EnterCutover, Rewind, EndMigration, Abort, LiftFence,
                  UnfenceSource, StopHandler, Fence, Maps, NoMap, mapVars
    <3> QED
      BY <1>a, <3>1, <3>2, <3>3, CopiesRest
  <2>3. CASE CountIntents
    <3>1. UNCHANGED <<map, store, ghost>>
      BY <2>3 DEF CountIntents, mapVars, shardVars
    <3>2. handler'.pc \in {"sums", "idle"}
      BY <1>a, <1>b, <2>3, GotoPc DEF CountIntents, Rest
    <3> QED
      BY <1>a, <3>1, <3>2, CopiesRest
  <2>4. ASSUME NEW s \in Shards, FirstChecksum(s) PROVE CopiesAgree'
    <3>1. UNCHANGED <<map, store>> /\ ghost'.late = ghost.late /\ ghost'.truth = ghost.truth
      BY <2>4 DEF FirstChecksum, mapVars, shardVars, Ghosts
    <3>2. /\ s \in {map.shard, map.target} /\ handler'.pc = "compare" /\ handler'.side = s
          /\ handler'.seen = store[s]
      BY <1>a, <2>4 DEF FirstChecksum, Handlers, Checksum
    <3> QED
      BY <1>a, <3>1, <3>2 DEF CopiesAgree
  <2>5. CASE SecondChecksum
    <3>1. UNCHANGED <<map, store, ghost>> /\ handler.pc = "compare"
      BY <2>5 DEF SecondChecksum, At, mapVars, shardVars
    <3>2. PICK s \in {map.shard, map.target} :
             /\ s # handler.side
             /\ handler'.pc = IF store[s] = handler.seen THEN "holds" ELSE "unfence"
      BY <1>a, <2>5 DEF SecondChecksum, Resting, Checksum
    <3>3. ghost.late = {} /\ ghost.landed = {} /\ store[s] = handler.seen
            => store[map.target] = store[map.shard]
      BY <1>a, <3>1, <3>2 DEF CopiesAgree
    <3> QED
      BY <1>a, <3>1, <3>2, <3>3 DEF CopiesAgree
  <2>6. CASE CheckLease
    <3>1. UNCHANGED <<map, store, ghost>> /\ handler.pc = "holds"
      BY <2>6 DEF CheckLease, At, mapVars, shardVars
    <3>2. handler'.pc \in {"flip", "idle"}
      BY <1>a, <1>b, <2>6, GotoPc DEF CheckLease, Rest
    <3> QED
      BY <1>a, <3>1, <3>2 DEF CopiesAgree
  <2>7. CASE Flip
    <3>1. /\ map'.shard = map.target /\ store' = store /\ handler.pc = "flip"
          /\ handler'.pc = "delete"
      BY <1>a, <2>7, GotoPc DEF Flip, At, shardVars, Maps
    <3>2. /\ ghost'.truth = ghost.truth
          /\ ghost'.late = {} => ghost.late = {} /\ ghost.landed = {}
      BY <2>7 DEF Flip, Ghosts
    <3> QED
      BY <1>a, <3>1, <3>2 DEF CopiesAgree
  <2>8. CASE (\E t \in Shards : RequestMigration(t)) \/ (\E c \in calls : ClaimMigration(c))
    <3>1. UNCHANGED <<store, ghost, handler>>
      BY <2>8 DEF RequestMigration, ClaimMigration, shardVars
    <3>2. map'.shard = map.shard /\ (map' = map \/ map.status = "none")
      BY <1>a, <2>8 DEF RequestMigration, ClaimMigration, Maps
    <3>3. map.status = "none" => handler.pc \notin {"compare", "holds", "flip"}
      BY DEF MigrationInv, ControlInv, HandlerFitsMap, CutoverSteps
    <3> QED
      BY <1>a, <3>1, <3>2, <3>3 DEF CopiesAgree
  <2> QED
    BY <1>6, <2>1, <2>2, <2>3, <2>4, <2>5, <2>6, <2>7, <2>8 DEF Moves
<1> QED
  BY <1>1, <1>2, <1>3, <1>4, <1>5, <1>6, StepCases

\* A lease that lapsed stays lapsed.
LEMMA UndisturbedBefore ==
  ASSUME MigrationTypeOK, Next, Undisturbed'
  PROVE  Undisturbed /\ ~LeaseLapses
<1>a. used \in Uses
  BY DEF MigrationTypeOK
<1>1. CASE LeaseLapses
  BY <1>a, <1>1 DEF LeaseLapses, Failed, Uses, Undisturbed
<1>2. CASE ~LeaseLapses
  <2>1. used'.lapses = used.lapses
    BY <1>a, <1>2
       DEF Next, Client, Route, Execute, Prepare, CommitIntent, AbortIntent, Alarm, AlarmReads,
           AlarmDelivers, AlarmSkips, RequestMigration, ClaimMigration, Tick, BeginBackfill,
           BeginCutover, BeginCleanup, Export, Import, SaveCursor, EnterCutover, Fence, DrainEnds,
           CountIntents, DrainMirror, FirstChecksum, SecondChecksum, CheckLease, Flip, LiftFence,
           PurgeMirrors, WipeTarget, Rewind, DeleteSource, UnfenceSource, EndMigration, Abort,
           StopHandler, Failed, Uses
  <2> QED
    BY <1>2, <2>1 DEF Undisturbed
<1> QED
  BY <1>1, <1>2

\* Ghosts stay ghosts when a lease lapses.
LEMMA GhostsStep ==
  ASSUME MigrationInv, ghost \in Ghosts, Next
  PROVE  ghost' \in Ghosts
<1>a. MigrationTypeOK
  BY DEF MigrationInv
<1>1. CASE Client
  <2>1. ASSUME NEW s \in Shards, NEW w \in Writes, NEW m \in Shards \cup {NoShard},
               Apply(s, w, m)
        PROVE  ghost' \in Ghosts
    BY <1>a, <2>1, ApplyFacts
  <2> QED
    BY <1>a, <1>1, <2>1, ClientFacts
<1>2. ASSUME NEW s \in Shards, Alarm(s) \/ AlarmSkips(s) PROVE ghost' \in Ghosts
  <2>1. ASSUME NEW job \in Batched(s), Mirror(job) PROVE ghost' \in Ghosts
    <3>1. job \in Jobs
      BY <1>a, KnownType DEF Known
    <3> QED
      BY <1>a, <2>1, <3>1, MirrorFacts
  <2> QED
    BY <1>a, <1>2, <2>1, AlarmFacts
<1>3. ASSUME NEW s \in Shards, NEW job \in Queued(s), DrainMirror(job) PROVE ghost' \in Ghosts
  <2>1. job \in Jobs /\ Mirror(job)
    BY <1>a, <1>3, KnownType DEF Known, DrainMirror
  <2> QED
    BY <1>a, <2>1, MirrorFacts
<1>4. DrainEnds \/ LeaseLapses => ghost' = ghost
  BY DEF DrainEnds, LeaseLapses
<1> QED
  BY <1>a, <1>1, <1>2, <1>3, <1>4, ClearsFacts, MovesFacts, StepCases

-----------------------------------------------------------------------------
\* CopyInv holds of a vbucket at rest and is kept by every step.
THEOREM CopiesSafe == Spec => []CopyInv
<1>1. Init => CopyInv
  <2> SUFFICES ASSUME Init PROVE CopyInv
    OBVIOUS
  <2>1. /\ handler.pc = "idle" /\ ghost.late = {} /\ ghost.landed = {}
        /\ ghost.truth = store[map.shard]
    BY DEF Init, Resting, NoMap
  <2>2. store \in [Shards -> [Rows -> Values]] /\ Home \in Shards
    BY MigrationAssumption DEF Init, Values
  <2>3. ghost \in Ghosts
    BY <2>2 DEF Init, Ghosts
  <2>4. \A s \in Shards : Known(s) = {} /\ intents[s] = {}
    BY DEF Init, Known, Queued, Batched, Items
  <2>5. flights = {}
    BY DEF Init
  <2> QED
    BY <2>1, <2>3, <2>4, <2>5
       DEF CopyInv, CopyParts, MirrorsGoElsewhere, SourceIsQuiet, JobsAreAccounted,
           StraysAreExcused, CopiesAgree, DrainedSteps, QuietSteps
<1>2. MigrationInv /\ CopyInv /\ [Next]_vars => CopyInv'
  <2> SUFFICES ASSUME MigrationInv, CopyInv, [Next]_vars PROVE CopyInv'
    OBVIOUS
  <2>1. CASE Next
    <3>1. ghost \in Ghosts /\ ghost' \in Ghosts
      BY <2>1, GhostsStep DEF CopyInv
    <3>2. ASSUME Undisturbed' PROVE CopyParts'
      <4>1. Undisturbed /\ ~LeaseLapses /\ CopyParts
        BY <2>1, <3>2, UndisturbedBefore DEF CopyInv, MigrationInv
      <4> QED
        BY <2>1, <3>1, <4>1, ElsewhereStep, QuietStep, JobsStep, StraysStep, CopiesStep
           DEF CopyParts
    <3> QED
      BY <3>1, <3>2 DEF CopyInv
  <2>2. CASE UNCHANGED vars
    BY <2>2 DEF vars, CopyInv, CopyParts, Undisturbed, MirrorsGoElsewhere, SourceIsQuiet,
                JobsAreAccounted, StraysAreExcused, CopiesAgree, Waits, Excused, Known, Queued,
                Batched, Routed
  <2> QED
    BY <2>1, <2>2
<1> QED
  BY <1>1, <1>2, MigrationSafe, PTL DEF Spec

\* The served copy holds every row as the accepted writes left it; only mirrors
\* that were purged, stranded or slipped past the drain ever change it.
THEOREM RoutedCopyTrue == Spec => []RoutedCopyIsCurrent
<1>1. CopyInv => RoutedCopyIsCurrent
  BY DEF CopyInv, CopyParts, StraysAreExcused, CopiesAgree, RoutedCopyIsCurrent, Excused, Routed
<1> QED
  BY <1>1, CopiesSafe, PTL

=============================================================================
