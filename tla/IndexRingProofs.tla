--------------------------- MODULE IndexRingProofs ---------------------------
(***************************************************************************)
(* Proofs about IndexRing, for any rows, keys, shards, catalogs, clients    *)
(* and page size.                                                          *)
(***************************************************************************)
EXTENDS IndexRing, FiniteSetTheorems, FunctionTheorems, SequenceTheorems, TLAPS

Entry == Rows \X Keys
Status == {"none", "building", "ready", "failed"}
Rule == [status : Status, ring : Seq(Shards), shadow : SUBSET {Leaving}]
FillRow == [on : BOOLEAN, past : BOOLEAN, at : 0 .. NRows, op : 0 .. MaxOps]
Call == [kind : {"none", "create", "drop"},
         pc : {"idle", "list", "register", "start", "unregister", "clean"},
         ring : Seq(Shards), todo : SUBSET (Catalogs \cup Shards), op : 0 .. MaxOps]
Tick == [pc : {"idle", "refresh", "write", "ready"}, ring : Seq(Shards),
         page : SUBSET Rows, last : 0 .. NRows, short : BOOLEAN, key : Values,
         to : Shards \cup {NoShard}, todo : SUBSET Catalogs]
Move == [pc : {"idle", "mark", "repoint", "fan", "flush", "copy", "import", "delete", "unshadow"},
         ring : Seq(Shards), todo : SUBSET Catalogs, copied : SUBSET Entry,
         entry : Entry \cup {<<>>}]
Flight == [pc : {"none", "routed", "read", "prepared", "committing", "done"},
           op : Ops \cup {"none"}, row : 0 .. NRows, key : Values,
           ring : Seq(Shards), before : Values]
Write == [by : Clients, del : BOOLEAN, row : Rows, key : Keys, to : Shards, at : Shards,
          stage : {"intent", "sent", "queued"}, ran : SUBSET Shards]
Ghost == [overlapped : SUBSET Rows, unseen : SUBSET Rows, lost : SUBSET Rows,
          late : SUBSET Rows, left : SUBSET Rows, forked : BOOLEAN]

Live == {"routed", "read", "prepared", "committing"}

\* The shapes of what is stored.
StoredTypes ==
  /\ row \in [Rows -> Values]
  /\ entries \in [Shards -> SUBSET Entry]
  /\ fenced \in SUBSET {Leaving}
  /\ rule \in [Catalogs -> Rule]
  /\ fill \in FillRow
  /\ active \in SUBSET Shards
  /\ leave \in [draining : BOOLEAN, op : 0 .. MaxOps,
                substitute : (Shards \ {Leaving}) \cup {NoShard}]
  /\ lock \in 0 .. MaxOps
  /\ ghost \in Ghost
  /\ used \in [ops : 0 .. MaxOps, faults : Nat]

\* The shapes of what runs.
CallTypes ==
  /\ gateway \in Call
  /\ filler \in Tick
  /\ mover \in Move
  /\ flights \in [Clients -> Flight]
  /\ \A w \in Clients : flights[w].pc \in Live =>
       flights[w].row \in Rows /\ flights[w].key \in Keys
  /\ upkeep \in SUBSET Write
  /\ filler.pc = "write" => filler.key \in Keys /\ filler.page # {}
  /\ mover.pc = "import" => mover.entry \in Entry

\* Where the drain stands: the shard is active until it begins, the fence comes
\* before the marker, and both before anything is moved.
DrainTrue ==
  /\ leave.draining <=> Leaving \notin active
  /\ leave.op # NoOp \/ fenced # {} => leave.draining
  /\ Marked \/ mover.pc # "idle" => leave.op # NoOp /\ Leaving \in fenced
  /\ mover.pc \notin {"idle", "mark"} => Marked
  /\ mover.pc = "mark" => ~Marked

\* A catalog without the index has nothing of it; what the gateway has
\* registered is registered, and names the shard unless it leaves.
RulesTrue ==
  /\ \A c \in Catalogs : ~Registered(c) => rule[c] = NoRule
  /\ gateway.kind = "create" /\ gateway.pc \in {"register", "start"} =>
       \A c \in Catalogs : c \in gateway.todo \/ Registered(c)
  /\ gateway.pc = "start" => gateway.todo = {}
  /\ ~leave.draining =>
       /\ gateway.kind = "create" /\ gateway.pc \in {"list", "register"} =>
            InRing(Leaving, gateway.ring)
       /\ \A c \in Catalogs : Registered(c) => InRing(Leaving, rule[c].ring)

\* Unless an evacuation is marked the rings agree and nothing is read as a
\* shadow; and when its marker goes, they agree again.
AgreeTrue ==
  ~ghost.forked =>
    /\ ~Marked => \A c, d \in Catalogs : Registered(c) /\ Registered(d) =>
         rule[c].ring = rule[d].ring /\ rule[c].shadow = {}
    /\ mover.pc = "unshadow" => \A c \in Catalogs \ mover.todo : Registered(c) =>
         rule[c].ring = mover.ring /\ rule[c].shadow = {}

\* The shard leaves the ring before its entries are copied, and nothing puts it back.
AwayTrue ==
  ~ghost.forked =>
    /\ mover.pc \in {"flush", "copy", "import", "delete", "unshadow"} =>
         ~InRing(Leaving, rule[Owner].ring)
    /\ mover.pc \in {"fan", "unshadow"} => ~InRing(Leaving, mover.ring)
    /\ leave.draining /\ InRing(Leaving, rule[Owner].ring) => Candidates # {}
    /\ leave.draining /\ leave.op = NoOp => ~InRing(Leaving, rule[Owner].ring)

\* A write of the row that may go to the shard: its index was dropped since it
\* began, or the shard is in the ring of its tenant's catalog, or is fenced.
Tied(r, toLeaving) ==
  \/ r \in ghost.unseen
  \/ Registered(Home) /\ (toLeaving => InRing(Leaving, rule[Home].ring) \/ Leaving \in fenced)

WritesTied ==
  /\ \A w \in Clients : flights[w].pc \in Live /\ flights[w].ring # <<>> =>
       Tied(flights[w].row, InRing(Leaving, flights[w].ring))
  /\ \A u \in upkeep : Tied(u.row, u.to = Leaving \/ u.at = Leaving)

\* So may a tick of the backfill only.
FillTied ==
  /\ ~ghost.forked
  /\ filler.pc \in {"refresh", "write"}
  /\ InRing(Leaving, filler.ring) \/ filler.to = Leaving
  => \/ Leaving \in fenced
     \/ \A c \in Catalogs : Registered(c) => InRing(Leaving, rule[c].ring)

Spare(r) == r \in ghost.late \cup ghost.left \cup ghost.unseen

\* Out of the ring, the shard has only entries that are let off.
SourceTrue ==
  /\ /\ leave.draining /\ ~Marked /\ ~ghost.forked
     /\ \E c \in Catalogs : Registered(c) /\ ~InRing(Leaving, rule[c].ring)
     => \A e \in entries[Leaving] : Spare(e[1])
  /\ mover.pc = "unshadow" => \A e \in entries[Leaving] : e[1] \in ghost.late

RingInv ==
  /\ StoredTypes /\ CallTypes
  /\ DrainTrue /\ RulesTrue /\ AgreeTrue /\ AwayTrue
  /\ WritesTied /\ FillTied /\ SourceTrue

-----------------------------------------------------------------------------
(* Lemmas on rings and pages.                                              *)

\* A set of naturals has a least element.
LEMMA HasLeast ==
  ASSUME NEW I \in SUBSET Nat, I # {}
  PROVE  \E m \in I : \A y \in I : m <= y
<1> DEFINE L == {ss \in Nat \X Nat : ss[1] < ss[2]}
<1>1. IsWellFoundedOn(L, Nat)
  BY NatLessThanWellFounded DEF OpToRel
<1> HIDE DEF L
<1>2. PICK m \in I : \A y \in I : ~(<<y, m>> \in L)
  BY <1>1, WFMin
<1>3. \A y \in I : ~(y < m)
  BY <1>2 DEF L
<1>4. \A y \in I : m <= y
  BY <1>3
<1>5. QED
  BY <1>4

\* The rows of a page have a first and a last.
LEMMA PageHasEnds ==
  ASSUME NEW page \in SUBSET Rows, page # {}
  PROVE  Largest(page) \in page /\ Smallest(page) \in page
<1>0. NRows \in Nat /\ page \in SUBSET Nat
  BY IndexAssumption DEF Rows
<1>1. \E r \in page : \A q \in page : r <= q
  BY <1>0, HasLeast
<1> DEFINE U == {m \in Nat : \A q \in page : q <= m}
<1>2. PICK m \in U : \A y \in U : m <= y
  <2>1. NRows \in U
    BY <1>0 DEF Rows
  <2> HIDE DEF U
  <2>2. U \subseteq Nat
    BY DEF U
  <2>3. QED
    BY <2>1, <2>2, HasLeast
<1>3. m \in page
  <2>1. SUFFICES ASSUME m \notin page
                 PROVE  FALSE
    OBVIOUS
  <2>2. \A q \in page : q < m
    BY <2>1, <1>0, <1>2
  <2>3. PICK q0 : q0 \in page
    OBVIOUS
  <2>4. m - 1 \in U
    BY <2>2, <2>3, <1>0, <1>2
  <2>5. QED
    BY <2>4, <1>2
<1>4. \E r \in page : \A q \in page : q <= r
  BY <1>2, <1>3
<1>5. QED
  BY <1>1, <1>4 DEF Largest, Smallest

UpToOf(M, t) == {u \in M : u <= t}

\* Shards are numbered 1, 2, ... by their place in the list, without a gap.
LEMMA RanksFit ==
  ASSUME NEW M \in SUBSET Shards
  PROVE  /\ Cardinality(M) \in Nat
         /\ \A t \in M : Cardinality(UpToOf(M, t)) \in 1 .. Cardinality(M)
         /\ \A i \in 1 .. Cardinality(M) :
              \E t \in M : Cardinality(UpToOf(M, t)) = i
<1>0. NShards \in Nat
  BY IndexAssumption
<1>1. IsFiniteSet(M) /\ Cardinality(M) \in Nat
  <2>1. IsFiniteSet(Shards)
    BY <1>0, FS_Interval DEF Shards
  <2>2. QED
    BY <2>1, FS_Subset, FS_CardinalityType
<1>2. \A t \in M : t \in Nat
  BY <1>0 DEF Shards
<1>3. \A t \in M : /\ IsFiniteSet(UpToOf(M, t))
                   /\ Cardinality(UpToOf(M, t)) \in 1 .. Cardinality(M)
  <2> TAKE t \in M
  <2>1. UpToOf(M, t) \in SUBSET M
    BY DEF UpToOf
  <2>2. t \in UpToOf(M, t)
    BY <1>2 DEF UpToOf
  <2>3. IsFiniteSet(UpToOf(M, t)) /\ Cardinality(UpToOf(M, t)) <= Cardinality(M)
    BY <1>1, <2>1, FS_Subset
  <2>4. Cardinality(UpToOf(M, t)) \in Nat
    BY <2>3, FS_CardinalityType
  <2>5. Cardinality(UpToOf(M, t)) # 0
    BY <2>2, <2>3, FS_EmptySet
  <2>6. QED
    BY <1>1, <2>3, <2>4, <2>5
<1>4. ASSUME NEW t \in M, NEW u \in M, t < u
      PROVE  Cardinality(UpToOf(M, t)) < Cardinality(UpToOf(M, u))
  <2>1. UpToOf(M, t) \in SUBSET UpToOf(M, u)
    BY <1>2, <1>4 DEF UpToOf
  <2>2. u \in UpToOf(M, u) /\ u \notin UpToOf(M, t)
    BY <1>2, <1>4 DEF UpToOf
  <2>3. /\ Cardinality(UpToOf(M, t)) <= Cardinality(UpToOf(M, u))
        /\ Cardinality(UpToOf(M, u)) = Cardinality(UpToOf(M, t))
             => UpToOf(M, u) = UpToOf(M, t)
    BY <1>3, <2>1, FS_Subset
  <2>4. Cardinality(UpToOf(M, u)) \in Nat /\ Cardinality(UpToOf(M, t)) \in Nat
    BY <1>3
  <2>5. QED
    BY <2>2, <2>3, <2>4
<1>5. ASSUME NEW i \in 1 .. Cardinality(M)
      PROVE  \E t \in M : Cardinality(UpToOf(M, t)) = i
  <2> DEFINE N == 1 .. Cardinality(M)
             f == [t \in M |-> Cardinality(UpToOf(M, t))]
  <2>1. f \in [M -> N]
    BY <1>3
  <2>2. \A t, u \in M : f[t] = f[u] => t = u
    <3> SUFFICES ASSUME NEW t \in M, NEW u \in M, f[t] = f[u], t # u
                 PROVE  FALSE
      OBVIOUS
    <3>1. t # u
      OBVIOUS
    <3>2. t < u \/ u < t
      BY <1>2, <3>1
    <3>3. Cardinality(UpToOf(M, t)) # Cardinality(UpToOf(M, u))
      BY <1>3, <1>4, <3>2
    <3>4. QED
      BY <3>3
  <2>3. IsFiniteSet(N) /\ Cardinality(N) = Cardinality(M)
    <3>1. 1 \in Int /\ Cardinality(M) \in Int
      BY <1>1
    <3>2. IsFiniteSet(N)
            /\ Cardinality(N) = IF 1 > Cardinality(M) THEN 0 ELSE Cardinality(M) - 1 + 1
      BY <3>1, FS_Interval
    <3>3. QED
      BY <1>1, <3>2
  <2> HIDE DEF f, N
  <2>4. f \in Injection(M, N)
    BY <2>1, <2>2, Fun_IsInj
  <2>5. f \in Surjection(M, N)
    BY <2>3, <2>4, FS_Injection
  <2>6. \E t \in M : f[t] = i
    <3>1. i \in N
      BY DEF N
    <3>2. \A k \in N : \E t \in M : f[t] = k
      BY <2>5, Fun_SurjectionProperties
    <3>3. QED
      BY <3>1, <3>2
  <2>7. QED
    BY <2>6 DEF f
<1>6. QED
  BY <1>1, <1>3, <1>4, <1>5

\* No two shards have the same number.
LEMMA RankIsOwn ==
  ASSUME NEW M \in SUBSET Shards, NEW t \in M, NEW u \in M,
         Cardinality(UpToOf(M, t)) = Cardinality(UpToOf(M, u))
  PROVE  t = u
<1>0. NShards \in Nat
  BY IndexAssumption
<1>1. IsFiniteSet(M)
  <2>1. IsFiniteSet(Shards)
    BY <1>0, FS_Interval DEF Shards
  <2>2. QED
    BY <2>1, FS_Subset
<1>2. \A x \in M : x \in Nat
  BY <1>0 DEF Shards
<1>3. IsFiniteSet(UpToOf(M, t)) /\ IsFiniteSet(UpToOf(M, u))
  BY <1>1, FS_Subset DEF UpToOf
<1>4. CASE t <= u
  <2>1. UpToOf(M, t) \in SUBSET UpToOf(M, u)
    BY <1>2, <1>4 DEF UpToOf
  <2>2. UpToOf(M, t) = UpToOf(M, u)
    BY <1>3, <2>1, FS_Subset
  <2>3. QED
    BY <1>2, <1>4, <2>2 DEF UpToOf
<1>5. CASE u <= t
  <2>1. UpToOf(M, u) \in SUBSET UpToOf(M, t)
    BY <1>2, <1>5 DEF UpToOf
  <2>2. UpToOf(M, t) = UpToOf(M, u)
    BY <1>3, <2>1, FS_Subset
  <2>3. QED
    BY <1>2, <1>5, <2>2 DEF UpToOf
<1>6. QED
  BY <1>2, <1>4, <1>5

\* /list-shards lists the set, and nothing else.
LEMMA ListsTheSet ==
  ASSUME NEW M \in SUBSET Shards
  PROVE  ListShards(M) \in Seq(Shards) /\ Members(ListShards(M)) = M
<1> DEFINE n == Cardinality(M)
           who(i) == CHOOSE t \in M : Cardinality(UpToOf(M, t)) = i
<1>1. n \in Nat
  BY RanksFit
<1>2. \A i \in 1 .. n : who(i) \in M /\ Cardinality(UpToOf(M, who(i))) = i
  BY RanksFit
<1>3. ListShards(M) = [i \in 1 .. n |-> who(i)]
  BY DEF ListShards, UpToOf
<1>4. ASSUME NEW s \in M
      PROVE  \E i \in 1 .. n : who(i) = s
  <2>1. Cardinality(UpToOf(M, s)) \in 1 .. n
    BY RanksFit
  <2>2. PICK i \in 1 .. n : i = Cardinality(UpToOf(M, s))
    BY <2>1
  <2>3. who(i) \in M /\ Cardinality(UpToOf(M, who(i))) = Cardinality(UpToOf(M, s))
    BY <1>2, <2>2
  <2>4. QED
    BY <2>2, <2>3, RankIsOwn
<1> HIDE DEF who
<1>5. ListShards(M) \in [1 .. n -> M]
  BY <1>2, <1>3
<1>6. ListShards(M) \in Seq(Shards)
  <2>1. ListShards(M) \in [1 .. n -> Shards]
    BY <1>5
  <2> HIDE DEF n
  <2>2. QED
    BY <1>1, <2>1
<1>7. Members(ListShards(M)) = {who(i) : i \in 1 .. n}
  BY <1>3 DEF Members
<1>8. QED
  BY <1>2, <1>4, <1>6, <1>7

\* A key of a ring lies on one of its shards.
LEMMA PlaceInRing ==
  ASSUME NEW key \in Keys, NEW ring \in Seq(Shards), ring # <<>>
  PROVE  Place(key, ring) \in Shards /\ InRing(Place(key, ring), ring)
<1>1. Hash[key] \in Nat
  BY IndexAssumption
<1>2. Len(ring) \in Nat \ {0}
  BY EmptySeq, LenProperties
<1>3. Hash[key] % Len(ring) \in 0 .. Len(ring) - 1
  BY <1>1, <1>2
<1>4. (Hash[key] % Len(ring)) + 1 \in DOMAIN ring
  BY <1>2, <1>3
<1>5. ring[(Hash[key] % Len(ring)) + 1] \in Shards
  BY <1>4
<1>6. Place(key, ring) = ring[(Hash[key] % Len(ring)) + 1]
  BY DEF Place
<1>7. QED
  BY <1>4, <1>5, <1>6 DEF InRing

-----------------------------------------------------------------------------
(* Type correctness.                                                       *)

\* The bounds are numbers.
LEMMA BoundsAreNat ==
  /\ NRows \in Nat /\ MaxOps \in Nat /\ NShards \in Nat
  /\ Leaving \in Shards /\ NoShard \notin Shards
  /\ Zero \in Catalogs /\ Owner \in Catalogs /\ Home \in Catalogs
  /\ Gone \notin Keys
BY IndexAssumption DEF Shards, NoShard

\* The shapes hold at first.
LEMMA InitTypes == Init => StoredTypes /\ CallTypes
<1> SUFFICES ASSUME Init
             PROVE  StoredTypes /\ CallTypes
  OBVIOUS
<1> USE BoundsAreNat, EmptySeq
<1>1. NoRule \in Rule
  BY DEF NoRule, Rule, Status
<1>2. NoFill \in FillRow /\ NoCall \in Call /\ NoTick \in Tick /\ NoMove \in Move
      /\ NoFlight \in Flight
  BY DEF NoFill, NoCall, NoTick, NoMove, NoFlight, FillRow, Call, Tick, Move, Flight,
         NoOp, Values
<1>3. StoredTypes
  <2>1. Active0 \in SUBSET Shards
    BY IndexAssumption
  <2>2. row \in [Rows -> Values] /\ entries \in [Shards -> SUBSET Entry]
        /\ rule \in [Catalogs -> Rule] /\ fill \in FillRow /\ fenced \in SUBSET {Leaving}
    BY <1>1, <1>2 DEF Init
  <2>3. ghost \in Ghost /\ lock \in 0 .. MaxOps /\ used \in [ops : 0 .. MaxOps, faults : Nat]
        /\ leave \in [draining : BOOLEAN, op : 0 .. MaxOps,
                      substitute : (Shards \ {Leaving}) \cup {NoShard}]
    BY DEF Init, Ghost, NoOp
  <2>4. active \in SUBSET Shards
    BY <2>1 DEF Init
  <2>5. QED
    BY <2>2, <2>3, <2>4 DEF StoredTypes
<1>4. CallTypes
  BY <1>2 DEF Init, CallTypes, NoFlight, NoTick, NoMove, Live
<1>5. QED
  BY <1>3, <1>4

\* The index writes that a flight sends.
LEMMA DeltasAreWrites ==
  ASSUME StoredTypes, CallTypes, NEW w \in Clients, flights[w].pc \in Live
  PROVE  /\ Deltas(w) \in SUBSET Write
         /\ \A u \in Deltas(w) : /\ u.row = flights[w].row /\ u.at = u.to
                                 /\ flights[w].ring # <<>> /\ InRing(u.to, flights[w].ring)
<1>1. /\ flights[w] \in Flight /\ flights[w].row \in Rows /\ flights[w].key \in Keys
  BY DEF CallTypes
<1>2. flights[w].before \in Values /\ flights[w].ring \in Seq(Shards)
  BY <1>1 DEF Flight
<1> DEFINE W(del, key) == [by |-> w, del |-> del, row |-> flights[w].row, key |-> key,
                           to |-> Place(key, flights[w].ring), at |-> Place(key, flights[w].ring),
                           stage |-> IF IsTx(w) THEN "intent" ELSE "sent", ran |-> {}]
<1>3. ASSUME NEW u \in Deltas(w)
      PROVE  /\ flights[w].ring # <<>>
             /\ \E del \in BOOLEAN, key \in Keys : u = W(del, key)
  <2>1. Values = Keys \cup {Gone}
    BY DEF Values
  <2>2. After(w) \in Values
    BY <1>1, <2>1 DEF After
  <2>3. QED
    BY <1>2, <1>3, <2>1, <2>2, TRUE \in BOOLEAN, FALSE \in BOOLEAN DEF Deltas
<1>4. ASSUME NEW del \in BOOLEAN, NEW key \in Keys, flights[w].ring # <<>>
      PROVE  W(del, key) \in Write /\ InRing(Place(key, flights[w].ring), flights[w].ring)
  BY <1>1, <1>2, <1>4, PlaceInRing DEF Write
<1>5. QED
  <2> SUFFICES ASSUME NEW u \in Deltas(w)
               PROVE  /\ u \in Write /\ u.row = flights[w].row /\ u.at = u.to
                      /\ flights[w].ring # <<>> /\ InRing(u.to, flights[w].ring)
    OBVIOUS
  <2>1. PICK del \in BOOLEAN, key \in Keys : u = W(del, key)
    BY <1>3
  <2>2. QED
    BY <1>3, <1>4, <2>1

\* What a step of a client changes.
LEMMA ClientTypes ==
  ASSUME StoredTypes, CallTypes, Client
  PROVE  StoredTypes' /\ CallTypes'
<1> USE BoundsAreNat
<1>1. PICK w \in Clients : \/ Route(w) \/ PreRead(w) \/ Execute(w) \/ ExecuteUnanswered(w)
                           \/ Prepare(w) \/ AbortTx(w) \/ CommitTx(w) \/ CommitRow(w)
  BY DEF Client
<1>2. flights[w] \in Flight
  BY DEF CallTypes
<1>3. [NoFlight EXCEPT !.pc = "done"] \in Flight
  <2>1. NoFlight \in Flight
    BY EmptySeq DEF NoFlight, Flight, Values
  <2>2. QED
    BY <2>1 DEF Flight
<1>4. UNCHANGED <<entries, fenced, catalogVars, handlerVars>>
      /\ used' \in [ops : 0 .. MaxOps, faults : Nat]
  BY <1>1 DEF Route, PreRead, Execute, ExecuteUnanswered, Prepare, AbortTx, CommitTx, CommitRow,
              shardVars, StoredTypes
<1>5. ghost' \in Ghost
  <2>1. ghost \in Ghost
    BY DEF StoredTypes
  <2>2. flights[w].pc \in Live => flights[w].row \in Rows
    BY DEF CallTypes
  <2>3. CASE Route(w) \/ AbortTx(w) \/ CommitTx(w)
    BY <2>1, <2>3 DEF Route, AbortTx, CommitTx
  <2>4. CASE PreRead(w) \/ Prepare(w)
    BY <2>1, <2>2, <2>4 DEF PreRead, Prepare, Ready, Overlap, Ghost, Live
  <2>5. CASE Execute(w)
    BY <2>1, <2>2, <2>5 DEF Execute, Ready, Unseen, Overlap, Ghost, Live
  <2>6. CASE ExecuteUnanswered(w)
    BY <2>1, <2>2, <2>6 DEF ExecuteUnanswered, Ready, Ghost, Live
  <2>7. CASE CommitRow(w)
    BY <2>1, <2>2, <2>7 DEF CommitRow, Unseen, Ghost, Live
  <2>8. QED
    BY <1>1, <2>3, <2>4, <2>5, <2>6, <2>7
<1>6. row' \in [Rows -> Values]
  <2>1. row \in [Rows -> Values]
    BY DEF StoredTypes
  <2>2. flights[w].pc \in Live => After(w) \in Values
    BY DEF CallTypes, After, Values
  <2>3. Ready(w) => flights[w].pc \in Live
    BY DEF Ready, Live
  <2>4. QED
    BY <1>1, <2>1, <2>2, <2>3
    DEF Route, PreRead, Execute, ExecuteUnanswered, Prepare, AbortTx, CommitTx, CommitRow,
        shardVars, Live
<1>7. upkeep' \in SUBSET Write
  <2>1. upkeep \in SUBSET Write
    BY DEF CallTypes
  <2>2. flights[w].pc \in Live => Deltas(w) \in SUBSET Write
    BY DeltasAreWrites
  <2>3. Ready(w) => flights[w].pc \in Live
    BY DEF Ready, Live
  <2>4. QED
    BY <1>1, <2>1, <2>2, <2>3
    DEF Route, PreRead, Execute, ExecuteUnanswered, Prepare, AbortTx, CommitTx, CommitRow,
        Intents, Live
<1>8. /\ flights' \in [Clients -> Flight]
      /\ \A v \in Clients : flights'[v].pc \in Live =>
           flights'[v].row \in Rows /\ flights'[v].key \in Keys
  <2>1. /\ flights \in [Clients -> Flight]
        /\ \A v \in Clients : flights[v].pc \in Live =>
             flights[v].row \in Rows /\ flights[v].key \in Keys
    BY DEF CallTypes
  <2>2. CASE flights' = Done(w)
    BY <1>3, <2>1, <2>2 DEF Done, NoFlight, Live
  <2>3. CASE Route(w)
    <3>1. PICK op \in Ops, r \in Rows, k \in Keys :
            flights' = [flights EXCEPT ![w] =
                [pc |-> "routed", op |-> op, row |-> r, key |-> k,
                 ring |-> rule[Home].ring, before |-> Gone]]
      BY <2>3 DEF Route
    <3>2. rule[Home].ring \in Seq(Shards)
      BY DEF StoredTypes, Rule
    <3>3. [pc |-> "routed", op |-> op, row |-> r, key |-> k,
           ring |-> rule[Home].ring, before |-> Gone] \in Flight
      BY <3>2 DEF Flight, Values, Rows
    <3>4. QED
      BY <2>1, <3>1, <3>3 DEF Live
  <2>4. CASE PreRead(w)
    <3>1. row[flights[w].row] \in Values
      BY <2>4, <2>1 DEF PreRead, StoredTypes, Live
    <3>2. [flights[w] EXCEPT !.pc = "read", !.before = row[flights[w].row]] \in Flight
      BY <1>2, <3>1 DEF Flight
    <3>3. flights' = [flights EXCEPT ![w] =
                        [flights[w] EXCEPT !.pc = "read", !.before = row[flights[w].row]]]
      BY <2>1, <2>4 DEF PreRead
    <3>4. QED
      BY <1>2, <2>1, <2>4, <3>2, <3>3 DEF PreRead, Live, Flight
  <2>5. ASSUME NEW p \in {"prepared", "committing"}, flights[w].pc \in Live,
               flights' = [flights EXCEPT ![w].pc = p]
        PROVE  /\ flights' \in [Clients -> Flight]
               /\ \A v \in Clients : flights'[v].pc \in Live =>
                    flights'[v].row \in Rows /\ flights'[v].key \in Keys
    <3>1. [flights[w] EXCEPT !.pc = p] \in Flight
      BY <1>2, <2>5 DEF Flight
    <3>2. flights' = [flights EXCEPT ![w] = [flights[w] EXCEPT !.pc = p]]
      BY <2>1, <2>5
    <3>3. /\ flights'[w].row = flights[w].row /\ flights'[w].key = flights[w].key
      BY <1>2, <2>1, <3>2 DEF Flight
    <3>4. QED
      BY <2>1, <2>5, <3>1, <3>2, <3>3
  <2>6. QED
    BY <1>1, <2>2, <2>3, <2>4, <2>5
    DEF Execute, ExecuteUnanswered, Prepare, AbortTx, CommitTx, CommitRow, Ready, Live
<1>9. QED
  BY <1>4, <1>5, <1>6, <1>7, <1>8 DEF StoredTypes, CallTypes, catalogVars, handlerVars

\* What a step of an index write changes.
LEMMA UpkeepTypes ==
  ASSUME StoredTypes, CallTypes, Upkeep
  PROVE  StoredTypes' /\ CallTypes'
<1> USE BoundsAreNat
<1>1. PICK u \in upkeep : Deliver(u) \/ Resolve(u) \/ Fails(u) \/ Unanswered(u) \/ Lose(u)
  BY DEF Upkeep
<1>2. u \in Write /\ upkeep \in SUBSET Write
  BY <1>1 DEF CallTypes
<1>3. /\ UNCHANGED <<row, fenced, catalogVars, handlerVars, flights>>
      /\ used' \in [ops : 0 .. MaxOps, faults : Nat]
  BY <1>1 DEF StoredTypes, Deliver, Resolve, Fails, Unanswered, Lose, shardVars, clientVars
<1>4. ghost' \in Ghost
  BY <1>1, <1>2 DEF Deliver, Resolve, Fails, Unanswered, Lose, StoredTypes, Ghost, Write
<1>5. entries' \in [Shards -> SUBSET Entry]
  <2>1. entries \in [Shards -> SUBSET Entry]
    BY DEF StoredTypes
  <2>2. <<u.row, u.key>> \in Entry
    BY <1>2 DEF Write, Entry
  <2>3. Apply(u) => entries' \in [Shards -> SUBSET Entry]
    <3>1. entries[u.at] \ {<<u.row, u.key>>} \in SUBSET Entry
          /\ entries[u.at] \cup {<<u.row, u.key>>} \in SUBSET Entry
      BY <1>2, <2>1, <2>2 DEF Write
    <3>2. QED
      BY <2>1, <3>1 DEF Apply
  <2>4. QED
    BY <1>1, <2>1, <2>3 DEF Deliver, Resolve, Fails, Unanswered, Lose, shardVars
<1>6. upkeep' \in SUBSET Write
  <2>1. CASE Deliver(u) \/ Lose(u)
    BY <1>2, <2>1 DEF Deliver, Lose
  <2>2. CASE Resolve(u)
    <3>1. RingNow \in Seq(Shards)
      BY DEF RingNow, StoredTypes, Rule
    <3>2. RingNow # <<>> => Place(u.key, RingNow) \in Shards
      BY <1>2, <3>1, PlaceInRing DEF Write
    <3>3. QED
      BY <1>2, <2>2, <3>2 DEF Resolve, Replace, Write
  <2>3. CASE Fails(u)
    BY <1>2, <2>3 DEF Fails, Replace, Write
  <2>4. CASE Unanswered(u)
    <3>1. [u EXCEPT !.stage = "queued", !.at = u.to, !.ran = @ \cup {u.at}] \in Write
      <4>1. u.ran \cup {u.at} \in SUBSET Shards
        BY <1>2 DEF Write
      <4>2. QED
        BY <1>2, <4>1 DEF Write
    <3>2. QED
      BY <1>2, <2>4, <3>1 DEF Unanswered, Replace
  <2>5. QED
    BY <1>1, <2>1, <2>2, <2>3, <2>4
<1>7. QED
  BY <1>3, <1>4, <1>5, <1>6 DEF StoredTypes, CallTypes, catalogVars, handlerVars

\* What a step of the gateway changes.
LEMMA GatewayTypes ==
  ASSUME StoredTypes, CallTypes, Gateway
  PROVE  StoredTypes' /\ CallTypes'
<1> USE BoundsAreNat
<1>1. UNCHANGED <<row, fenced, leave, filler, mover, clientVars>>
  BY DEF Gateway, CreateBegins, CreateVerifies, Register, StartBackfill, DropBegins, Unregister,
         CleanShard, GatewayStops, LeaseLapses, AddShard, shardVars, catalogVars, handlerVars
<1>2. /\ lock' \in 0 .. MaxOps /\ used' \in [ops : 0 .. MaxOps, faults : Nat]
      /\ active' \in SUBSET Shards
  <2>1. /\ lock \in 0 .. MaxOps /\ used \in [ops : 0 .. MaxOps, faults : Nat]
        /\ active \in SUBSET Shards /\ gateway.op \in 0 .. MaxOps
    BY DEF StoredTypes, CallTypes, Call
  <2>2. Take => lock' \in 0 .. MaxOps /\ used' \in [ops : 0 .. MaxOps, faults : Nat]
    BY <2>1 DEF Take, NextOp
  <2>3. Drop(gateway.op) => lock' \in 0 .. MaxOps
    BY <2>1 DEF Drop, NoOp
  <2>4. CASE CreateBegins \/ DropBegins
    BY <2>1, <2>2, <2>4 DEF CreateBegins, DropBegins
  <2>5. CASE CreateVerifies \/ \E c \in Catalogs : Register(c) \/ Unregister(c)
    BY <2>1, <2>5 DEF CreateVerifies, Register, Unregister, catalogVars
  <2>6. CASE StartBackfill \/ \E s \in Shards : CleanShard(s)
    BY <2>1, <2>3, <2>6 DEF StartBackfill, CleanShard
  <2>7. CASE GatewayStops \/ LeaseLapses
    BY <2>1, <2>3, <2>7 DEF GatewayStops, LeaseLapses, NoOp
  <2>8. CASE \E s \in Shards : AddShard(s)
    BY <2>1, <2>8 DEF AddShard
  <2>9. QED
    BY <2>4, <2>5, <2>6, <2>7, <2>8 DEF Gateway
<1>3. gateway' \in Call
  <2>1. /\ gateway \in Call /\ active \in SUBSET Shards
        /\ used \in [ops : 0 .. MaxOps, faults : Nat]
        /\ rule \in [Catalogs -> Rule]
    BY DEF StoredTypes, CallTypes
  <2>2. NoCall \in Call
    BY EmptySeq DEF NoCall, Call, NoOp
  <2>3. CASE CreateBegins
    <3>1. ListShards(active) \in Seq(Shards)
      BY <2>1, ListsTheSet
    <3>2. NextOp \in 0 .. MaxOps
      BY <2>1, <2>3 DEF CreateBegins, Take, NextOp
    <3>3. QED
      BY <2>2, <2>3, <3>1, <3>2 DEF CreateBegins, Call
  <2>4. CASE CreateVerifies
    <3> DEFINE ring == ListShards(Members(gateway.ring) \cap active)
    <3>1. ring \in Seq(Shards)
      BY <2>1, ListsTheSet
    <3> HIDE DEF ring
    <3>2. gateway' = [gateway EXCEPT !.pc = "register", !.ring = ring, !.todo = Catalogs]
      BY <2>4 DEF CreateVerifies, ring
    <3>3. Catalogs \in SUBSET (Catalogs \cup Shards)
      OBVIOUS
    <3>4. QED
      BY <2>1, <3>1, <3>2, <3>3 DEF Call
  <2>5. CASE \E c \in Catalogs : Register(c)
    <3>1. PICK c \in Catalogs : Register(c)
      BY <2>5
    <3>2. gateway.todo \ {c} \in SUBSET (Catalogs \cup Shards)
      BY <2>1 DEF Call
    <3>3. QED
      BY <2>1, <3>1, <3>2 DEF Register, Call
  <2>6. CASE StartBackfill \/ GatewayStops
    BY <2>2, <2>6 DEF StartBackfill, GatewayStops
  <2>7. CASE DropBegins
    <3>1. rule[Zero].ring \in Seq(Shards) /\ Catalogs \in SUBSET (Catalogs \cup Shards)
      BY <2>1 DEF Rule
    <3>2. NextOp \in 0 .. MaxOps
      BY <2>1, <2>7 DEF DropBegins, Take, NextOp
    <3>3. QED
      BY <2>2, <2>7, <3>1, <3>2 DEF DropBegins, Call
  <2>8. CASE \E c \in Catalogs : Unregister(c)
    <3>1. PICK c \in Catalogs : Unregister(c)
      BY <2>8
    <3>2. /\ gateway.todo \ {c} \in SUBSET (Catalogs \cup Shards)
          /\ active \cup Members(gateway.ring) \in SUBSET (Catalogs \cup Shards)
      BY <2>1 DEF Call, Members
    <3>3. QED
      BY <2>1, <3>1, <3>2 DEF Unregister, Call
  <2>9. CASE \E s \in Shards : CleanShard(s)
    <3>1. PICK s \in Shards : CleanShard(s)
      BY <2>9
    <3>2. gateway.todo \ {s} \in SUBSET (Catalogs \cup Shards)
      BY <2>1 DEF Call
    <3>3. QED
      BY <2>1, <2>2, <3>1, <3>2 DEF CleanShard, Call
  <2>10. CASE LeaseLapses \/ \E s \in Shards : AddShard(s)
    BY <2>1, <2>10 DEF LeaseLapses, AddShard, handlerVars
  <2>11. QED
    BY <2>3, <2>4, <2>5, <2>6, <2>7, <2>8, <2>9, <2>10 DEF Gateway
<1>4. rule' \in [Catalogs -> Rule] /\ fill' \in FillRow
  <2>1. /\ rule \in [Catalogs -> Rule] /\ fill \in FillRow /\ gateway \in Call
    BY DEF StoredTypes, CallTypes
  <2>2. NoRule \in Rule /\ NoFill \in FillRow
    BY EmptySeq DEF NoRule, Rule, Status, NoFill, FillRow, NoOp
  <2>3. CASE \E c \in Catalogs : Register(c)
    <3>1. PICK c \in Catalogs : Register(c)
      BY <2>3
    <3>2. [NoRule EXCEPT !.status = "building", !.ring = gateway.ring] \in Rule
      BY <2>1, <2>2 DEF Rule, Status, Call
    <3>3. QED
      BY <2>1, <3>1, <3>2 DEF Register
  <2>4. CASE StartBackfill
    <3>1. [rule[Zero] EXCEPT !.status = "building"] \in Rule
      BY <2>1 DEF Rule, Status
    <3>2. [on |-> TRUE, past |-> FALSE, at |-> 0, op |-> gateway.op] \in FillRow
      BY <2>1 DEF FillRow, Call
    <3>3. QED
      BY <2>1, <2>4, <3>1, <3>2 DEF StartBackfill
  <2>5. CASE \E c \in Catalogs : Unregister(c)
    BY <2>1, <2>2, <2>5 DEF Unregister
  <2>6. CASE UNCHANGED <<rule, fill>>
    BY <2>1, <2>6
  <2>7. QED
    BY <2>3, <2>4, <2>5, <2>6
    DEF Gateway, CreateBegins, CreateVerifies, DropBegins, CleanShard, GatewayStops, LeaseLapses,
        AddShard, catalogVars
<1>5. entries' \in [Shards -> SUBSET Entry]
  <2>1. entries \in [Shards -> SUBSET Entry]
    BY DEF StoredTypes
  <2>2. CASE \E s \in Shards : CleanShard(s)
    BY <2>1, <2>2 DEF CleanShard
  <2>3. CASE UNCHANGED entries
    BY <2>1, <2>3
  <2>4. QED
    BY <2>2, <2>3
    DEF Gateway, CreateBegins, CreateVerifies, Register, StartBackfill, DropBegins, Unregister,
        GatewayStops, LeaseLapses, AddShard, shardVars
<1>6. ghost' \in Ghost
  <2>1. ghost \in Ghost /\ entries \in [Shards -> SUBSET Entry]
    BY DEF StoredTypes
  <2>2. CASE \E c \in Catalogs : Register(c)
    <3>1. Leftover \in SUBSET Rows
      BY <2>1 DEF Leftover, Entry
    <3>2. \A c : Forks(c) \in BOOLEAN
      BY DEF Forks
    <3>3. PICK c \in Catalogs :
            ghost' = [ghost EXCEPT !.forked = @ \/ Forks(c), !.left = @ \cup Leftover]
      BY <2>2 DEF Register
    <3>4. QED
      BY <2>1, <3>1, <3>2, <3>3 DEF Ghost
  <2>3. CASE \E c \in Catalogs : Unregister(c)
    <3>1. UnderWay \in SUBSET Rows
      BY DEF UnderWay, CallTypes, Write, Live, Flight
    <3>2. ghost' = [ghost EXCEPT !.unseen = @ \cup UnderWay]
      BY <2>3 DEF Unregister
    <3>3. QED
      BY <2>1, <3>1, <3>2 DEF Ghost
  <2>4. CASE UNCHANGED ghost
    BY <2>1, <2>4
  <2>5. QED
    BY <2>2, <2>3, <2>4
    DEF Gateway, CreateBegins, CreateVerifies, StartBackfill, DropBegins, CleanShard,
        GatewayStops, LeaseLapses, AddShard
<1>7. QED
  BY <1>1, <1>2, <1>3, <1>4, <1>5, <1>6 DEF StoredTypes, CallTypes, clientVars

\* What a tick of the backfill changes.
LEMMA FillerTypes ==
  ASSUME StoredTypes, CallTypes, Filler
  PROVE  StoredTypes' /\ CallTypes'
<1> USE BoundsAreNat
<1>1. UNCHANGED <<row, fenced, active, leave, gateway, mover, clientVars, ghost>>
  BY DEF Filler, FillScan, FillRefresh, FillWrite, FillPageEnds, FillEnds, MarkReady, FillFails,
         FillStops, fillFrame
<1>2. /\ filler \in Tick /\ fill \in FillRow /\ rule \in [Catalogs -> Rule]
      /\ entries \in [Shards -> SUBSET Entry] /\ row \in [Rows -> Values]
      /\ lock \in 0 .. MaxOps /\ used \in [ops : 0 .. MaxOps, faults : Nat]
  BY DEF StoredTypes, CallTypes
<1>3. NoTick \in Tick /\ NoFill \in FillRow
  BY EmptySeq DEF NoTick, Tick, NoFill, FillRow, NoOp, Values
<1>4. /\ lock' \in 0 .. MaxOps /\ used' \in [ops : 0 .. MaxOps, faults : Nat]
      /\ fill' \in FillRow
  <2>1. fill.op \in 0 .. MaxOps
    BY <1>2 DEF FillRow
  <2>2. Drop(fill.op) => lock' \in 0 .. MaxOps
    BY <1>2, <2>1 DEF Drop, NoOp
  <2>3. filler.last \in 0 .. NRows
    BY <1>2 DEF Tick
  <2> DEFINE past == [fill EXCEPT !.past = TRUE, !.at = 0]
             page == [fill EXCEPT !.at = filler.last]
  <2>0. past \in FillRow /\ page \in FillRow
    <3>1. fill \in FillRow /\ 0 \in 0 .. NRows
      BY <1>2
    <3>2. past \in FillRow
      BY <3>1 DEF FillRow
    <3>3. page \in FillRow
      BY <2>3, <3>1 DEF FillRow
    <3>4. QED
      BY <3>2, <3>3
  <2>4. CASE FillScan \/ FillRefresh \/ FillWrite \/ FillEnds
    <3>1. UNCHANGED <<lock, used>> /\ fill' \in {fill, past}
      BY <1>2, <2>4 DEF FillScan, FillRefresh, FillWrite, FillEnds
    <3>2. QED
      BY <1>2, <2>0, <3>1
  <2>5. CASE FillPageEnds
    <3>1. UNCHANGED <<lock, used>> /\ fill' \in {fill, past, page}
      BY <1>2, <2>5 DEF FillPageEnds
    <3>2. QED
      BY <1>2, <2>0, <3>1
  <2>6. CASE \E c \in Catalogs : MarkReady(c)
    BY <1>2, <1>3, <2>2, <2>6 DEF MarkReady
  <2>7. CASE FillFails \/ FillStops
    BY <1>2, <2>2, <2>7 DEF FillFails, FillStops, FillRow, NoOp
  <2>8. QED
    BY <2>4, <2>5, <2>6, <2>7 DEF Filler
<1>5. rule' \in [Catalogs -> Rule]
  <2>1. \A c \in Catalogs : Readied(c) \in [Catalogs -> Rule]
    BY <1>2 DEF Readied, Rule, Status
  <2>2. CASE \E c \in Catalogs : MarkReady(c)
    BY <1>2, <2>1, <2>2 DEF MarkReady
  <2>3. CASE FillFails
    BY <1>2, <2>3 DEF FillFails, Rule, Status
  <2>4. CASE UNCHANGED rule
    BY <1>2, <2>4
  <2>5. QED
    BY <2>2, <2>3, <2>4
    DEF Filler, FillScan, FillRefresh, FillWrite, FillPageEnds, FillEnds, FillStops
<1>6. entries' \in [Shards -> SUBSET Entry]
  <2>1. CASE FillWrite
    <3>1. Smallest(filler.page) \in Rows /\ filler.key \in Keys
      BY <2>1, <1>2, PageHasEnds DEF FillWrite, CallTypes, Tick
    <3>2. <<Smallest(filler.page), filler.key>> \in Entry
      BY <3>1 DEF Entry
    <3>3. QED
      BY <1>2, <2>1, <3>2 DEF FillWrite
  <2>2. CASE UNCHANGED entries
    BY <1>2, <2>2
  <2>3. QED
    BY <2>1, <2>2
    DEF Filler, FillScan, FillRefresh, FillPageEnds, FillEnds, MarkReady, FillFails, FillStops
<1>7. filler' \in Tick /\ (filler'.pc = "write" => filler'.key \in Keys /\ filler'.page # {})
  <2>1. CASE FillScan
    <3> DEFINE page == First({r \in Rows : r > fill.at /\ row[r] # Gone}, PageSize)
    <3>1. page \in SUBSET Rows
      BY DEF First
    <3> HIDE DEF page
    <3>2. CASE page = {}
      BY <1>2, <2>1, <3>2 DEF FillScan, page, FillDue
    <3>3. CASE page # {}
      <4>1. Largest(page) \in 0 .. NRows
        <5>1. Largest(page) \in page
          BY <3>1, <3>3, PageHasEnds
        <5>2. Largest(page) \in Rows
          BY <3>1, <5>1
        <5>3. QED
          BY <5>2 DEF Rows
      <4>2. rule[Zero].ring \in Seq(Shards) /\ (Cardinality(page) < PageSize) \in BOOLEAN
        BY <1>2 DEF Rule
      <4>3. filler' = [NoTick EXCEPT !.pc = "refresh", !.ring = rule[Zero].ring, !.page = page,
                          !.last = Largest(page), !.short = Cardinality(page) < PageSize]
        BY <2>1, <3>3 DEF FillScan, page
      <4>4. QED
        BY <1>3, <3>1, <4>1, <4>2, <4>3 DEF Tick
    <3>4. QED
      BY <3>2, <3>3
  <2>2. CASE FillRefresh
    <3>1. Smallest(filler.page) \in Rows
      BY <2>2, <1>2, PageHasEnds DEF FillRefresh, Tick
    <3>2. row[Smallest(filler.page)] \in Values
      BY <1>2, <3>1
    <3>3. CASE row[Smallest(filler.page)] = Gone
      <4>1. filler.page \ {Smallest(filler.page)} \in SUBSET Rows
        BY <1>2 DEF Tick
      <4>2. QED
        BY <1>2, <2>2, <3>3, <4>1 DEF FillRefresh, Tick
    <3>4. CASE row[Smallest(filler.page)] # Gone
      <4>1. row[Smallest(filler.page)] \in Keys
        BY <3>2, <3>4 DEF Values
      <4>2. Place(row[Smallest(filler.page)], filler.ring) \in Shards \cup {NoShard}
        BY <1>2, <4>1, PlaceInRing DEF Tick, Place
      <4>3. QED
        BY <1>2, <2>2, <3>2, <3>4, <4>1, <4>2 DEF FillRefresh, Tick
    <3>5. QED
      BY <3>3, <3>4
  <2>3. CASE FillWrite
    <3>1. filler.page \ {Smallest(filler.page)} \in SUBSET Rows
      BY <1>2 DEF Tick
    <3>2. CASE filler.to \notin fenced
      BY <1>2, <2>3, <3>1, <3>2 DEF FillWrite, Tick
    <3>3. CASE filler.to \in fenced /\ RingNow # <<>> /\ Place(filler.key, RingNow) # filler.to
      <4>1. filler.key \in Keys /\ filler.page # {} /\ RingNow \in Seq(Shards)
        BY <1>2, <2>3 DEF CallTypes, FillWrite, RingNow, Rule
      <4>2. Place(filler.key, RingNow) \in Shards
        BY <3>3, <4>1, PlaceInRing
      <4>3. QED
        BY <1>2, <2>3, <3>3, <4>1, <4>2 DEF FillWrite, Tick
    <3>4. CASE filler' = NoTick
      BY <1>3, <3>4 DEF NoTick
    <3>5. QED
      BY <2>3, <3>2, <3>3, <3>4 DEF FillWrite
  <2>4. CASE FillEnds
    BY <1>3, <2>4 DEF FillEnds, Tick, NoTick
  <2>5. CASE \E c \in Catalogs : MarkReady(c)
    <3>1. PICK c \in Catalogs : MarkReady(c)
      BY <2>5
    <3>2. filler.todo \ {c} \in SUBSET Catalogs
      BY <1>2 DEF Tick
    <3>3. QED
      BY <1>2, <1>3, <3>1, <3>2 DEF MarkReady, Tick, NoTick
  <2>6. CASE FillPageEnds \/ FillFails \/ FillStops
    <3>1. filler' = NoTick
      BY <2>6 DEF FillPageEnds, FillFails, FillStops
    <3>2. QED
      BY <1>3, <3>1 DEF NoTick
  <2>7. QED
    BY <2>1, <2>2, <2>3, <2>4, <2>5, <2>6 DEF Filler
<1>8. QED
  BY <1>1, <1>2, <1>4, <1>5, <1>6, <1>7 DEF StoredTypes, CallTypes, clientVars

\* A catalog is given a ring and a shadow.
LEMMA SetRingTypes ==
  ASSUME StoredTypes, CallTypes, NEW c \in Catalogs, NEW shadow \in SUBSET {Leaving},
         SetRing(c, shadow)
  PROVE  rule' \in [Catalogs -> Rule]
<1>1. rule \in [Catalogs -> Rule] /\ mover \in Move
  BY DEF StoredTypes, CallTypes
<1>2. [rule[c] EXCEPT !.ring = mover.ring, !.shadow = shadow] \in Rule
  BY <1>1 DEF Rule, Move
<1>3. rule' \in {rule, [rule EXCEPT ![c] = [rule[c] EXCEPT !.ring = mover.ring, !.shadow = shadow]]}
  BY <1>1 DEF SetRing, Rule
<1>4. QED
  BY <1>1, <1>2, <1>3

\* The drain's substitute takes the shard's place in the ring.
LEMMA Repointed ==
  ASSUME NEW ring \in Seq(Shards), NEW s \in Shards \ {Leaving},
         NEW new, new = [i \in DOMAIN ring |-> IF ring[i] = Leaving THEN s ELSE ring[i]]
  PROVE  new \in Seq(Shards) /\ ~InRing(Leaving, new)
<1>1. ring \in [1 .. Len(ring) -> Shards] /\ Len(ring) \in Nat
  BY LenProperties
<1>2. DOMAIN ring = 1 .. Len(ring)
  BY <1>1
<1>3. new \in [1 .. Len(ring) -> Shards]
  BY <1>1, <1>2
<1>4. new \in Seq(Shards)
  BY <1>1, <1>3
<1>5. QED
  BY <1>3, <1>4 DEF InRing

\* What a step of the drain changes.
LEMMA MoverTypes ==
  ASSUME StoredTypes, CallTypes, DrainTrue, Mover
  PROVE  StoredTypes' /\ CallTypes'
<1> USE BoundsAreNat
<1>1. UNCHANGED <<row, fill, gateway, filler, clientVars, ghost>>
  BY DEF Mover, StartDrain, MoveFences, MoveMarks, MoveResumes, MoveRepoints, FanRepoint,
         MoveFlushes, MoveFlushesBlind, MoveExports, MoveImports, MoveConverges, MoveDeletes,
         FanUnshadow, MoveEnds, MoveStops, moveFrame, shardVars, handlerVars
<1>2. /\ mover \in Move /\ rule \in [Catalogs -> Rule] /\ active \in SUBSET Shards
      /\ leave \in [draining : BOOLEAN, op : 0 .. MaxOps,
                    substitute : (Shards \ {Leaving}) \cup {NoShard}]
      /\ entries \in [Shards -> SUBSET Entry] /\ fenced \in SUBSET {Leaving}
      /\ lock \in 0 .. MaxOps /\ used \in [ops : 0 .. MaxOps, faults : Nat]
  BY DEF StoredTypes, CallTypes
<1>3. NoMove \in Move
  BY EmptySeq DEF NoMove, Move
<1>4. /\ lock' \in 0 .. MaxOps /\ used' \in [ops : 0 .. MaxOps, faults : Nat]
      /\ active' \in SUBSET Shards /\ fenced' \in SUBSET {Leaving}
      /\ leave' \in [draining : BOOLEAN, op : 0 .. MaxOps,
                     substitute : (Shards \ {Leaving}) \cup {NoShard}]
  <2>1. CASE StartDrain
    <3>1. lock' \in 0 .. MaxOps /\ used' \in [ops : 0 .. MaxOps, faults : Nat]
          /\ NextOp \in 0 .. MaxOps
      BY <1>2, <2>1 DEF StartDrain, Take, NextOp
    <3>2. leave' = [leave EXCEPT !.draining = TRUE, !.op = NextOp] /\ active' = active \ {Leaving}
          /\ fenced' = fenced
      BY <2>1 DEF StartDrain, BeginDrain, shardVars
    <3>3. QED
      BY <1>2, <3>1, <3>2
  <2>2. CASE MoveFences
    BY <1>2, <2>2 DEF MoveFences, FenceRing, moveFrame
  <2>3. CASE MoveMarks
    <3>1. PICK s \in Candidates : leave' = [leave EXCEPT !.substitute = s]
      BY <2>3 DEF MoveMarks
    <3>2. s \in Shards \ {Leaving}
      BY <1>2, <3>1 DEF Candidates
    <3>3. QED
      BY <1>2, <2>3, <3>1, <3>2 DEF MoveMarks, moveFrame
  <2>4. CASE MoveEnds
    <3>1. lock' \in 0 .. MaxOps
      BY <1>2, <2>4 DEF MoveEnds, Drop, NoOp
    <3>2. QED
      BY <1>2, <2>4, <3>1 DEF MoveEnds, moveFrame, NoOp
  <2>5. CASE \E c \in Catalogs : FanUnshadow(c)
    BY <1>2, <2>5 DEF FanUnshadow, moveFrame
  <2>6. CASE MoveFlushesBlind \/ MoveStops
    BY <1>2, <2>6 DEF MoveFlushesBlind, MoveStops, moveFrame
  <2>7. CASE UNCHANGED <<lock, used, active, fenced, leave>>
    BY <1>2, <2>7
  <2>8. QED
    BY <2>1, <2>2, <2>3, <2>4, <2>5, <2>6, <2>7
    DEF Mover, MoveResumes, MoveRepoints, FanRepoint, MoveFlushes, MoveExports, MoveImports,
        MoveConverges, MoveDeletes, moveFrame
<1>5. rule' \in [Catalogs -> Rule]
  <2>1. CASE \E c \in Catalogs : FanRepoint(c)
    <3>1. PICK c \in Catalogs : FanRepoint(c)
      BY <2>1
    <3>2. rule[c].shadow \cup {Leaving} \in SUBSET {Leaving}
      BY <1>2 DEF Rule
    <3>3. QED
      BY <3>1, <3>2, SetRingTypes DEF FanRepoint
  <2>2. CASE \E c \in Catalogs : FanUnshadow(c)
    <3>1. PICK c \in Catalogs : FanUnshadow(c)
      BY <2>2
    <3>2. rule[c].shadow \ {Leaving} \in SUBSET {Leaving}
      BY <1>2 DEF Rule
    <3>3. QED
      BY <3>1, <3>2, SetRingTypes DEF FanUnshadow
  <2>3. CASE UNCHANGED rule
    BY <1>2, <2>3
  <2>4. QED
    BY <2>1, <2>2, <2>3
    DEF Mover, StartDrain, MoveFences, MoveMarks, MoveResumes, MoveRepoints, MoveFlushes,
        MoveFlushesBlind, MoveExports, MoveImports, MoveConverges, MoveDeletes, MoveEnds, MoveStops
<1>6. entries' \in [Shards -> SUBSET Entry]
  <2>1. CASE MoveImports
    <3>1. mover.entry \in Entry
      BY <2>1 DEF MoveImports, CallTypes
    <3>2. QED
      BY <1>2, <2>1, <3>1 DEF MoveImports
  <2>2. CASE MoveDeletes
    BY <1>2, <2>2 DEF MoveDeletes
  <2>3. CASE UNCHANGED entries
    BY <1>2, <2>3
  <2>4. QED
    BY <2>1, <2>2, <2>3
    DEF Mover, StartDrain, MoveFences, MoveMarks, MoveResumes, MoveRepoints, FanRepoint,
        MoveFlushes, MoveFlushesBlind, MoveExports, MoveConverges, FanUnshadow, MoveEnds,
        MoveStops, shardVars
<1>7. mover' \in Move /\ (mover'.pc = "import" => mover'.entry \in Entry)
  <2>1. CASE StartDrain \/ MoveEnds
    BY <1>2, <2>1 DEF StartDrain, MoveEnds, handlerVars, CallTypes
  <2>2. CASE MoveStops
    BY <1>3, <2>2 DEF MoveStops, NoMove
  <2>3. ASSUME NEW p \in {"mark", "repoint", "flush", "copy"},
               mover' = [mover EXCEPT !.pc = p]
        PROVE  mover' \in Move /\ (mover'.pc = "import" => mover'.entry \in Entry)
    BY <1>2, <2>3 DEF Move
  <2>4. CASE MoveRepoints
    <3> DEFINE ring == rule[Owner].ring
               new == [i \in DOMAIN ring |->
                         IF ring[i] = Leaving THEN leave.substitute ELSE ring[i]]
    <3>1. CASE ~InRing(Leaving, ring)
      BY <2>3, <2>4, <3>1 DEF MoveRepoints
    <3>2. CASE InRing(Leaving, ring)
      <4>1. leave.substitute \in Shards \ {Leaving}
        BY <1>2, <2>4 DEF MoveRepoints, DrainTrue, Marked
      <4>2. ring \in Seq(Shards)
        BY <1>2 DEF Rule
      <4> HIDE DEF ring
      <4>3. new \in Seq(Shards)
        BY <4>1, <4>2, Repointed
      <4>4. mover' = [mover EXCEPT !.pc = "fan", !.todo = Catalogs, !.ring = new]
        BY <2>4, <3>2 DEF MoveRepoints, ring
      <4> HIDE DEF new
      <4>5. QED
        BY <1>2, <4>3, <4>4 DEF Move
    <3>3. QED
      BY <3>1, <3>2
  <2>5. CASE \E c \in Catalogs : FanRepoint(c)
    <3>1. PICK c \in Catalogs : FanRepoint(c)
      BY <2>5
    <3>2. mover.todo \ {c} \in SUBSET Catalogs
      BY <1>2 DEF Move
    <3>3. /\ mover.pc = "fan"
          /\ mover' = [mover EXCEPT !.todo = @ \ {c}, !.pc = IF c = Owner THEN "flush" ELSE @]
      BY <3>1 DEF FanRepoint
    <3>4. QED
      BY <1>2, <3>2, <3>3 DEF Move
  <2>6. CASE MoveExports
    <3>1. PICK e \in Uncopied :
            mover' = [mover EXCEPT !.pc = "import", !.entry = e, !.copied = @ \cup {e}]
      BY <2>6 DEF MoveExports
    <3>2. e \in Entry /\ mover.copied \cup {e} \in SUBSET Entry
      BY <1>2, <3>1 DEF Uncopied, Move
    <3>3. QED
      BY <1>2, <3>1, <3>2 DEF Move
  <2>7. CASE MoveImports
    BY <1>2, <2>7 DEF MoveImports, Move
  <2>8. CASE MoveConverges
    BY <1>2, <2>8 DEF MoveConverges, Move
  <2>9. CASE MoveDeletes
    BY <1>2, <2>9 DEF MoveDeletes, Move, Rule
  <2>10. CASE \E c \in Catalogs : FanUnshadow(c)
    <3>1. PICK c \in Catalogs : FanUnshadow(c)
      BY <2>10
    <3>2. mover.todo \ {c} \in SUBSET Catalogs
      BY <1>2 DEF Move
    <3>3. QED
      BY <1>2, <1>3, <3>1, <3>2 DEF FanUnshadow, Move, NoMove
  <2>11. CASE MoveFences
    BY <2>3, <2>11 DEF MoveFences
  <2>12. CASE MoveMarks \/ MoveResumes
    BY <2>3, <2>12 DEF MoveMarks, MoveResumes
  <2>13. CASE MoveFlushes \/ MoveFlushesBlind
    <3>1. mover' = NoMove \/ mover' = [mover EXCEPT !.pc = "copy"]
      BY <2>13 DEF MoveFlushes, MoveFlushesBlind
    <3>2. mover' = NoMove => mover' \in Move /\ mover'.pc # "import"
      BY <1>3 DEF NoMove
    <3>3. QED
      BY <2>3, <3>1, <3>2
  <2>14. QED
    BY <2>1, <2>2, <2>4, <2>5, <2>6, <2>7, <2>8, <2>9, <2>10, <2>11, <2>12, <2>13 DEF Mover
<1>8. QED
  BY <1>1, <1>4, <1>5, <1>6, <1>7 DEF StoredTypes, CallTypes, clientVars

\* Every step keeps the shapes.
LEMMA TypesStep ==
  ASSUME StoredTypes, CallTypes, DrainTrue, [Next]_vars
  PROVE  StoredTypes' /\ CallTypes'
<1>1. CASE Query \/ UNCHANGED vars
  BY <1>1 DEF Query, QueryLookup, QueryRing, QueryShadow, QueryAnswer, vars, shardVars, catalogVars,
              handlerVars, clientVars, StoredTypes, CallTypes
<1>2. QED
  BY <1>1, ClientTypes, UpkeepTypes, GatewayTypes, FillerTypes, MoverTypes DEF Next

-----------------------------------------------------------------------------
(* What a step may change of the rings.                                    *)

\* The rings stay as they are, and where they are.
SameRings ==
  \A c \in Catalogs : /\ rule'[c].ring = rule[c].ring /\ rule'[c].shadow = rule[c].shadow
                      /\ Registered(c)' <=> Registered(c)
                      /\ ~Registered(c) => rule'[c] = rule[c]

\* The ring of c is repointed, or its read-shadow ends.
RingIsSet(c, shadow) ==
  /\ c \in mover.todo /\ (c = Owner => mover.todo = {Owner})
  /\ \A d \in Catalogs : /\ d # c \/ ~Registered(d) => rule'[d] = rule[d]
                         /\ Registered(d)' <=> Registered(d)
  /\ Registered(c) => rule'[c].ring = mover.ring /\ rule'[c].shadow = shadow

\* Setting a ring registers nothing.
LEMMA SetRingEffect ==
  ASSUME StoredTypes, NEW c \in Catalogs, NEW shadow, SetRing(c, shadow)
  PROVE  RingIsSet(c, shadow)
BY DEF StoredTypes, Rule, SetRing, RingIsSet, Registered

\* The steps that change a ring.
LEMMA RingsMove ==
  ASSUME StoredTypes, CallTypes, RulesTrue, [Next]_vars
  PROVE  \/ SameRings
         \/ \E c \in Catalogs : Register(c) /\ ~Registered(c)
         \/ \E c \in Catalogs : Unregister(c)
         \/ \E c \in Catalogs : FanRepoint(c)
         \/ \E c \in Catalogs : FanUnshadow(c)
<1>1. rule \in [Catalogs -> Rule] /\ Zero \in Catalogs
  BY BoundsAreNat DEF StoredTypes
<1>2. UNCHANGED rule => SameRings
  BY DEF SameRings, Registered
<1>3. CASE \E c \in Catalogs : Register(c) /\ Registered(c)
  BY <1>2, <1>3 DEF Register
<1>4. CASE StartBackfill
  <2>1. Registered(Zero)
    BY <1>1, <1>4 DEF StartBackfill, RulesTrue
  <2>2. QED
    BY <1>1, <1>2, <1>4, <2>1 DEF StartBackfill, SameRings, Registered, Rule
<1>5. CASE \E c \in Catalogs : MarkReady(c)
  BY <1>1, <1>2, <1>5 DEF MarkReady, Readied, SameRings, Registered, Rule
<1>6. CASE FillFails
  BY <1>1, <1>2, <1>6 DEF FillFails, SameRings, Registered, Rule
<1>7. CASE Client \/ Upkeep \/ Query \/ UNCHANGED vars
  BY <1>2, <1>7
  DEF Client, Route, PreRead, Execute, ExecuteUnanswered, Prepare, AbortTx, CommitTx, CommitRow,
      Upkeep, Deliver, Resolve, Fails, Unanswered, Lose,
      Query, QueryLookup, QueryRing, QueryShadow, QueryAnswer, vars, catalogVars
<1>8. CASE Gateway
  BY <1>2, <1>3, <1>4, <1>8
  DEF Gateway, CreateBegins, CreateVerifies, DropBegins, CleanShard, GatewayStops, LeaseLapses,
      AddShard, catalogVars
<1>9. CASE Filler
  BY <1>2, <1>5, <1>6, <1>9
  DEF Filler, FillScan, FillRefresh, FillWrite, FillPageEnds, FillEnds, FillStops
<1>10. CASE Mover
  BY <1>2, <1>10
  DEF Mover, StartDrain, MoveFences, MoveMarks, MoveResumes, MoveRepoints, MoveFlushes,
      MoveFlushesBlind, MoveExports, MoveImports, MoveConverges, MoveDeletes, MoveEnds, MoveStops
<1>11. QED
  BY <1>7, <1>8, <1>9, <1>10 DEF Next

\* Only the drain moves the drain; another shard may join.
LEMMA OthersLeaveDrain ==
  ASSUME [Next]_vars, ~Mover
  PROVE  /\ UNCHANGED <<fenced, leave, mover>>
         /\ active' = active \/ \E s \in Shards \ {Leaving} : active' = active \cup {s}
<1>1. CASE Client \/ Upkeep \/ Query \/ UNCHANGED vars
  BY <1>1
  DEF Client, Route, PreRead, Execute, ExecuteUnanswered, Prepare, AbortTx, CommitTx, CommitRow,
      Upkeep, Deliver, Resolve, Fails, Unanswered, Lose,
      Query, QueryLookup, QueryRing, QueryShadow, QueryAnswer, vars, shardVars, catalogVars,
      handlerVars
<1>2. CASE Gateway
  BY <1>2
  DEF Gateway, CreateBegins, CreateVerifies, Register, StartBackfill, DropBegins, Unregister,
      CleanShard, GatewayStops, LeaseLapses, AddShard, shardVars, catalogVars, handlerVars
<1>3. CASE Filler
  BY <1>3
  DEF Filler, FillScan, FillRefresh, FillWrite, FillPageEnds, FillEnds, MarkReady, FillFails,
      FillStops, fillFrame
<1>4. QED
  BY <1>1, <1>2, <1>3 DEF Next

\* Nothing is taken back of what the code gives up on.
LEMMA GhostGrows ==
  ASSUME StoredTypes, [Next]_vars
  PROVE  /\ ghost.unseen \subseteq ghost'.unseen /\ ghost.late \subseteq ghost'.late
         /\ ghost.left \subseteq ghost'.left /\ (ghost.forked => ghost'.forked)
<1>1. ghost \in Ghost
  BY DEF StoredTypes
<1>2. CASE UNCHANGED ghost
  BY <1>2
<1>3. CASE Client
  BY <1>1, <1>3
  DEF Client, Route, PreRead, Execute, ExecuteUnanswered, Prepare, AbortTx, CommitTx, CommitRow,
      Overlap, Unseen, Ghost
<1>4. CASE Upkeep
  BY <1>1, <1>4 DEF Upkeep, Deliver, Resolve, Fails, Unanswered, Lose, Ghost
<1>5. CASE Gateway
  <2>1. CASE \E c \in Catalogs : Register(c)
    BY <1>1, <2>1 DEF Register, Ghost
  <2>2. CASE \E c \in Catalogs : Unregister(c)
    BY <1>1, <2>2 DEF Unregister, Ghost
  <2>3. QED
    BY <1>2, <1>5, <2>1, <2>2
    DEF Gateway, CreateBegins, CreateVerifies, StartBackfill, DropBegins, CleanShard,
        GatewayStops, LeaseLapses, AddShard
<1>6. CASE Query \/ Filler \/ Mover \/ UNCHANGED vars
  BY <1>2, <1>6
  DEF Query, QueryLookup, QueryRing, QueryShadow, QueryAnswer,
      Filler, FillScan, FillRefresh, FillWrite, FillPageEnds, FillEnds, MarkReady, FillFails,
      FillStops, fillFrame,
      Mover, StartDrain, MoveFences, MoveMarks, MoveResumes, MoveRepoints, FanRepoint,
      MoveFlushes, MoveFlushesBlind, MoveExports, MoveImports, MoveConverges, MoveDeletes,
      FanUnshadow, MoveEnds, MoveStops, moveFrame, vars
<1>7. QED
  BY <1>3, <1>4, <1>5, <1>6 DEF Next

-----------------------------------------------------------------------------
(* The drain, the rules and the agreement of the rings.                    *)

\* The drain's steps keep their order.
LEMMA DrainTrueStep ==
  ASSUME RingInv, [Next]_vars
  PROVE  DrainTrue'
<1> USE BoundsAreNat
<1>1. /\ DrainTrue /\ mover \in Move /\ active \in SUBSET Shards
      /\ used \in [ops : 0 .. MaxOps, faults : Nat] /\ fenced \in SUBSET {Leaving}
      /\ leave \in [draining : BOOLEAN, op : 0 .. MaxOps,
                    substitute : (Shards \ {Leaving}) \cup {NoShard}]
  BY DEF RingInv, StoredTypes, CallTypes
<1>2. CASE ~Mover
  BY <1>1, <1>2, OthersLeaveDrain DEF DrainTrue, Marked
<1>3. CASE StartDrain
  <2>1. /\ leave' = [leave EXCEPT !.draining = TRUE, !.op = NextOp] /\ active' = active \ {Leaving}
        /\ UNCHANGED <<fenced, mover>> /\ ~leave.draining
    BY <1>3 DEF StartDrain, BeginDrain, shardVars, handlerVars
  <2>2. NextOp # NoOp
    BY <1>1 DEF NextOp, NoOp
  <2>3. QED
    BY <1>1, <2>1, <2>2 DEF DrainTrue, Marked
<1>4. CASE MoveFences
  <2>1. /\ mover' = [mover EXCEPT !.pc = "mark"] /\ fenced' = fenced \cup {Leaving}
        /\ UNCHANGED <<active, leave>> /\ ~Marked /\ leave.op # NoOp
    BY <1>4 DEF MoveFences, FenceRing, MoveDue, moveFrame
  <2>2. QED
    BY <1>1, <2>1 DEF DrainTrue, Marked, Move
<1>5. CASE MoveMarks
  <2>1. PICK s \in Candidates : leave' = [leave EXCEPT !.substitute = s]
    BY <1>5 DEF MoveMarks
  <2>2. s # NoShard
    BY <1>1, <2>1 DEF Candidates, Shards, NoShard
  <2>3. /\ mover' = [mover EXCEPT !.pc = "repoint"] /\ UNCHANGED <<active, fenced>>
        /\ mover.pc = "mark"
    BY <1>5 DEF MoveMarks, moveFrame
  <2>4. QED
    BY <1>1, <2>1, <2>2, <2>3 DEF DrainTrue, Marked, Move
<1>6. CASE MoveResumes
  BY <1>1, <1>6 DEF MoveResumes, MoveDue, moveFrame, DrainTrue, Marked, Move
<1>7. CASE MoveEnds
  BY <1>1, <1>7 DEF MoveEnds, MoveDue, moveFrame, DrainTrue, Marked, NoOp
<1>8. CASE \E c \in Catalogs : FanUnshadow(c)
  BY <1>1, <1>8 DEF FanUnshadow, moveFrame, DrainTrue, Marked, Move, NoMove, NoShard
<1>9. CASE MoveStops
  BY <1>1, <1>9 DEF MoveStops, moveFrame, DrainTrue, Marked, NoMove
<1>10. ASSUME mover.pc \notin {"idle", "mark"}, mover'.pc # "mark",
              UNCHANGED <<active, fenced, leave>>
       PROVE  DrainTrue'
  BY <1>1, <1>10 DEF DrainTrue, Marked
<1>11. CASE MoveRepoints
  <2>1. mover'.pc # "mark"
    BY <1>1, <1>11 DEF MoveRepoints, Move
  <2>2. QED
    BY <1>10, <1>11, <2>1 DEF MoveRepoints, moveFrame
<1>12. CASE \E c \in Catalogs : FanRepoint(c)
  BY <1>1, <1>10, <1>12 DEF FanRepoint, moveFrame, Move
<1>13. CASE MoveFlushes \/ MoveFlushesBlind
  <2>1. mover'.pc # "mark"
    BY <1>1, <1>13 DEF MoveFlushes, MoveFlushesBlind, Move, NoMove
  <2>2. QED
    BY <1>10, <1>13, <2>1 DEF MoveFlushes, MoveFlushesBlind, moveFrame
<1>14. CASE MoveExports \/ MoveImports \/ MoveConverges \/ MoveDeletes
  <2>1. mover'.pc # "mark"
    BY <1>1, <1>14 DEF MoveExports, MoveImports, MoveConverges, MoveDeletes, Move
  <2>2. QED
    BY <1>10, <1>14, <2>1 DEF MoveExports, MoveImports, MoveConverges, MoveDeletes, moveFrame
<1>15. QED
  BY <1>2, <1>3, <1>4, <1>5, <1>6, <1>7, <1>8, <1>9, <1>11, <1>12, <1>13, <1>14 DEF Mover

\* Membership in a ring.
LEMMA MembersIn ==
  ASSUME NEW s, NEW ring
  PROVE  /\ s \in Members(ring) <=> InRing(s, ring)
         /\ ~InRing(s, <<>>)
BY DEF Members, InRing

\* What a drain leaves alone.
LEMMA DrainFrame ==
  ASSUME Mover
  PROVE  UNCHANGED <<row, fill, gateway, filler, clientVars, ghost>>
BY DEF Mover, StartDrain, MoveFences, MoveMarks, MoveResumes, MoveRepoints, FanRepoint,
       MoveFlushes, MoveFlushesBlind, MoveExports, MoveImports, MoveConverges, MoveDeletes,
       FanUnshadow, MoveEnds, MoveStops, moveFrame, shardVars, handlerVars

\* Only the gateway's own steps move its call.
LEMMA OthersLeaveGateway ==
  ASSUME [Next]_vars, ~Gateway
  PROVE  gateway' = gateway
<1>1. CASE Client \/ Upkeep \/ Query \/ UNCHANGED vars
  BY <1>1
  DEF Client, Route, PreRead, Execute, ExecuteUnanswered, Prepare, AbortTx, CommitTx, CommitRow,
      Upkeep, Deliver, Resolve, Fails, Unanswered, Lose,
      Query, QueryLookup, QueryRing, QueryShadow, QueryAnswer, vars, handlerVars
<1>2. CASE Filler
  BY <1>2
  DEF Filler, FillScan, FillRefresh, FillWrite, FillPageEnds, FillEnds, MarkReady, FillFails,
      FillStops, fillFrame
<1>3. CASE Mover
  BY <1>3, DrainFrame
<1>4. QED
  BY <1>1, <1>2, <1>3 DEF Next

\* What registering the index on c does to the rules.
LEMMA RegisterEffect ==
  ASSUME StoredTypes, NEW c \in Catalogs, Register(c), ~Registered(c)
  PROVE  /\ Registered(c)' /\ rule'[c].ring = gateway.ring /\ rule'[c].shadow = {}
         /\ \A d \in Catalogs \ {c} : rule'[d] = rule[d] /\ (Registered(d)' <=> Registered(d))
         /\ ghost'.forked = (ghost.forked \/ Forks(c))
         /\ ghost'.left = ghost.left \cup Leftover
BY DEF StoredTypes, Rule, Register, Registered, NoRule, Ghost

\* What dropping the index on c does to them.
LEMMA UnregisterEffect ==
  ASSUME StoredTypes, NEW c \in Catalogs, Unregister(c)
  PROVE  /\ rule'[c] = NoRule /\ ~Registered(c)'
         /\ \A d \in Catalogs \ {c} : rule'[d] = rule[d] /\ (Registered(d)' <=> Registered(d))
         /\ ghost'.unseen = ghost.unseen \cup UnderWay
BY DEF StoredTypes, Rule, Unregister, Registered, NoRule, Ghost

\* The rules keep what RulesTrue says of them.
LEMMA RulesTrueStep ==
  ASSUME RingInv, [Next]_vars
  PROVE  RulesTrue'
<1> USE BoundsAreNat
<1>1. /\ StoredTypes /\ CallTypes /\ DrainTrue /\ RulesTrue
      /\ rule \in [Catalogs -> Rule] /\ gateway \in Call /\ active \in SUBSET Shards
      /\ leave \in [draining : BOOLEAN, op : 0 .. MaxOps,
                    substitute : (Shards \ {Leaving}) \cup {NoShard}]
  BY DEF RingInv, StoredTypes, CallTypes
<1>2. \/ SameRings
      \/ \E c \in Catalogs : Register(c) /\ ~Registered(c)
      \/ \E c \in Catalogs : Unregister(c)
      \/ \E c \in Catalogs : \E shadow : RingIsSet(c, shadow) /\ mover.pc \in {"fan", "unshadow"}
  <2>1. ASSUME NEW c \in Catalogs, FanRepoint(c) \/ FanUnshadow(c)
        PROVE  \E shadow : RingIsSet(c, shadow) /\ mover.pc \in {"fan", "unshadow"}
    <3>1. \E shadow : SetRing(c, shadow)
      BY <2>1 DEF FanRepoint, FanUnshadow
    <3>2. mover.pc \in {"fan", "unshadow"}
      BY <2>1 DEF FanRepoint, FanUnshadow
    <3>3. QED
      BY <1>1, <2>1, <3>1, <3>2, SetRingEffect
  <2>2. QED
    BY <1>1, <2>1, RingsMove
<1>3. \A c \in Catalogs : ~Registered(c)' => rule'[c] = NoRule
  <2>1. CASE SameRings
    BY <1>1, <2>1 DEF SameRings, RulesTrue
  <2>2. CASE \E c \in Catalogs : Register(c) /\ ~Registered(c)
    BY <1>1, <2>2, RegisterEffect DEF RulesTrue
  <2>3. CASE \E c \in Catalogs : Unregister(c)
    BY <1>1, <2>3, UnregisterEffect DEF RulesTrue
  <2>4. CASE \E c \in Catalogs : \E shadow : RingIsSet(c, shadow)
    BY <1>1, <2>4 DEF RulesTrue, RingIsSet
  <2>5. QED
    BY <1>2, <2>1, <2>2, <2>3, <2>4
<1>4. (~ \E c \in Catalogs : Unregister(c)) => \A c \in Catalogs : Registered(c) => Registered(c)'
  <2>1. ASSUME NEW d \in Catalogs, Register(d), ~Registered(d)
        PROVE  \A c \in Catalogs : Registered(c) => Registered(c)'
    BY <1>1, <2>1, RegisterEffect
  <2>2. CASE SameRings
    BY <2>2 DEF SameRings
  <2>3. CASE \E c \in Catalogs : \E shadow : RingIsSet(c, shadow)
    BY <2>3 DEF RingIsSet
  <2>4. QED
    BY <1>2, <2>1, <2>2, <2>3
<1>5. ~leave'.draining => ~leave.draining
  <2>1. CASE MoveMarks \/ MoveEnds \/ \E c \in Catalogs : FanUnshadow(c)
    BY <1>1, <2>1 DEF MoveMarks, MoveEnds, FanUnshadow
  <2>2. CASE StartDrain
    BY <2>2 DEF StartDrain
  <2>3. CASE UNCHANGED leave
    BY <2>3
  <2>4. CASE MoveFences \/ MoveResumes \/ MoveFlushes \/ MoveFlushesBlind
    BY <2>4, <2>3 DEF MoveFences, MoveResumes, MoveFlushes, MoveFlushesBlind, moveFrame
  <2>5. CASE MoveExports \/ MoveImports \/ MoveConverges \/ MoveDeletes \/ MoveStops
    BY <2>5, <2>3 DEF MoveExports, MoveImports, MoveConverges, MoveDeletes, MoveStops, moveFrame
  <2>6. CASE MoveRepoints \/ \E c \in Catalogs : FanRepoint(c)
    <3>1. UNCHANGED leave
      BY <2>6 DEF MoveRepoints, FanRepoint
    <3>2. QED
      BY <3>1
  <2>7. QED
    BY <2>1, <2>2, <2>3, <2>4, <2>5, <2>6, OthersLeaveDrain DEF Mover
<1>6. ASSUME ~leave.draining, gateway.kind = "create", gateway.pc \in {"list", "register"}
      PROVE  InRing(Leaving, gateway.ring)
  BY <1>1, <1>6 DEF RulesTrue
<1>7. /\ gateway'.kind = "create" /\ gateway'.pc \in {"register", "start"} =>
           \A c \in Catalogs : c \in gateway'.todo \/ Registered(c)'
      /\ gateway'.pc = "start" => gateway'.todo = {}
      /\ ~leave.draining /\ gateway'.kind = "create" /\ gateway'.pc \in {"list", "register"} =>
           InRing(Leaving, gateway'.ring)
  <2>1. CASE UNCHANGED gateway
    <3>1. ~ \E c \in Catalogs : Unregister(c) /\ gateway.kind = "create"
      BY DEF Unregister
    <3>2. QED
      BY <1>1, <1>4, <2>1, <3>1 DEF RulesTrue
  <2>2. CASE CreateBegins
    <3>1. gateway' = [NoCall EXCEPT !.kind = "create", !.pc = "list", !.op = NextOp,
                                    !.ring = ListShards(active)]
      BY <2>2 DEF CreateBegins
    <3>2. ~leave.draining => Leaving \in active
      BY <1>1 DEF DrainTrue
    <3>3. ~leave.draining => InRing(Leaving, ListShards(active))
      BY <1>1, <3>2, ListsTheSet, MembersIn
    <3>4. QED
      BY <3>1, <3>3 DEF NoCall
  <2>3. CASE CreateVerifies
    <3> DEFINE set == Members(gateway.ring) \cap active
    <3>1. gateway' = [gateway EXCEPT !.pc = "register", !.ring = ListShards(set), !.todo = Catalogs]
          /\ gateway.kind = "create" /\ gateway.pc = "list"
      BY <2>3 DEF CreateVerifies
    <3>2. ~leave.draining => Leaving \in set
      BY <1>1, <1>6, <3>1, MembersIn DEF DrainTrue
    <3>3. set \in SUBSET Shards
      BY <1>1
    <3>4. ~leave.draining => InRing(Leaving, ListShards(set))
      BY <3>2, <3>3, ListsTheSet, MembersIn
    <3>5. gateway'.pc = "register" /\ gateway'.ring = ListShards(set) /\ gateway'.todo = Catalogs
      BY <1>1, <3>1 DEF Call
    <3>6. QED
      BY <3>4, <3>5
  <2>4. ASSUME NEW c \in Catalogs, Register(c)
        PROVE  <1>7!1 /\ <1>7!2 /\ <1>7!3
    <3>1. /\ gateway.kind = "create" /\ gateway.pc = "register"
          /\ gateway' = [gateway EXCEPT !.todo = @ \ {c},
                                        !.pc = IF gateway.todo = {c} THEN "start" ELSE @]
      BY <2>4 DEF Register
    <3>2. gateway'.kind = gateway.kind /\ gateway'.todo = gateway.todo \ {c}
          /\ gateway'.ring = gateway.ring /\ (gateway'.pc = "start" <=> gateway.todo = {c})
      BY <1>1, <3>1 DEF Call
    <3>3. Registered(c)'
      <4>1. CASE Registered(c)
        BY <2>4, <4>1 DEF Register, Registered
      <4>2. QED
        BY <1>1, <2>4, <4>1, RegisterEffect
    <3>4. ~ \E d \in Catalogs : Unregister(d)
      BY <3>1 DEF Unregister
    <3>5. \A d \in Catalogs : d \in gateway.todo \/ Registered(d)
      BY <1>1, <3>1 DEF RulesTrue
    <3>6. QED
      BY <1>1, <1>4, <1>6, <3>1, <3>2, <3>3, <3>4, <3>5
  <2>5. CASE gateway'.kind = "drop" /\ gateway'.pc # "start"
    BY <2>5
  <2>6. CASE gateway' = NoCall
    BY <2>6 DEF NoCall
  <2>7. CASE DropBegins \/ \E c \in Catalogs : Unregister(c)
    BY <1>1, <2>5, <2>7 DEF DropBegins, Unregister, Call, NoCall
  <2>8. CASE \E s \in Shards : CleanShard(s)
    BY <1>1, <2>5, <2>6, <2>8 DEF CleanShard, Call
  <2>9. CASE StartBackfill \/ GatewayStops
    BY <2>6, <2>9 DEF StartBackfill, GatewayStops
  <2>10. CASE LeaseLapses \/ \E s \in Shards : AddShard(s)
    BY <2>1, <2>10 DEF LeaseLapses, AddShard, handlerVars
  <2>11. CASE ~Gateway
    BY <2>1, <2>11, OthersLeaveGateway
  <2>12. QED
    BY <2>2, <2>3, <2>4, <2>7, <2>8, <2>9, <2>10, <2>11 DEF Gateway
<1>8. ASSUME ~leave.draining, NEW c \in Catalogs, Registered(c)'
      PROVE  InRing(Leaving, rule'[c].ring)
  <2>1. \A d \in Catalogs : Registered(d) => InRing(Leaving, rule[d].ring)
    BY <1>1, <1>8 DEF RulesTrue
  <2>2. CASE SameRings
    BY <1>8, <2>1, <2>2 DEF SameRings
  <2>3. ASSUME NEW d \in Catalogs, Register(d), ~Registered(d)
        PROVE  InRing(Leaving, rule'[c].ring)
    <3>1. InRing(Leaving, gateway.ring)
      BY <1>6, <1>8, <2>3 DEF Register
    <3>2. QED
      BY <1>1, <1>8, <2>1, <2>3, <3>1, RegisterEffect
  <2>4. CASE \E d \in Catalogs : Unregister(d)
    BY <1>1, <1>8, <2>1, <2>4, UnregisterEffect
  <2>5. mover.pc \notin {"fan", "unshadow"}
    BY <1>1, <1>8 DEF DrainTrue
  <2>6. QED
    BY <1>2, <2>2, <2>3, <2>4, <2>5
<1>9. QED
  BY <1>3, <1>5, <1>7, <1>8 DEF RulesTrue

\* The steps that change a ring, by what they do to it.
LEMMA RingsMoveBy ==
  ASSUME StoredTypes, CallTypes, RulesTrue, [Next]_vars
  PROVE  \/ SameRings
         \/ \E c \in Catalogs : Register(c) /\ ~Registered(c)
         \/ \E c \in Catalogs : Unregister(c)
         \/ \E c \in Catalogs : FanRepoint(c) /\ RingIsSet(c, rule[c].shadow \cup {Leaving})
         \/ \E c \in Catalogs : FanUnshadow(c) /\ RingIsSet(c, {})
<1>1. ASSUME NEW c \in Catalogs, FanRepoint(c)
      PROVE  RingIsSet(c, rule[c].shadow \cup {Leaving})
  <2>1. SetRing(c, rule[c].shadow \cup {Leaving})
    BY <1>1 DEF FanRepoint
  <2>2. QED
    BY <2>1, SetRingEffect
<1>2. ASSUME NEW c \in Catalogs, FanUnshadow(c)
      PROVE  RingIsSet(c, {})
  <2>1. SetRing(c, rule[c].shadow \ {Leaving})
    BY <1>2 DEF FanUnshadow
  <2>2. rule[c].shadow \ {Leaving} = {}
    BY DEF StoredTypes, Rule
  <2>3. QED
    BY <2>1, <2>2, SetRingEffect
<1>3. QED
  BY <1>1, <1>2, RingsMove

\* How the drain comes to each of its phases.
LEMMA PhaseMoves ==
  ASSUME StoredTypes, CallTypes, DrainTrue, [Next]_vars, mover' # mover \/ leave' # leave
  PROVE  /\ Mover
         /\ Marked /\ ~Marked' => FanUnshadow(Owner)
         /\ mover'.pc = "unshadow" => MoveDeletes \/ \E c \in Catalogs \ {Owner} : FanUnshadow(c)
         /\ mover'.pc = "fan" =>
              \/ MoveRepoints /\ InRing(Leaving, rule[Owner].ring)
              \/ \E c \in Catalogs \ {Owner} : FanRepoint(c)
         /\ mover'.pc \in {"flush", "copy", "import", "delete"} =>
              \/ MoveRepoints /\ ~InRing(Leaving, rule[Owner].ring)
              \/ FanRepoint(Owner)
              \/ mover.pc \in {"flush", "copy", "import", "delete"} /\ UNCHANGED rule
         /\ leave'.draining /\ ~leave.draining => StartDrain
         /\ leave'.op # leave.op => StartDrain \/ MoveEnds
<1> USE BoundsAreNat
<1>1. mover \in Move /\ DrainTrue
      /\ leave \in [draining : BOOLEAN, op : 0 .. MaxOps,
                    substitute : (Shards \ {Leaving}) \cup {NoShard}]
  BY DEF StoredTypes, CallTypes
<1>2. Mover
  BY OthersLeaveDrain
<1> DEFINE Goal ==
         /\ Marked /\ ~Marked' => FanUnshadow(Owner)
         /\ mover'.pc = "unshadow" => MoveDeletes \/ \E c \in Catalogs \ {Owner} : FanUnshadow(c)
         /\ mover'.pc = "fan" =>
              \/ MoveRepoints /\ InRing(Leaving, rule[Owner].ring)
              \/ \E c \in Catalogs \ {Owner} : FanRepoint(c)
         /\ mover'.pc \in {"flush", "copy", "import", "delete"} =>
              \/ MoveRepoints /\ ~InRing(Leaving, rule[Owner].ring)
              \/ FanRepoint(Owner)
              \/ mover.pc \in {"flush", "copy", "import", "delete"} /\ UNCHANGED rule
         /\ leave'.draining /\ ~leave.draining => StartDrain
         /\ leave'.op # leave.op => StartDrain \/ MoveEnds
<1>3. CASE StartDrain
  <2>1. mover' = mover /\ ~leave.draining /\ leave'.substitute = leave.substitute
    BY <1>1, <1>3 DEF StartDrain, BeginDrain, handlerVars
  <2>2. mover.pc = "idle"
    BY <1>1, <2>1 DEF DrainTrue
  <2>3. QED
    BY <1>2, <1>3, <2>1, <2>2 DEF Marked
<1>4. CASE MoveFences \/ MoveMarks \/ MoveResumes
  <2>1. mover'.pc \in {"mark", "repoint"}
    BY <1>1, <1>4 DEF MoveFences, MoveMarks, MoveResumes, Move
  <2>2. leave'.draining = leave.draining /\ leave'.op = leave.op
    BY <1>1, <1>4 DEF MoveFences, MoveMarks, MoveResumes
  <2>3. CASE MoveMarks
    <3>1. ~Marked
      BY <1>1, <2>3 DEF MoveMarks, DrainTrue
    <3>2. QED
      BY <1>2, <2>1, <2>2, <3>1
  <2>4. CASE MoveFences \/ MoveResumes
    <3>1. leave' = leave
      BY <2>4 DEF MoveFences, MoveResumes
    <3>2. QED
      BY <1>2, <2>1, <3>1 DEF Marked
  <2>5. QED
    BY <1>4, <2>3, <2>4
<1>5. CASE MoveRepoints
  <2>1. leave' = leave
    BY <1>5 DEF MoveRepoints
  <2>2. mover'.pc = IF InRing(Leaving, rule[Owner].ring) THEN "fan" ELSE "flush"
    BY <1>1, <1>5 DEF MoveRepoints, Move
  <2>3. QED
    BY <1>2, <1>5, <2>1, <2>2 DEF Marked
<1>6. ASSUME NEW c \in Catalogs, FanRepoint(c)
      PROVE  Goal
  <2>1. leave' = leave
    BY <1>6 DEF FanRepoint
  <2>2. mover'.pc = IF c = Owner THEN "flush" ELSE "fan"
    BY <1>1, <1>6 DEF FanRepoint, Move
  <2>3. QED
    BY <1>6, <2>1, <2>2 DEF Marked
<1>7. CASE MoveFlushes \/ MoveFlushesBlind \/ MoveExports \/ MoveImports \/ MoveConverges
  <2>1. leave' = leave /\ UNCHANGED rule
    <3>1. CASE MoveFlushes \/ MoveFlushesBlind
      BY <3>1 DEF MoveFlushes, MoveFlushesBlind
    <3>2. CASE MoveExports \/ MoveImports \/ MoveConverges
      BY <3>2 DEF MoveExports, MoveImports, MoveConverges
    <3>3. QED
      BY <1>7, <3>1, <3>2
  <2>2. mover.pc \in {"flush", "copy", "import", "delete"}
    BY <1>7 DEF MoveFlushes, MoveFlushesBlind, MoveExports, MoveImports, MoveConverges
  <2>3. mover'.pc \in {"idle", "copy", "import", "delete"}
    <3>1. CASE MoveFlushes \/ MoveFlushesBlind
      BY <1>1, <3>1 DEF MoveFlushes, MoveFlushesBlind, Move, NoMove
    <3>2. CASE MoveExports
      BY <1>1, <3>2 DEF MoveExports, Move
    <3>3. CASE MoveImports \/ MoveConverges
      BY <1>1, <3>3 DEF MoveImports, MoveConverges, Move
    <3>4. QED
      BY <1>7, <3>1, <3>2, <3>3
  <2>4. QED
    BY <1>2, <2>1, <2>2, <2>3 DEF Marked
<1>8. CASE MoveDeletes
  <2>1. leave' = leave /\ mover'.pc = "unshadow"
    BY <1>1, <1>8 DEF MoveDeletes, Move
  <2>2. QED
    BY <1>2, <1>8, <2>1 DEF Marked
<1>9. ASSUME NEW c \in Catalogs, FanUnshadow(c)
      PROVE  Goal
  <2>1. CASE c = Owner
    <3>1. mover'.pc = "idle" /\ leave'.draining = leave.draining /\ leave'.op = leave.op
      BY <1>1, <1>9, <2>1 DEF FanUnshadow, NoMove
    <3>2. QED
      BY <1>9, <2>1, <3>1
  <2>2. CASE c # Owner
    <3>1. mover'.pc = "unshadow" /\ leave' = leave
      BY <1>1, <1>9, <2>2 DEF FanUnshadow, Move
    <3>2. QED
      BY <1>9, <2>2, <3>1 DEF Marked
  <2>3. QED
    BY <2>1, <2>2
<1>10. CASE MoveEnds
  <2>1. mover' = mover /\ leave'.draining = leave.draining /\ leave'.substitute = leave.substitute
        /\ mover.pc = "idle"
    BY <1>1, <1>10 DEF MoveEnds, MoveDue
  <2>2. QED
    BY <1>2, <1>10, <2>1 DEF Marked
<1>11. CASE MoveStops
  <2>1. leave' = leave /\ mover'.pc = "idle"
    BY <1>11 DEF MoveStops, NoMove
  <2>2. QED
    BY <1>2, <2>1 DEF Marked
<1>12. QED
  BY <1>2, <1>3, <1>4, <1>5, <1>6, <1>7, <1>8, <1>9, <1>10, <1>11 DEF Mover

\* A step of the gateway, the backfill or a client leaves the drain's marker.
LEMMA MarkStays ==
  ASSUME [Next]_vars, ~Mover
  PROVE  Marked' <=> Marked
BY OthersLeaveDrain DEF Marked

\* Register, Unregister and the drain's steps exclude each other.
LEMMA GatewayIsNotMover ==
  ASSUME StoredTypes, CallTypes, NEW c \in Catalogs,
         (Register(c) /\ ~Registered(c)) \/ Unregister(c)
  PROVE  UNCHANGED <<leave, mover, fenced, active, entries>>
BY DEF Register, Unregister, shardVars

\* The rings agree, and agree again.
LEMMA AgreeTrueStep ==
  ASSUME RingInv, [Next]_vars
  PROVE  AgreeTrue'
<1> USE BoundsAreNat
<1>1. /\ StoredTypes /\ CallTypes /\ DrainTrue /\ RulesTrue /\ AgreeTrue
      /\ mover \in Move /\ rule \in [Catalogs -> Rule] /\ ghost \in Ghost
      /\ leave \in [draining : BOOLEAN, op : 0 .. MaxOps,
                    substitute : (Shards \ {Leaving}) \cup {NoShard}]
  BY DEF RingInv, StoredTypes, CallTypes
<1> DEFINE Goal ==
             /\ ~Marked' => \A c, d \in Catalogs : Registered(c)' /\ Registered(d)' =>
                  rule'[c].ring = rule'[d].ring /\ rule'[c].shadow = {}
             /\ mover'.pc = "unshadow" => \A c \in Catalogs \ mover'.todo : Registered(c)' =>
                  rule'[c].ring = mover'.ring /\ rule'[c].shadow = {}
<1>2. SUFFICES ASSUME ~ghost'.forked
               PROVE  Goal
  BY DEF AgreeTrue
<1>3. ~ghost.forked
  BY <1>1, <1>2, GhostGrows
<1>4. ~Marked => \A c, d \in Catalogs : Registered(c) /\ Registered(d) =>
         rule[c].ring = rule[d].ring /\ rule[c].shadow = {}
  BY <1>1, <1>3 DEF AgreeTrue
<1>5. mover.pc = "unshadow" => \A c \in Catalogs \ mover.todo : Registered(c) =>
         rule[c].ring = mover.ring /\ rule[c].shadow = {}
  BY <1>1, <1>3 DEF AgreeTrue
<1>6. ASSUME NEW c \in Catalogs, FanUnshadow(c)
      PROVE  Goal
  <2>1. \A d \in Catalogs : Registered(d)' /\ (d = c \/ d \notin mover.todo) =>
           rule'[d].ring = mover.ring /\ rule'[d].shadow = {}
    <3>1. SetRing(c, rule[c].shadow \ {Leaving}) /\ mover.pc = "unshadow"
      BY <1>6 DEF FanUnshadow
    <3>2. rule[c].shadow \ {Leaving} = {}
      BY <1>1 DEF Rule
    <3>3. RingIsSet(c, {})
      BY <1>1, <3>1, <3>2, SetRingEffect
    <3>4. QED
      BY <1>5, <3>1, <3>3 DEF RingIsSet
  <2>2. CASE c = Owner
    <3>1. mover.todo = {Owner} /\ mover'.pc = "idle"
      BY <1>6, <2>2 DEF SetRing, FanUnshadow, NoMove
    <3>2. QED
      BY <2>1, <2>2, <3>1
  <2>3. CASE c # Owner
    <3>1. /\ Marked'
          /\ mover'.todo = mover.todo \ {c} /\ mover'.ring = mover.ring
      BY <1>1, <1>6, <2>3 DEF FanUnshadow, Move, DrainTrue, Marked
    <3>2. QED
      BY <2>1, <3>1
  <2>4. QED
    BY <2>2, <2>3
<1>7. ASSUME NEW c \in Catalogs, Register(c), ~Registered(c)
      PROVE  Goal
  <2>1. ~Forks(c)
    BY <1>1, <1>2, <1>7, RegisterEffect
  <2>2. mover.pc = "idle" /\ \A d \in Catalogs : Registered(d) => rule[d].ring = gateway.ring
    BY <1>7, <2>1 DEF Forks
  <2>3. /\ Registered(c)' /\ rule'[c].ring = gateway.ring /\ rule'[c].shadow = {}
        /\ \A d \in Catalogs \ {c} : rule'[d] = rule[d] /\ (Registered(d)' <=> Registered(d))
    BY <1>1, <1>7, RegisterEffect
  <2>4. mover'.pc = "idle" /\ (Marked' <=> Marked)
    BY <1>7, <2>2 DEF Register, Marked
  <2>5. QED
    BY <1>4, <2>2, <2>3, <2>4
<1>8. ASSUME NEW c \in Catalogs, Unregister(c)
      PROVE  Goal
  <2>1. /\ ~Registered(c)'
        /\ \A d \in Catalogs \ {c} : rule'[d] = rule[d] /\ (Registered(d)' <=> Registered(d))
    BY <1>1, <1>8, UnregisterEffect
  <2>2. mover' = mover /\ (Marked' <=> Marked)
    BY <1>8 DEF Unregister, Marked
  <2>3. QED
    BY <1>4, <1>5, <2>1, <2>2
<1>9. ASSUME NEW c \in Catalogs, FanRepoint(c)
      PROVE  Marked' /\ mover'.pc # "unshadow"
  BY <1>1, <1>9 DEF FanRepoint, DrainTrue, Marked, Move
<1>10. CASE SameRings
  <2>1. CASE UNCHANGED <<mover, leave>>
    <3>1. Marked' <=> Marked
      BY <2>1 DEF Marked
    <3>2. \A c \in Catalogs : /\ Registered(c)' <=> Registered(c)
                              /\ rule'[c].ring = rule[c].ring /\ rule'[c].shadow = rule[c].shadow
      BY <1>10 DEF SameRings
    <3>3. QED
      BY <1>4, <1>5, <2>1, <3>1, <3>2
  <2>2. CASE ~UNCHANGED <<mover, leave>>
    <3>1. CASE \E c \in Catalogs : FanUnshadow(c)
      BY <1>6, <3>1
    <3>2. CASE MoveDeletes
      <4>1. mover'.todo = Catalogs
        BY <1>1, <3>2 DEF MoveDeletes, Move
      <4>2. Marked'
        BY <1>1, <3>2 DEF MoveDeletes, DrainTrue, Marked
      <4>3. QED
        BY <4>1, <4>2
    <3>3. CASE ~MoveDeletes /\ ~ \E c \in Catalogs : FanUnshadow(c)
      <4>1. mover'.pc # "unshadow" /\ ~(Marked /\ ~Marked')
        BY <1>1, <2>2, <3>3, PhaseMoves
      <4>2. \A c \in Catalogs : /\ Registered(c)' <=> Registered(c)
                                /\ rule'[c].ring = rule[c].ring /\ rule'[c].shadow = rule[c].shadow
        BY <1>10 DEF SameRings
      <4>3. QED
        BY <1>4, <4>1, <4>2
    <3>4. QED
      BY <3>1, <3>2, <3>3
  <2>3. QED
    BY <2>1, <2>2
<1>11. QED
  BY <1>1, <1>6, <1>7, <1>8, <1>9, <1>10, RingsMoveBy

\* The shard stays out of the ring it has left.
LEMMA AwayTrueStep ==
  ASSUME RingInv, [Next]_vars
  PROVE  AwayTrue'
<1> USE BoundsAreNat
<1> DEFINE Copying == {"flush", "copy", "import", "delete", "unshadow"}
           OwnRing == rule[Owner].ring
<1>1. /\ StoredTypes /\ CallTypes /\ DrainTrue /\ RulesTrue
      /\ mover \in Move /\ rule \in [Catalogs -> Rule] /\ ghost \in Ghost
      /\ active \in SUBSET Shards
      /\ leave \in [draining : BOOLEAN, op : 0 .. MaxOps,
                    substitute : (Shards \ {Leaving}) \cup {NoShard}]
  BY DEF RingInv, StoredTypes, CallTypes
<1>2. SUFFICES ASSUME ~ghost'.forked
               PROVE  /\ mover'.pc \in Copying => ~InRing(Leaving, OwnRing')
                      /\ mover'.pc \in {"fan", "unshadow"} => ~InRing(Leaving, mover'.ring)
                      /\ leave'.draining /\ InRing(Leaving, OwnRing') => Candidates' # {}
                      /\ leave'.draining /\ leave'.op = NoOp => ~InRing(Leaving, OwnRing')
  BY DEF AwayTrue
<1>3. ~ghost.forked
  BY <1>1, <1>2, GhostGrows
<1>4. /\ mover.pc \in Copying => ~InRing(Leaving, OwnRing)
      /\ mover.pc \in {"fan", "unshadow"} => ~InRing(Leaving, mover.ring)
      /\ leave.draining /\ InRing(Leaving, OwnRing) => Candidates # {}
      /\ leave.draining /\ leave.op = NoOp => ~InRing(Leaving, OwnRing)
  BY <1>3 DEF RingInv, AwayTrue
\* The ring of the shard's catalog is as it was, or without the shard.
<1>5. \/ OwnRing' = OwnRing
      \/ ~InRing(Leaving, OwnRing')
      \/ ~leave.draining /\ mover.pc = "idle" /\ UNCHANGED <<leave, mover>>
  <2>1. CASE SameRings
    <3>1. \A c \in Catalogs : rule'[c].ring = rule[c].ring
      BY <2>1 DEF SameRings
    <3>2. QED
      BY <3>1
  <2>2. ASSUME NEW c \in Catalogs, Register(c), ~Registered(c), c = Owner
        PROVE  \/ ~InRing(Leaving, OwnRing')
               \/ ~leave.draining /\ mover.pc = "idle" /\ UNCHANGED <<leave, mover>>
    <3>1. ~Forks(c) /\ OwnRing' = gateway.ring
      BY <1>1, <1>2, <2>2, RegisterEffect
    <3>2. mover.pc = "idle" /\ Members(gateway.ring) \subseteq active
      BY <2>2, <3>1 DEF Forks
    <3>3. UNCHANGED <<leave, mover>>
      BY <2>2 DEF Register
    <3>4. CASE leave.draining
      <4>1. Leaving \notin Members(gateway.ring)
        BY <1>1, <3>2, <3>4 DEF DrainTrue
      <4>2. QED
        BY <3>1, <4>1, MembersIn
    <3>5. QED
      BY <3>2, <3>3, <3>4
  <2>3. ASSUME NEW c \in Catalogs, Unregister(c), c = Owner
        PROVE  ~InRing(Leaving, OwnRing')
    <3>1. OwnRing' = <<>>
      BY <1>1, <2>3, UnregisterEffect DEF NoRule
    <3>2. QED
      BY <3>1, MembersIn
  <2>4. ASSUME NEW c \in Catalogs, NEW shadow, RingIsSet(c, shadow), c = Owner,
               mover.pc \in {"fan", "unshadow"}
        PROVE  ~InRing(Leaving, OwnRing')
    <3>1. CASE Registered(Owner)
      BY <1>4, <2>4, <3>1 DEF RingIsSet
    <3>2. CASE ~Registered(Owner)
      <4>1. OwnRing' = <<>>
        BY <1>1, <2>4, <3>2 DEF RingIsSet, RulesTrue, NoRule
      <4>2. QED
        BY <4>1, MembersIn
    <3>3. QED
      BY <3>1, <3>2
  <2>5. ASSUME NEW c \in Catalogs, c # Owner,
               \/ (Register(c) /\ ~Registered(c)) \/ Unregister(c)
               \/ \E shadow : RingIsSet(c, shadow)
        PROVE  OwnRing' = OwnRing
    BY <1>1, <2>5, RegisterEffect, UnregisterEffect DEF RingIsSet
  <2>6. CASE \E c \in Catalogs : (Register(c) /\ ~Registered(c)) \/ Unregister(c)
    BY <2>2, <2>3, <2>5, <2>6
  <2>7. ASSUME NEW c \in Catalogs, NEW shadow, RingIsSet(c, shadow),
               FanRepoint(c) \/ FanUnshadow(c)
        PROVE  OwnRing' = OwnRing \/ ~InRing(Leaving, OwnRing')
    <3>1. mover.pc \in {"fan", "unshadow"}
      BY <2>7 DEF FanRepoint, FanUnshadow
    <3>2. QED
      BY <2>4, <2>5, <2>7, <3>1
  <2>8. QED
    <3>1. CASE \E c \in Catalogs : FanRepoint(c) /\ RingIsSet(c, rule[c].shadow \cup {Leaving})
      BY <2>7, <3>1
    <3>2. CASE \E c \in Catalogs : FanUnshadow(c) /\ RingIsSet(c, {})
      BY <2>7, <3>2
    <3>3. QED
      BY <1>1, <2>1, <2>6, <3>1, <3>2, RingsMoveBy
<1>6. CASE UNCHANGED <<mover, leave>>
  <2>1. mover.pc # "idle" => leave.draining
    BY <1>1 DEF DrainTrue
  <2>2. leave.draining => OwnRing' = OwnRing \/ ~InRing(Leaving, OwnRing')
    BY <1>5
  <2>3. leave.draining => Candidates \subseteq Candidates' \/ ~InRing(Leaving, OwnRing')
    <3>1. active \subseteq active'
      <4>1. CASE ~Mover
        BY <4>1, OthersLeaveDrain
      <4>2. CASE StartDrain
        BY <1>1, <1>6, <4>2 DEF StartDrain, BeginDrain
      <4>3. CASE Mover /\ ~StartDrain
        <5>1. UNCHANGED active
          BY <4>3
          DEF Mover, MoveFences, MoveMarks, MoveResumes, MoveRepoints, FanRepoint,
              MoveFlushes, MoveFlushesBlind, MoveExports, MoveImports, MoveConverges, MoveDeletes,
              FanUnshadow, MoveEnds, MoveStops, moveFrame
        <5>2. QED
          BY <5>1
      <4>4. QED
        BY <4>1, <4>2, <4>3
    <3>2. QED
      BY <2>2, <3>1 DEF Candidates
  <2>4. QED
    BY <1>4, <1>6, <2>1, <2>2, <2>3 DEF DrainTrue
<1>7. CASE ~UNCHANGED <<mover, leave>>
  <2>1. CASE StartDrain
    <3>1. /\ leave' = [leave EXCEPT !.draining = TRUE, !.op = NextOp]
          /\ active' = active \ {Leaving}
          /\ UNCHANGED <<rule, mover>> /\ ~leave.draining
          /\ InRing(Leaving, rule[Owner].ring) => Candidates # {}
      BY <2>1 DEF StartDrain, BeginDrain, handlerVars
    <3>2. Candidates' = Candidates
      BY <3>1 DEF Candidates
    <3>3. leave'.op # NoOp
      BY <1>1, <3>1 DEF NextOp, NoOp, StoredTypes
    <3>4. QED
      BY <1>4, <3>1, <3>2, <3>3
  <2>2. CASE MoveEnds
    <3>1. /\ leave' = [leave EXCEPT !.op = NoOp] /\ UNCHANGED <<active, mover, rule>>
          /\ leave.draining /\ (InRing(Leaving, rule[Owner].ring) => Candidates = {})
      BY <2>2 DEF MoveEnds, MoveDue, moveFrame
    <3>2. ~InRing(Leaving, OwnRing) /\ OwnRing' = OwnRing
      BY <1>4, <3>1
    <3>3. QED
      BY <1>4, <3>1, <3>2
  <2>3. CASE ~StartDrain /\ ~MoveEnds
    <3>1. Mover /\ leave'.op = leave.op /\ (leave'.draining => leave.draining)
      BY <1>1, <1>7, <2>3, PhaseMoves
    <3>2. OwnRing' = OwnRing \/ ~InRing(Leaving, OwnRing')
      BY <1>5, <1>7
    <3>3. UNCHANGED active
      BY <2>3, <3>1
      DEF Mover, MoveFences, MoveMarks, MoveResumes, MoveRepoints, FanRepoint,
          MoveFlushes, MoveFlushesBlind, MoveExports, MoveImports, MoveConverges, MoveDeletes,
          FanUnshadow, MoveEnds, MoveStops, moveFrame
    <3>4. /\ leave'.draining /\ InRing(Leaving, OwnRing') => Candidates' # {}
          /\ leave'.draining /\ leave'.op = NoOp => ~InRing(Leaving, OwnRing')
      BY <1>4, <3>1, <3>2, <3>3 DEF Candidates
    <3>5. mover'.pc \in Copying => ~InRing(Leaving, OwnRing')
      <4>1. CASE MoveRepoints /\ ~InRing(Leaving, rule[Owner].ring)
        BY <4>1 DEF MoveRepoints
      <4>2. CASE FanRepoint(Owner)
        <5>1. SetRing(Owner, rule[Owner].shadow \cup {Leaving}) /\ mover.pc = "fan"
          BY <4>2 DEF FanRepoint
        <5>2. RingIsSet(Owner, rule[Owner].shadow \cup {Leaving})
          BY <1>1, <5>1, SetRingEffect
        <5>3. CASE Registered(Owner)
          BY <1>4, <5>1, <5>2, <5>3 DEF RingIsSet
        <5>4. CASE ~Registered(Owner)
          <6>1. OwnRing' = <<>>
            BY <1>1, <5>2, <5>4 DEF RingIsSet, RulesTrue, NoRule
          <6>2. QED
            BY <6>1, MembersIn
        <5>5. QED
          BY <5>3, <5>4
      <4>3. CASE mover.pc \in {"flush", "copy", "import", "delete"} /\ UNCHANGED rule
        BY <1>4, <4>3
      <4>4. CASE MoveDeletes
        BY <1>4, <4>4 DEF MoveDeletes
      <4>5. CASE \E c \in Catalogs : FanUnshadow(c)
        <5>1. mover.pc = "unshadow"
          BY <4>5 DEF FanUnshadow
        <5>2. QED
          BY <1>4, <3>2, <5>1
      <4>6. QED
        BY <1>1, <1>7, <4>1, <4>2, <4>3, <4>4, <4>5, PhaseMoves
    <3>6. mover'.pc \in {"fan", "unshadow"} => ~InRing(Leaving, mover'.ring)
      <4>1. CASE MoveRepoints /\ InRing(Leaving, rule[Owner].ring)
        <5> DEFINE new == [i \in DOMAIN OwnRing |->
                             IF OwnRing[i] = Leaving THEN leave.substitute ELSE OwnRing[i]]
        <5>1. mover'.ring = new
          BY <1>1, <4>1 DEF MoveRepoints, Move
        <5>2. leave.substitute \in Shards \ {Leaving}
          BY <1>1, <4>1 DEF MoveRepoints, DrainTrue, Marked
        <5>3. OwnRing \in Seq(Shards)
          BY <1>1 DEF Rule
        <5> HIDE DEF OwnRing
        <5>4. ~InRing(Leaving, new)
          BY <5>2, <5>3, Repointed
        <5>5. QED
          BY <5>1, <5>4
      <4>2. CASE MoveDeletes
        BY <1>1, <1>4, <4>2 DEF MoveDeletes, Move
      <4>3. ASSUME NEW c \in Catalogs \ {Owner}, FanRepoint(c) \/ FanUnshadow(c)
            PROVE  ~InRing(Leaving, mover'.ring)
        <5>1. mover'.ring = mover.ring /\ mover.pc \in {"fan", "unshadow"}
          BY <1>1, <4>3 DEF FanRepoint, FanUnshadow, Move
        <5>2. QED
          BY <1>4, <5>1
      <4>4. QED
        BY <1>1, <1>7, <4>1, <4>2, <4>3, PhaseMoves
    <3>7. QED
      BY <3>4, <3>5, <3>6
  <2>4. QED
    BY <2>1, <2>2, <2>3
<1>8. QED
  BY <1>6, <1>7

\* A fence stays.
LEMMA FencesSpread ==
  ASSUME [Next]_vars
  PROVE  fenced \subseteq fenced'
<1>1. CASE ~Mover
  BY <1>1, OthersLeaveDrain
<1>2. CASE MoveFences
  BY <1>2 DEF MoveFences, FenceRing
<1>3. CASE Mover /\ ~MoveFences
  <2>1. CASE \E c \in Catalogs : FanRepoint(c) \/ FanUnshadow(c)
    BY <2>1 DEF FanRepoint, FanUnshadow
  <2>2. CASE StartDrain \/ MoveMarks \/ MoveResumes \/ MoveRepoints \/ MoveEnds \/ MoveStops
    BY <2>2
    DEF StartDrain, MoveMarks, MoveResumes, MoveRepoints, MoveEnds, MoveStops, shardVars
  <2>3. CASE \/ MoveFlushes \/ MoveFlushesBlind \/ MoveExports \/ MoveImports
             \/ MoveConverges \/ MoveDeletes
    BY <2>3
    DEF MoveFlushes, MoveFlushesBlind, MoveExports, MoveImports, MoveConverges, MoveDeletes
  <2>4. QED
    BY <1>3, <2>1, <2>2, <2>3 DEF Mover
<1>4. QED
  BY <1>1, <1>2, <1>3

\* Fences only spread, and an entry of the rules of the tenant's catalog is tied
\* to the ring for as long as its write is under way.
LEMMA TiedStays ==
  ASSUME RingInv, [Next]_vars, NEW r \in UnderWay, NEW to \in BOOLEAN, Tied(r, to)
  PROVE  Tied(r, to)'
<1> USE BoundsAreNat
<1>1. StoredTypes /\ CallTypes /\ DrainTrue /\ RulesTrue
  BY DEF RingInv
<1>2. r \in ghost.unseen => r \in ghost'.unseen
  BY <1>1, GhostGrows
<1>3. fenced \subseteq fenced'
  BY FencesSpread
<1>4. CASE r \in ghost.unseen
  BY <1>2, <1>4 DEF Tied
<1>5. CASE r \notin ghost.unseen
  <2>1. Registered(Home) /\ (to => InRing(Leaving, rule[Home].ring) \/ Leaving \in fenced)
    BY <1>5 DEF Tied
  <2>2. CASE SameRings
    <3>1. /\ Registered(Home)' <=> Registered(Home)
          /\ rule'[Home].ring = rule[Home].ring
      BY <2>2 DEF SameRings
    <3>2. QED
      BY <1>3, <2>1, <3>1 DEF Tied
  <2>3. ASSUME NEW c \in Catalogs, Register(c), ~Registered(c)
        PROVE  Tied(r, to)'
    <3>1. c # Home
      BY <2>1, <2>3
    <3>2. rule'[Home] = rule[Home] /\ (Registered(Home)' <=> Registered(Home))
      BY <1>1, <2>3, <3>1, RegisterEffect
    <3>3. QED
      BY <1>3, <2>1, <3>2 DEF Tied
  <2>4. ASSUME NEW c \in Catalogs, Unregister(c)
        PROVE  Tied(r, to)'
    BY <1>1, <2>4, UnregisterEffect DEF Tied
  <2>5. ASSUME NEW c \in Catalogs, NEW shadow, RingIsSet(c, shadow),
               FanRepoint(c) \/ FanUnshadow(c)
        PROVE  Tied(r, to)'
    <3>1. Leaving \in fenced
      BY <1>1, <2>5 DEF FanRepoint, FanUnshadow, DrainTrue
    <3>2. Registered(Home)' <=> Registered(Home)
      BY <2>5 DEF RingIsSet
    <3>3. QED
      BY <1>3, <2>1, <3>1, <3>2 DEF Tied
  <2>6. QED
    <3>1. CASE \E c \in Catalogs : FanRepoint(c) /\ RingIsSet(c, rule[c].shadow \cup {Leaving})
      BY <2>5, <3>1
    <3>2. CASE \E c \in Catalogs : FanUnshadow(c) /\ RingIsSet(c, {})
      BY <2>5, <3>2
    <3>3. QED
      BY <1>1, <2>2, <2>3, <2>4, <3>1, <3>2, RingsMoveBy
<1>6. QED
  BY <1>4, <1>5

\* Only the clients' own steps move their writes.
LEMMA OthersLeaveFlights ==
  ASSUME [Next]_vars, ~Client
  PROVE  flights' = flights
<1>1. CASE Upkeep \/ Query \/ UNCHANGED vars
  BY <1>1
  DEF Upkeep, Deliver, Resolve, Fails, Unanswered, Lose,
      Query, QueryLookup, QueryRing, QueryShadow, QueryAnswer, vars, clientVars
<1>2. CASE Gateway
  BY <1>2
  DEF Gateway, CreateBegins, CreateVerifies, Register, StartBackfill, DropBegins, Unregister,
      CleanShard, GatewayStops, LeaseLapses, AddShard, clientVars
<1>3. CASE Filler
  BY <1>3
  DEF Filler, FillScan, FillRefresh, FillWrite, FillPageEnds, FillEnds, MarkReady, FillFails,
      FillStops, fillFrame, clientVars
<1>4. CASE Mover
  BY <1>4, DrainFrame DEF clientVars
<1>5. QED
  BY <1>1, <1>2, <1>3, <1>4 DEF Next

\* Nor the index writes, but for the base shards' own.
LEMMA OthersLeaveUpkeep ==
  ASSUME [Next]_vars, ~Client, ~Upkeep
  PROVE  upkeep' = upkeep
<1>1. CASE Query \/ UNCHANGED vars
  BY <1>1
  DEF Query, QueryLookup, QueryRing, QueryShadow, QueryAnswer, vars, clientVars
<1>2. CASE Gateway
  BY <1>2
  DEF Gateway, CreateBegins, CreateVerifies, Register, StartBackfill, DropBegins, Unregister,
      CleanShard, GatewayStops, LeaseLapses, AddShard, clientVars
<1>3. CASE Filler
  BY <1>3
  DEF Filler, FillScan, FillRefresh, FillWrite, FillPageEnds, FillEnds, MarkReady, FillFails,
      FillStops, fillFrame, clientVars
<1>4. CASE Mover
  BY <1>4, DrainFrame DEF clientVars
<1>5. QED
  BY <1>1, <1>2, <1>3, <1>4 DEF Next

\* A write in progress keeps its row and its ring.
LEMMA FlightsMove ==
  ASSUME StoredTypes, CallTypes, [Next]_vars, NEW w \in Clients, flights'[w].pc \in Live
  PROVE  \/ /\ flights[w].pc \in Live
            /\ flights'[w].row = flights[w].row /\ flights'[w].ring = flights[w].ring
         \/ /\ flights'[w].ring = rule[Home].ring /\ flights'[w].row \in Rows
            /\ UNCHANGED <<rule, fenced>>
<1>1. flights \in [Clients -> Flight] /\ flights[w] \in Flight
  BY DEF CallTypes
<1>2. CASE flights'[w] = flights[w]
  BY <1>2
<1>3. ASSUME NEW v \in Clients, Route(v)
      PROVE  \/ flights'[w] = flights[w]
             \/ /\ flights'[w].ring = rule[Home].ring /\ flights'[w].row \in Rows
                /\ UNCHANGED <<rule, fenced>>
  <2>1. PICK op \in Ops, r \in Rows, k \in Keys : flights' = [flights EXCEPT ![v] =
                [pc |-> "routed", op |-> op, row |-> r, key |-> k,
                 ring |-> rule[Home].ring, before |-> Gone]]
    BY <1>3 DEF Route
  <2>2. UNCHANGED <<rule, fenced>>
    BY <1>3 DEF Route, shardVars, catalogVars
  <2>3. QED
    BY <1>1, <2>1, <2>2
<1>4. ASSUME NEW v \in Clients, flights' = Done(v)
      PROVE  flights'[w] = flights[w]
  <2>1. Done(v) = [flights EXCEPT ![v] = [NoFlight EXCEPT !.pc = "done"]]
    BY DEF Done
  <2>2. v # w
    BY <1>1, <1>4, <2>1 DEF NoFlight, Live
  <2>3. QED
    BY <1>1, <1>4, <2>1, <2>2
<1>5. ASSUME NEW v \in Clients, flights[v].pc \in Live,
             \/ \E pc : flights' = [flights EXCEPT ![v].pc = pc]
             \/ \E pc, before : flights' = [flights EXCEPT ![v].pc = pc, ![v].before = before]
      PROVE  \/ flights'[w] = flights[w]
             \/ /\ flights[w].pc \in Live
                /\ flights'[w].row = flights[w].row /\ flights'[w].ring = flights[w].ring
  <2>1. CASE v # w
    BY <1>1, <1>5, <2>1
  <2>2. CASE v = w
    <3>1. ASSUME NEW pc, flights' = [flights EXCEPT ![v].pc = pc]
          PROVE  flights'[w].row = flights[w].row /\ flights'[w].ring = flights[w].ring
      <4>1. flights'[w] = [flights[w] EXCEPT !.pc = pc]
        BY <1>1, <2>2, <3>1
      <4>2. QED
        BY <1>1, <4>1 DEF Flight
    <3>2. ASSUME NEW pc, NEW before, flights' = [flights EXCEPT ![v].pc = pc, ![v].before = before]
          PROVE  flights'[w].row = flights[w].row /\ flights'[w].ring = flights[w].ring
      <4>1. flights'[w] = [[flights[w] EXCEPT !.pc = pc] EXCEPT !.before = before]
        BY <1>1, <2>2, <3>2
      <4>2. QED
        BY <1>1, <4>1 DEF Flight
    <3>3. CASE \E pc : flights' = [flights EXCEPT ![v].pc = pc]
      BY <1>5, <2>2, <3>1, <3>3
    <3>4. CASE \E pc, before : flights' = [flights EXCEPT ![v].pc = pc, ![v].before = before]
      BY <1>5, <2>2, <3>2, <3>4
    <3>5. QED
      BY <1>5, <3>3, <3>4
  <2>3. QED
    BY <2>1, <2>2
<1>6. ASSUME NEW v \in Clients,
             \/ PreRead(v) \/ Execute(v) \/ ExecuteUnanswered(v) \/ Prepare(v) \/ AbortTx(v)
             \/ CommitTx(v) \/ CommitRow(v)
      PROVE  \/ flights' = Done(v)
             \/ /\ flights[v].pc \in Live
                /\ \/ \E pc : flights' = [flights EXCEPT ![v].pc = pc]
                   \/ \E pc, before : flights' = [flights EXCEPT ![v].pc = pc, ![v].before = before]
  <2>1. Ready(v) => flights[v].pc \in Live
    BY DEF Ready, Live
  <2>2. CASE PreRead(v)
    BY <2>2 DEF PreRead, Live
  <2>3. CASE Execute(v) \/ ExecuteUnanswered(v) \/ AbortTx(v) \/ CommitRow(v)
    BY <2>3 DEF Execute, ExecuteUnanswered, AbortTx, CommitRow
  <2>4. CASE Prepare(v)
    BY <2>1, <2>4 DEF Prepare
  <2>5. CASE CommitTx(v)
    BY <2>5 DEF CommitTx, Live
  <2>6. QED
    BY <1>6, <2>2, <2>3, <2>4, <2>5
<1>7. CASE Client
  BY <1>2, <1>3, <1>4, <1>5, <1>6, <1>7 DEF Client
<1>8. QED
  BY <1>2, <1>7, OthersLeaveFlights

\* The writes under way are tied to the ring they were routed by.
LEMMA WritesTiedStep ==
  ASSUME RingInv, [Next]_vars, StoredTypes', CallTypes'
  PROVE  WritesTied'
<1> USE BoundsAreNat
<1>1. /\ StoredTypes /\ CallTypes /\ DrainTrue /\ RulesTrue /\ WritesTied
      /\ flights \in [Clients -> Flight] /\ upkeep \in SUBSET Write /\ fenced \in SUBSET {Leaving}
  BY DEF RingInv, StoredTypes, CallTypes
<1>2. \A r \in UnderWay : \A to \in BOOLEAN : Tied(r, to) => Tied(r, to)'
  BY TiedStays
<1>3. \A w \in Clients : flights[w].pc \in Live => flights[w].row \in UnderWay
  BY DEF UnderWay, Live
<1>4. \A u \in upkeep : u.row \in UnderWay
  BY DEF UnderWay
<1>5. ASSUME NEW w \in Clients, flights'[w].pc \in Live, flights'[w].ring # <<>>
      PROVE  Tied(flights[w].row, InRing(Leaving, flights[w].ring))'
  <2>1. CASE /\ flights[w].pc \in Live
             /\ flights'[w].row = flights[w].row /\ flights'[w].ring = flights[w].ring
    <3>1. Tied(flights[w].row, InRing(Leaving, flights[w].ring))
      BY <1>1, <1>5, <2>1 DEF WritesTied
    <3> DEFINE to == InRing(Leaving, flights[w].ring)
    <3>2. to \in BOOLEAN
      BY DEF InRing
    <3>3. to' = to
      BY <2>1 DEF InRing
    <3> HIDE DEF to
    <3>4. QED
      BY <1>2, <1>3, <2>1, <3>1, <3>2, <3>3 DEF to, Tied
  <2>2. CASE /\ flights'[w].ring = rule[Home].ring /\ flights'[w].row \in Rows
             /\ UNCHANGED <<rule, fenced>>
    <3>1. Registered(Home)
      BY <1>1, <1>5, <2>2 DEF RulesTrue, NoRule
    <3>2. QED
      BY <2>2, <3>1 DEF Tied, Registered, InRing
  <2>3. QED
    BY <1>1, <1>5, <2>1, <2>2, FlightsMove
\* An index write comes of one that is tied to the ring at least as well.
<1>6. ASSUME NEW u \in upkeep'
      PROVE  \E r \in UnderWay, to \in BOOLEAN :
               Tied(r, to) /\ u.row = r /\ (u.to = Leaving \/ u.at = Leaving => to)
  <2>1. CASE u \in upkeep
    <3>1. Tied(u.row, u.to = Leaving \/ u.at = Leaving)
      BY <1>1, <2>1 DEF WritesTied
    <3>2. QED
      BY <1>4, <2>1, <3>1
  <2>2. ASSUME NEW w \in Clients, flights[w].pc \in Live, u \in Deltas(w)
        PROVE  \E r \in UnderWay, to \in BOOLEAN :
                 Tied(r, to) /\ u.row = r /\ (u.to = Leaving \/ u.at = Leaving => to)
    <3>1. /\ u.row = flights[w].row /\ u.at = u.to
          /\ flights[w].ring # <<>> /\ InRing(u.to, flights[w].ring)
      BY <1>1, <2>2, DeltasAreWrites
    <3>2. Tied(flights[w].row, InRing(Leaving, flights[w].ring))
      BY <1>1, <2>2, <3>1 DEF WritesTied
    <3>3. InRing(Leaving, flights[w].ring) \in BOOLEAN
      BY DEF InRing
    <3>4. QED
      BY <1>3, <2>2, <3>1, <3>2, <3>3
  <2>3. CASE Client
    <3>1. PICK w \in Clients : \/ Route(w) \/ PreRead(w) \/ Execute(w) \/ ExecuteUnanswered(w)
                               \/ Prepare(w) \/ AbortTx(w) \/ CommitTx(w) \/ CommitRow(w)
      BY <2>3 DEF Client
    <3>2. Ready(w) => flights[w].pc \in Live
      BY DEF Ready, Live
    <3>3. CASE Execute(w)
      BY <2>1, <2>2, <3>2, <3>3 DEF Execute
    <3>4. CASE CommitTx(w)
      <4>1. flights[w].pc \in Live /\ upkeep' = upkeep \cup Intents(w)
        BY <3>4 DEF CommitTx, Live
      <4>2. Intents(w) \subseteq Deltas(w)
        BY DEF Intents
      <4>3. QED
        BY <2>1, <2>2, <4>1, <4>2
    <3>5. CASE \/ Route(w) \/ PreRead(w) \/ ExecuteUnanswered(w) \/ Prepare(w) \/ AbortTx(w)
               \/ CommitRow(w)
      <4>1. upkeep' = upkeep
        BY <3>5 DEF Route, PreRead, ExecuteUnanswered, Prepare, AbortTx, CommitRow
      <4>2. QED
        BY <2>1, <4>1
    <3>6. QED
      BY <3>1, <3>3, <3>4, <3>5
  <2>4. CASE Upkeep
    <3>1. PICK v \in upkeep : Deliver(v) \/ Resolve(v) \/ Fails(v) \/ Unanswered(v) \/ Lose(v)
      BY <2>4 DEF Upkeep
    <3>2. v \in Write /\ Tied(v.row, v.to = Leaving \/ v.at = Leaving) /\ v.row \in UnderWay
      BY <1>1, <1>4 DEF WritesTied
    <3> DEFINE Like(x) == x.row = v.row /\ (x.to = Leaving \/ x.at = Leaving
                                           => v.to = Leaving \/ v.at = Leaving)
    <3>3. upkeep' \subseteq upkeep \/ \E x : upkeep' = (upkeep \ {v}) \cup {x} /\ Like(x)
      <4>1. CASE Deliver(v) \/ Lose(v)
        BY <4>1 DEF Deliver, Lose
      <4>2. CASE Fails(v)
        <5> DEFINE x == [v EXCEPT !.stage = "queued", !.at = v.to]
        <5>1. upkeep' = (upkeep \ {v}) \cup {x}
          BY <4>2 DEF Fails, Replace
        <5>2. x.row = v.row /\ x.to = v.to /\ x.at = v.to
          BY <3>2 DEF Write
        <5>3. QED
          BY <5>1, <5>2
      <4>3. CASE Unanswered(v)
        <5> DEFINE x == [v EXCEPT !.stage = "queued", !.at = v.to, !.ran = @ \cup {v.at}]
        <5>1. upkeep' = (upkeep \ {v}) \cup {x}
          BY <4>3 DEF Unanswered, Replace
        <5>2. x.row = v.row /\ x.to = v.to /\ x.at = v.to
          BY <3>2 DEF Write
        <5>3. QED
          BY <5>1, <5>2
      <4>4. CASE Resolve(v)
        <5>1. v.at = Leaving
          BY <1>1, <4>4 DEF Resolve, Accepts
        <5>2. PICK x : /\ upkeep' = (upkeep \ {v}) \cup {x}
                       /\ x \in {[v EXCEPT !.at = Place(v.key, RingNow)],
                                  [v EXCEPT !.stage = "queued"]}
          BY <4>4 DEF Resolve, Replace
        <5>3. x.row = v.row
          BY <3>2, <5>2 DEF Write
        <5>4. QED
          BY <5>1, <5>2, <5>3
      <4>5. QED
        BY <3>1, <4>1, <4>2, <4>3, <4>4
    <3>4. CASE u \in upkeep
      BY <2>1, <3>4
    <3>5. CASE u \notin upkeep
      <4>1. Like(u)
        BY <3>3, <3>5
      <4>2. QED
        BY <3>2, <4>1
    <3>6. QED
      BY <3>4, <3>5
  <2>5. CASE ~Client /\ ~Upkeep
    BY <2>1, <2>5, OthersLeaveUpkeep
  <2>6. QED
    BY <2>3, <2>4, <2>5
<1>7. ASSUME NEW u \in upkeep'
      PROVE  Tied(u.row, u.to = Leaving \/ u.at = Leaving)'
  <2>1. PICK r \in UnderWay, to \in BOOLEAN :
               Tied(r, to) /\ u.row = r /\ (u.to = Leaving \/ u.at = Leaving => to)
    BY <1>6
  <2>2. Tied(r, to)'
    BY <1>2, <2>1
  <2>3. QED
    BY <2>1, <2>2 DEF Tied
<1>8. QED
  BY <1>5, <1>7 DEF WritesTied

\* Only the backfill's own steps move its tick.
LEMMA OthersLeaveFiller ==
  ASSUME [Next]_vars, ~Filler
  PROVE  filler' = filler
<1>1. CASE Client \/ Upkeep \/ Query \/ UNCHANGED vars
  BY <1>1
  DEF Client, Route, PreRead, Execute, ExecuteUnanswered, Prepare, AbortTx, CommitTx, CommitRow,
      Upkeep, Deliver, Resolve, Fails, Unanswered, Lose,
      Query, QueryLookup, QueryRing, QueryShadow, QueryAnswer, vars, handlerVars
<1>2. CASE Gateway
  BY <1>2
  DEF Gateway, CreateBegins, CreateVerifies, Register, StartBackfill, DropBegins, Unregister,
      CleanShard, GatewayStops, LeaseLapses, AddShard, handlerVars
<1>3. CASE Mover
  BY <1>3, DrainFrame
<1>4. QED
  BY <1>1, <1>2, <1>3 DEF Next

\* A tick of the backfill writes to the shard only while the ring names it.
LEMMA FillTiedStep ==
  ASSUME RingInv, [Next]_vars
  PROVE  FillTied'
<1> USE BoundsAreNat
<1> DEFINE Aims == /\ filler.pc \in {"refresh", "write"}
                   /\ InRing(Leaving, filler.ring) \/ filler.to = Leaving
           Named == \A c \in Catalogs : Registered(c) => InRing(Leaving, rule[c].ring)
<1>1. /\ StoredTypes /\ CallTypes /\ DrainTrue /\ RulesTrue /\ AgreeTrue
      /\ filler \in Tick /\ row \in [Rows -> Values] /\ rule \in [Catalogs -> Rule]
      /\ fenced \in SUBSET {Leaving}
  BY DEF RingInv, StoredTypes, CallTypes
<1>2. SUFFICES ASSUME ~ghost'.forked, Aims', Leaving \notin fenced'
               PROVE  Named'
  BY DEF FillTied
<1>3. ~ghost.forked
  BY <1>1, <1>2, GhostGrows
<1>4. Aims => Leaving \in fenced \/ Named
  BY <1>3 DEF RingInv, FillTied
<1>5. CASE Filler
  <2>1. Leaving \notin fenced
    BY <1>2, FencesSpread
  <2>2. CASE FillScan
    <3>1. UNCHANGED rule /\ Registered(Zero)
      BY <2>2 DEF FillScan, FillDue, Registered
    <3>2. (filler'.ring = rule[Zero].ring /\ filler'.to = NoShard) \/ filler' = filler
      BY <2>2 DEF FillScan, NoTick
    <3>3. filler.pc = "idle"
      BY <2>2 DEF FillScan, FillDue
    <3>4. InRing(Leaving, rule[Zero].ring)
      BY <1>2, <3>2, <3>3
    <3>5. ~Marked
      BY <1>1, <2>1 DEF DrainTrue
    <3>6. \A c \in Catalogs : Registered(c) => rule[c].ring = rule[Zero].ring
      BY <1>1, <1>3, <3>1, <3>5 DEF AgreeTrue
    <3>7. Named
      BY <3>4, <3>6
    <3>8. QED
      BY <3>1, <3>7 DEF Registered
  <2>3. CASE FillRefresh
    <3>1. UNCHANGED rule /\ filler.pc = "refresh" /\ filler.page # {}
      BY <2>3 DEF FillRefresh
    <3>2. filler.page \in SUBSET Rows
      BY <1>1 DEF Tick
    <3> DEFINE r == Smallest(filler.page)
    <3>3. r \in Rows
      BY <3>1, <3>2, PageHasEnds
    <3>4. \/ filler' = [filler EXCEPT !.page = filler.page \ {r}]
          \/ row[r] # Gone /\ filler' = [filler EXCEPT !.pc = "write", !.key = row[r],
                                                       !.to = Place(row[r], filler.ring)]
      BY <2>3 DEF FillRefresh
    <3> HIDE DEF r
    <3>5. filler.ring \in Seq(Shards)
      BY <1>1 DEF Tick
    <3>6. row[r] # Gone => row[r] \in Keys
      BY <1>1, <3>3 DEF Values
    <3>7. row[r] # Gone /\ Place(row[r], filler.ring) = Leaving => InRing(Leaving, filler.ring)
      <4>1. CASE filler.ring = <<>>
        BY <4>1 DEF Place
      <4>2. CASE filler.ring # <<>>
        BY <3>5, <3>6, <4>2, PlaceInRing
      <4>3. QED
        BY <4>1, <4>2
    <3>8. filler'.ring = filler.ring
          /\ \/ filler'.to = filler.to
             \/ row[r] # Gone /\ filler'.to = Place(row[r], filler.ring)
      BY <1>1, <3>4 DEF Tick
    <3>9. Aims
      BY <1>2, <3>1, <3>7, <3>8
    <3>10. QED
      BY <1>4, <2>1, <3>1, <3>9 DEF Registered
  <2>4. CASE FillWrite
    <3>1. UNCHANGED rule /\ filler.pc = "write"
      BY <2>4 DEF FillWrite
    <3>2. CASE filler.to \notin fenced
      <4>1. filler'.ring = filler.ring /\ filler'.to = filler.to
        BY <1>1, <2>4, <3>2 DEF FillWrite, Tick
      <4>2. QED
        BY <1>2, <1>4, <2>1, <3>1, <4>1 DEF Registered
    <3>3. CASE filler.to \in fenced
      BY <1>1, <2>1, <3>3
    <3>4. QED
      BY <3>2, <3>3
  <2>5. CASE FillPageEnds \/ FillFails \/ FillStops
    BY <1>2, <2>5 DEF FillPageEnds, FillFails, FillStops, NoTick
  <2>6. CASE FillEnds \/ \E c \in Catalogs : MarkReady(c)
    <3>1. CASE FillEnds
      BY <1>2, <3>1 DEF FillEnds, NoTick
    <3>2. ASSUME NEW c \in Catalogs, MarkReady(c)
          PROVE  FALSE
      <4>1. filler.pc = "ready"
        BY <3>2 DEF MarkReady
      <4>2. filler' = NoTick \/ filler' = [filler EXCEPT !.todo = filler.todo \ {c}]
        BY <3>2 DEF MarkReady
      <4>3. filler'.pc \in {"idle", "ready"}
        BY <1>1, <4>1, <4>2 DEF NoTick, Tick
      <4>4. QED
        BY <1>2, <4>3
    <3>3. QED
      BY <2>6, <3>1, <3>2
  <2>7. QED
    BY <1>5, <2>2, <2>3, <2>4, <2>5, <2>6 DEF Filler
<1>6. CASE ~Filler
  <2>1. filler' = filler /\ Aims /\ Leaving \notin fenced
    BY <1>2, <1>6, OthersLeaveFiller, FencesSpread
  <2>2. Named
    BY <1>4, <2>1
  <2>3. CASE SameRings
    <3>1. \A c \in Catalogs : /\ Registered(c)' <=> Registered(c)
                              /\ rule'[c].ring = rule[c].ring
      BY <2>3 DEF SameRings
    <3>2. QED
      BY <2>2, <3>1
  <2>4. ASSUME NEW c \in Catalogs, Register(c), ~Registered(c)
        PROVE  FALSE
    <3>1. filler.pc = "idle"
      BY <1>1, <1>2, <2>4, RegisterEffect DEF Forks
    <3>2. QED
      BY <2>1, <3>1
  <2>5. ASSUME NEW c \in Catalogs, Unregister(c)
        PROVE  Named'
    BY <1>1, <2>2, <2>5, UnregisterEffect
  <2>6. ASSUME NEW c \in Catalogs, FanRepoint(c) \/ FanUnshadow(c)
        PROVE  FALSE
    BY <1>1, <2>1, <2>6 DEF FanRepoint, FanUnshadow, DrainTrue
  <2>7. QED
    BY <1>1, <2>3, <2>4, <2>5, <2>6, RingsMove
<1>7. QED
  BY <1>5, <1>6

\* Entries come to the shard by an index write or by the backfill.
LEMMA SourceGrows ==
  ASSUME RingInv, [Next]_vars, NEW e \in entries'[Leaving], e \notin entries[Leaving]
  PROVE  /\ UNCHANGED <<rule, leave, mover, fenced>>
         /\ \/ \E u \in upkeep : /\ u.at = Leaving /\ e[1] = u.row
                                 /\ Leaving \in fenced => u.row \in ghost'.late
            \/ /\ filler.pc = "write" /\ filler.to = Leaving /\ Leaving \notin fenced
<1> USE BoundsAreNat
<1>1. /\ StoredTypes /\ CallTypes /\ DrainTrue
      /\ entries \in [Shards -> SUBSET Entry] /\ ghost \in Ghost
      /\ upkeep \in SUBSET Write /\ mover \in Move
      /\ leave \in [draining : BOOLEAN, op : 0 .. MaxOps,
                    substitute : (Shards \ {Leaving}) \cup {NoShard}]
  BY DEF RingInv, StoredTypes, CallTypes
<1>2. entries' # entries
  OBVIOUS
<1>3. CASE Upkeep
  <2>1. PICK u \in upkeep : Deliver(u) \/ Resolve(u) \/ Fails(u) \/ Unanswered(u) \/ Lose(u)
    BY <1>3 DEF Upkeep
  <2>2. UNCHANGED <<rule, leave, mover, fenced>>
    BY <2>1 DEF Deliver, Resolve, Fails, Unanswered, Lose, shardVars, catalogVars, handlerVars
  <2>3. Deliver(u) \/ Unanswered(u)
    BY <1>2, <2>1 DEF Resolve, Fails, Lose, shardVars
  <2>4. Apply(u) /\ Accepts(u)
    BY <2>3 DEF Deliver, Unanswered
  <2>5. u \in Write
    BY <1>1
  <2>6. u.at \notin u.ran /\ u.at = Leaving
    BY <1>1, <1>2, <2>4, <2>5 DEF Apply, Write
  <2>7. e = <<u.row, u.key>>
    BY <1>1, <2>4, <2>6 DEF Apply
  <2>8. Leaving \in fenced => u.stage = "intent"
    BY <2>4, <2>6 DEF Accepts
  <2>9. Leaving \in fenced => u.row \in ghost'.late
    BY <1>1, <2>3, <2>6, <2>8 DEF Deliver, Unanswered, Ghost
  <2>10. QED
    BY <2>2, <2>6, <2>7, <2>9
<1>4. CASE Filler
  <2>1. FillWrite
    BY <1>2, <1>4
    DEF Filler, FillScan, FillRefresh, FillPageEnds, FillEnds, MarkReady, FillFails, FillStops
  <2>2. UNCHANGED <<rule, leave, mover, fenced>> /\ filler.pc = "write"
    BY <2>1 DEF FillWrite, fillFrame
  <2>3. filler.to \notin fenced
    BY <1>2, <2>1 DEF FillWrite
  <2>4. entries' = [s \in Shards |-> entries[s] \cup
                      (IF s = filler.to THEN {<<Smallest(filler.page), filler.key>>} ELSE {})]
    BY <2>1, <2>3 DEF FillWrite
  <2>5. filler.to = Leaving
    BY <2>4
  <2>6. QED
    BY <2>2, <2>3, <2>5
<1>5. CASE Mover
  <2>1. entries'[Leaving] \subseteq entries[Leaving]
    <3>1. CASE MoveImports
      <4>1. leave.substitute # Leaving
        BY <1>1
      <4>2. entries' = [entries EXCEPT ![leave.substitute] = @ \cup {mover.entry}]
        BY <3>1 DEF MoveImports
      <4>3. QED
        BY <1>1, <4>1, <4>2
    <3>2. CASE MoveDeletes
      BY <1>1, <3>2 DEF MoveDeletes
    <3>3. CASE \E c \in Catalogs : FanRepoint(c) \/ FanUnshadow(c)
      BY <1>2, <3>3 DEF FanRepoint, FanUnshadow
    <3>4. CASE StartDrain \/ MoveFences \/ MoveMarks \/ MoveResumes \/ MoveEnds \/ MoveStops
      BY <1>2, <3>4
      DEF StartDrain, MoveFences, MoveMarks, MoveResumes, MoveEnds, MoveStops, shardVars
    <3>5. CASE MoveRepoints \/ MoveFlushes \/ MoveFlushesBlind \/ MoveExports \/ MoveConverges
      BY <1>2, <3>5
      DEF MoveRepoints, MoveFlushes, MoveFlushesBlind, MoveExports, MoveConverges
    <3>6. QED
      BY <1>5, <3>1, <3>2, <3>3, <3>4, <3>5 DEF Mover
  <2>2. QED
    BY <2>1
<1>6. CASE Gateway
  <2>1. \E s \in Shards : CleanShard(s)
    BY <1>2, <1>6
    DEF Gateway, CreateBegins, CreateVerifies, Register, StartBackfill, DropBegins, Unregister,
        GatewayStops, LeaseLapses, AddShard, shardVars
  <2>2. entries'[Leaving] \subseteq entries[Leaving]
    BY <1>1, <2>1 DEF CleanShard
  <2>3. QED
    BY <2>2
<1>7. CASE Client \/ Query \/ UNCHANGED vars
  BY <1>2, <1>7
  DEF Client, Route, PreRead, Execute, ExecuteUnanswered, Prepare, AbortTx, CommitTx, CommitRow,
      Query, QueryLookup, QueryRing, QueryShadow, QueryAnswer, vars, shardVars
<1>8. QED
  BY <1>3, <1>4, <1>5, <1>6, <1>7 DEF Next

\* What is on the shard, out of the ring, is let off.
LEMMA SourceTrueStep ==
  ASSUME RingInv, [Next]_vars
  PROVE  SourceTrue'
<1> USE BoundsAreNat
<1> DEFINE Out(c) == Registered(c) /\ ~InRing(Leaving, rule[c].ring)
<1>1. /\ StoredTypes /\ CallTypes /\ DrainTrue /\ RulesTrue /\ AgreeTrue /\ WritesTied /\ SourceTrue
      /\ entries \in [Shards -> SUBSET Entry] /\ ghost \in Ghost /\ mover \in Move
      /\ rule \in [Catalogs -> Rule]
  BY DEF RingInv, StoredTypes, CallTypes
<1>2. \A x : Spare(x) => Spare(x)'
  <2>1. /\ ghost.unseen \subseteq ghost'.unseen /\ ghost.late \subseteq ghost'.late
        /\ ghost.left \subseteq ghost'.left
    BY <1>1, GhostGrows
  <2>2. QED
    BY <2>1 DEF Spare
<1>3. ASSUME mover'.pc = "unshadow"
      PROVE  \A e \in entries'[Leaving] : e[1] \in ghost'.late
  <2>1. CASE mover.pc = "unshadow"
    <3>1. \A e \in entries[Leaving] : e[1] \in ghost'.late
      BY <1>1, <2>1, GhostGrows DEF SourceTrue
    <3>2. Leaving \in fenced
      BY <1>1, <2>1 DEF DrainTrue
    <3>3. ASSUME NEW e \in entries'[Leaving], e \notin entries[Leaving]
          PROVE  e[1] \in ghost'.late
      BY <3>2, <3>3, SourceGrows
    <3>4. QED
      BY <3>1, <3>3
  <2>2. CASE mover.pc # "unshadow"
    <3>1. mover' # mover
      BY <1>3, <2>2
    <3>2. MoveDeletes
      BY <1>1, <1>3, <2>2, <3>1, PhaseMoves DEF FanUnshadow
    <3>3. entries'[Leaving] = {}
      BY <1>1, <3>2 DEF MoveDeletes
    <3>4. QED
      BY <3>3
  <2>3. QED
    BY <2>1, <2>2
<1>4. ASSUME leave'.draining, ~Marked', ~ghost'.forked, NEW c \in Catalogs, Out(c)'
      PROVE  \A e \in entries'[Leaving] : Spare(e[1])'
  <2>1. ~ghost.forked
    BY <1>1, <1>4, GhostGrows
  <2>2. CASE Marked
    <3>1. FanUnshadow(Owner)
      <4>1. leave' # leave
        BY <1>4, <2>2 DEF Marked
      <4>2. QED
        BY <1>1, <1>4, <2>2, <4>1, PhaseMoves
    <3>2. mover.pc = "unshadow" /\ entries' = entries /\ ghost' = ghost
      BY <3>1 DEF FanUnshadow, moveFrame
    <3>3. QED
      BY <1>1, <3>2 DEF SourceTrue, Spare
  <2>3. CASE ~Marked
    <3>1. leave.draining
      <4>1. CASE ~leave.draining
        <5>1. StartDrain
          BY <1>1, <1>4, <4>1, PhaseMoves
        <5>2. rule' = rule
          BY <5>1 DEF StartDrain
        <5>3. Out(c)
          BY <1>4, <5>2 DEF Registered
        <5>4. QED
          BY <1>1, <4>1, <5>3 DEF RulesTrue
      <4>2. QED
        BY <4>1
    \* The entries there already:
    <3>2. \A e \in entries[Leaving] : Spare(e[1])'
      <4>1. CASE \E d \in Catalogs : Out(d)
        BY <1>1, <1>2, <2>1, <2>3, <3>1, <4>1 DEF SourceTrue
      <4>2. CASE \E d \in Catalogs : Register(d) /\ ~Registered(d)
        <5>1. PICK d \in Catalogs : Register(d) /\ ~Registered(d)
          BY <4>2
        <5>2. /\ rule'[d].ring = gateway.ring /\ ghost'.left = ghost.left \cup Leftover /\ ~Forks(d)
              /\ \A b \in Catalogs \ {d} : rule'[b] = rule[b] /\ (Registered(b)' <=> Registered(b))
          BY <1>1, <1>4, <5>1, RegisterEffect
        <5>3. CASE \E b \in Catalogs : Registered(b)
          <6>1. PICK b \in Catalogs : Registered(b)
            BY <5>3
          <6>2. rule[b].ring = gateway.ring
            BY <5>1, <5>2, <6>1 DEF Forks
          <6>3. Out(c) \/ Out(b)
            BY <1>4, <5>1, <5>2, <6>1, <6>2
          <6>4. QED
            BY <4>1, <6>3
        <5>4. CASE ~ \E b \in Catalogs : Registered(b)
          <6>1. \A e \in entries[Leaving] : e[1] \in ghost'.left
            BY <5>2, <5>4 DEF Leftover
          <6>2. QED
            BY <6>1 DEF Spare
        <5>5. QED
          BY <5>3, <5>4
      <4>3. CASE SameRings \/ \E d \in Catalogs : Unregister(d)
        <5>1. Out(c)
          <6>1. CASE SameRings
            BY <1>4, <6>1 DEF SameRings
          <6>2. ASSUME NEW d \in Catalogs, Unregister(d)
                PROVE  Out(c)
            BY <1>1, <1>4, <6>2, UnregisterEffect
          <6>3. QED
            BY <4>3, <6>1, <6>2
        <5>2. QED
          BY <4>1, <5>1
      <4>4. mover.pc \notin {"fan", "unshadow"}
        BY <1>1, <2>3 DEF DrainTrue
      <4>5. QED
        BY <1>1, <4>2, <4>3, <4>4, RingsMove DEF FanRepoint, FanUnshadow
    \* The entries that come:
    <3>3. ASSUME NEW e \in entries'[Leaving], e \notin entries[Leaving]
          PROVE  Spare(e[1])'
      <4>1. UNCHANGED <<rule, leave, mover, fenced>>
        BY <3>3, SourceGrows
      <4>2. Out(c)
        BY <1>4, <4>1 DEF Registered
      <4>3. \A d \in Catalogs : Registered(d) => ~InRing(Leaving, rule[d].ring)
        BY <1>1, <2>1, <2>3, <4>2 DEF AgreeTrue
      <4>4. ASSUME NEW u \in upkeep, u.at = Leaving, e[1] = u.row,
                   Leaving \in fenced => u.row \in ghost'.late
            PROVE  Spare(e[1])'
        <5>1. CASE Leaving \in fenced
          BY <4>4, <5>1 DEF Spare
        <5>2. CASE Leaving \notin fenced
          <6>1. Tied(u.row, u.to = Leaving \/ u.at = Leaving)
            BY <1>1 DEF WritesTied
          <6>2. u.row \in ghost.unseen
            BY <4>3, <4>4, <5>2, <6>1 DEF Tied
          <6>3. QED
            BY <1>2, <4>4, <6>2 DEF Spare
        <5>3. QED
          BY <5>1, <5>2
      <4>5. ASSUME filler.pc = "write", filler.to = Leaving, Leaving \notin fenced
            PROVE  FALSE
        <5>1. InRing(Leaving, rule[c].ring)
          BY <2>1, <4>2, <4>5 DEF RingInv, FillTied
        <5>2. QED
          BY <4>2, <5>1
      <4>6. QED
        BY <3>3, <4>4, <4>5, SourceGrows
    <3>4. QED
      BY <3>2, <3>3
  <2>4. QED
    BY <2>2, <2>3
<1>5. QED
  BY <1>3, <1>4 DEF SourceTrue

-----------------------------------------------------------------------------
(* The invariant.                                                          *)

\* It holds before anything has run.
LEMMA InitRing == Init => RingInv
<1> SUFFICES ASSUME Init
             PROVE  RingInv
  OBVIOUS
<1> USE BoundsAreNat
<1>1. StoredTypes /\ CallTypes
  BY InitTypes
<1>2. /\ rule = [c \in Catalogs |-> NoRule] /\ active = Active0 /\ Leaving \in Active0
      /\ leave = [draining |-> FALSE, op |-> NoOp, substitute |-> NoShard]
      /\ gateway = NoCall /\ filler = NoTick /\ mover = NoMove /\ fenced = {}
      /\ flights = [w \in Clients |-> NoFlight] /\ upkeep = {}
  BY IndexAssumption DEF Init
<1>3. \A c \in Catalogs : rule[c] = NoRule /\ ~Registered(c)
  BY <1>2 DEF Registered, NoRule
<1>4. DrainTrue
  BY <1>2 DEF DrainTrue, Marked, NoMove
<1>5. RulesTrue
  BY <1>2, <1>3 DEF RulesTrue, NoCall
<1>6. AgreeTrue
  BY <1>2, <1>3 DEF AgreeTrue, NoMove
<1>7. AwayTrue
  BY <1>2 DEF AwayTrue, NoMove
<1>8. WritesTied
  BY <1>2 DEF WritesTied, NoFlight, Live
<1>9. FillTied
  BY <1>2 DEF FillTied, NoTick
<1>10. SourceTrue
  BY <1>2 DEF SourceTrue, NoMove
<1>11. QED
  BY <1>1, <1>4, <1>5, <1>6, <1>7, <1>8, <1>9, <1>10 DEF RingInv

\* And every step keeps it.
LEMMA RingInvStep ==
  ASSUME RingInv, [Next]_vars
  PROVE  RingInv'
<1>1. StoredTypes' /\ CallTypes'
  BY TypesStep DEF RingInv
<1>2. QED
  BY <1>1, DrainTrueStep, RulesTrueStep, AgreeTrueStep, AwayTrueStep, WritesTiedStep, FillTiedStep,
     SourceTrueStep DEF RingInv

\* The rings, the writes on their way to them and the shard that leaves are always
\* as RingInv has them (src/catalog.ts:3380-3600, src/index.ts:2954-3100).
THEOREM RingSafe == Spec => []RingInv
<1>1. Init => RingInv
  BY InitRing
<1>2. RingInv /\ [Next]_vars => RingInv'
  BY RingInvStep
<1>3. QED
  BY <1>1, <1>2, PTL DEF Spec

\* Every row of the index's tables keeps its shape; what is fenced or read as a
\* shadow is the shard that leaves.
THEOREM IndexTypes == Spec => []IndexTypeOK
<1>1. RingInv => IndexTypeOK
  <2> SUFFICES ASSUME RingInv
               PROVE  IndexTypeOK
    OBVIOUS
  <2> USE BoundsAreNat
  <2>1. StoredTypes /\ CallTypes
    BY DEF RingInv
  <2>2. \A c \in Catalogs : rule[c] \in Rule
    BY <2>1 DEF StoredTypes
  <2>3. ASSUME NEW ring \in Seq(Shards)
        PROVE  Members(ring) \subseteq Shards
    <3>1. \A i \in DOMAIN ring : ring[i] \in Shards
      BY <2>3, ElementOfSeq, LenProperties
    <3>2. QED
      BY <3>1 DEF Members
  <2>4. \A c \in Catalogs : /\ rule[c].status \in {"none", "building", "ready", "failed"}
                            /\ Members(rule[c].ring) \subseteq Shards
                            /\ rule[c].shadow \subseteq {Leaving}
    BY <2>2, <2>3 DEF Rule, Status
  <2>5. \A u \in upkeep : u.to \in Shards /\ u.at \in Shards
    BY <2>1 DEF CallTypes, Write
  <2>6. QED
    BY <2>1, <2>4, <2>5 DEF IndexTypeOK, StoredTypes, FillRow, Entry
<1>2. QED
  BY <1>1, RingSafe, PTL

\* Unless an evacuation is marked, the catalogs that have the index agree on where
\* its entries are written and read (src/catalog.ts:1257-1264).
THEOREM RingsAlwaysAgree == Spec => []RingsAgree
<1>1. RingInv => RingsAgree
  BY DEF RingInv, AgreeTrue, RingsAgree
<1>2. QED
  BY <1>1, RingSafe, PTL

\* Once its drain is over, a shard holds no entry of the index but those let off
\* (src/catalog.ts:3406-3407).
THEOREM EvacuatedEmpty == Spec => []EvacuatedShardsStayEmpty
<1>1. RingInv => EvacuatedShardsStayEmpty
  <2> SUFFICES ASSUME RingInv, leave.draining, leave.op = NoOp, ~ghost.forked,
                      \A c \in Catalogs : Registered(c)
               PROVE  \A e \in entries[Leaving] :
                        e[1] \in ghost.late \cup ghost.left \cup ghost.unseen
    BY DEF EvacuatedShardsStayEmpty
  <2>1. ~Marked
    BY DEF RingInv, DrainTrue
  <2>2. Registered(Owner) /\ ~InRing(Leaving, rule[Owner].ring) /\ Owner \in Catalogs
    BY BoundsAreNat DEF RingInv, AwayTrue
  <2>3. QED
    BY <2>1, <2>2 DEF RingInv, SourceTrue, Spare
<1>2. QED
  BY <1>1, RingSafe, PTL

-----------------------------------------------------------------------------
(* Where a row's entry is, so that a query finds it.                       *)

\* The rows whose index the code gives up on.
LetOff(r) == r \in ghost.overlapped \cup ghost.unseen \cup ghost.lost \cup ghost.late

\* A write that has read the row and not yet written it; one whose index
\* writes are prepared for good.
Writing(w, r) == flights[w].row = r /\ flights[w].pc \in {"read", "prepared", "committing"}
Deciding(w) == flights[w].pc = "committing" /\ flights[w].ring # <<>>

\* A row has one write at a time, or is let off; what that write read is so, and
\* its index writes take away no entry that the row is due.
Due(r, k) == \/ row[r] = k /\ \A w \in Clients : flights[w].row = r => ~Deciding(w)
             \/ \E w \in Clients : flights[w].row = r /\ Deciding(w) /\ After(w) = k

OneWriter ==
  /\ \A w \in Clients : flights[w].pc \in {"prepared", "committing"} => IsTx(w)
  /\ \A r \in Rows, w \in Clients : r \notin ghost.overlapped /\ Writing(w, r) =>
       /\ \A v \in Clients : Writing(v, r) => v = w
       /\ \A u \in upkeep : u.row = r => Deciding(w)
  /\ \A r \in Rows, w \in Clients : ~LetOff(r) /\ Writing(w, r) /\ flights[w].ring # <<>> =>
       flights[w].before = row[r]
  /\ \A u \in upkeep : u.del /\ ~LetOff(u.row) => ~Due(u.row, u.key)

FillLive == fill.on /\ fill.op # NoOp /\ lock = fill.op

\* The lock of a call of the gateway is no older than the call; a backfill that
\* holds the lock is of the index that is registered.
OpsTrue ==
  /\ gateway.kind # "none" =>
       /\ gateway.op # NoOp /\ fill.op < gateway.op
       /\ lock = NoOp \/ lock >= gateway.op
  /\ lock <= used.ops /\ fill.op <= used.ops /\ gateway.op <= used.ops
  /\ ~Registered(Zero) => ~fill.on /\ fill.op = NoOp
  /\ fill.on /\ rule[Zero].status = "building" => fill.op # NoOp
  /\ FillLive => \A c \in Catalogs : Registered(c)
  /\ gateway.pc = "unregister" => \A c \in Catalogs : c \in gateway.todo \/ ~Registered(c)
  /\ gateway.pc = "clean" => \A c \in Catalogs : ~Registered(c)
  /\ gateway.kind = "create" => gateway.pc \in {"list", "register", "start"}
  /\ gateway.kind = "drop" => gateway.pc \in {"unregister", "clean"}
  /\ gateway.kind = "none" => gateway.pc = "idle"
  /\ gateway.pc = "register" => gateway.ring # <<>>

\* Rings differ by what a marked evacuation has put in the shard's place.
Swap(ring, s) == [i \in DOMAIN ring |-> IF ring[i] = Leaving THEN s ELSE ring[i]]
Subst(ring) == Swap(ring, leave.substitute)
CloseTrue ==
  ~ghost.forked =>
    /\ Marked => \A c, d \in Catalogs : rule[c].ring # <<>> /\ rule[d].ring # <<>> =>
         Subst(rule[c].ring) = Subst(rule[d].ring)
    /\ mover.pc = "fan" => /\ mover.ring # <<>>
                           /\ \A c \in Catalogs : Registered(c) =>
                                /\ Subst(rule[c].ring) = mover.ring
                                /\ c \notin mover.todo => rule[c].ring = mover.ring
    /\ mover.pc = "unshadow" => \/ mover.ring = <<>> /\ ~Registered(Owner)
                                \/ \A c \in Catalogs : Registered(c) => rule[c].ring = mover.ring
    /\ \A c \in Catalogs : Registered(c) /\ rule[c].ring = <<>> => ~Registered(Owner)
    /\ leave.draining /\ Registered(Owner) /\ ~InRing(Leaving, rule[Owner].ring) =>
         \A c \in Catalogs : ~InRing(Leaving, rule[c].ring)

\* The tenant's catalog has a ring, and not one that the drain has done with.
Whole ==
  /\ ~ghost.forked /\ rule[Home].ring # <<>>
  /\ leave.draining /\ ~InRing(Leaving, rule[Owner].ring) /\ InRing(Leaving, rule[Home].ring) =>
       mover.pc = "fan"

\* Where the tenant's catalog, and catalog-0, have a key.
Here(k) == Place(k, rule[Home].ring)
There(k) == Place(k, rule[Zero].ring)
Ahead(k) == Marked /\ Here(k) = Leaving /\ There(k) # Leaving
Shadowed(k) == Leaving \in rule[Home].shadow /\ Here(k) = leave.substitute

At(r, k) == \/ <<r, k>> \in entries[Here(k)]
            \/ Shadowed(k) /\ <<r, k>> \in entries[Leaving]
            \/ Ahead(k) /\ <<r, k>> \in entries[leave.substitute]

Outstanding(r, k) == \E u \in upkeep : u.row = r /\ u.key = k /\ ~u.del /\ u.ran = {}

\* The row's entry is where a query looks, or on its way there.
Settled(r) == ~LetOff(r) => \A k \in Keys : Due(r, k) => Outstanding(r, k) \/ At(r, k)

\* A place to send an entry to.
Behind(s) == s = Leaving /\ Leaving \in fenced
Aim(k, s) == s = Here(k) \/ (Ahead(k) /\ s = leave.substitute) \/ Behind(s)

AimTrue ==
  Whole =>
    /\ \A w \in Clients : flights[w].pc \in Live /\ flights[w].ring # <<>> /\ flights[w].row \notin ghost.unseen =>
         \A k \in Keys : Place(k, flights[w].ring) = Here(k) \/ Behind(Place(k, flights[w].ring))
    /\ \A u \in upkeep : u.row \notin ghost.unseen =>
         (u.to = Here(u.key) \/ Behind(u.to)) /\ Aim(u.key, u.at)
    /\ filler.pc \in {"refresh", "write"} => \A k \in Keys : Aim(k, Place(k, filler.ring))
    /\ filler.pc = "write" => Aim(filler.key, filler.to)

\* Rows the backfill has behind it.
Filled(r) ==
  \/ rule[Home].status = "ready" \/ filler.pc = "ready"
  \/ FillLive /\ (fill.past \/ r <= fill.at)
  \/ filler.pc \in {"refresh", "write"} /\ (filler.short \/ r <= filler.last) /\ r \notin filler.page

FilledTrue ==
  Whole =>
    /\ \A r \in Rows : Filled(r) => Settled(r)
    /\ \A w \in Clients : Deciding(w) /\ After(w) # row[flights[w].row] => Settled(flights[w].row)
    /\ filler.pc = "write" => LET r == Smallest(filler.page) IN
         Settled(r) \/ \A k \in Keys : Due(r, k) => k = filler.key

\* What was copied is at the substitute.
Copied(e) == \/ mover.pc = "delete" /\ e \in entries[Leaving]
             \/ e \in mover.copied
CopyTrue ==
  /\ mover.pc \notin {"copy", "import"} => mover.copied = {}
  /\ Whole => \A r \in Rows, k \in Keys :
       ~LetOff(r) /\ Due(r, k) /\ Copied(<<r, k>>) /\ Here(k) = leave.substitute =>
         \/ Outstanding(r, k) \/ <<r, k>> \in entries[leave.substitute]
         \/ mover.pc = "import" /\ mover.entry = <<r, k>>

\* A fair query has its row's entry before it, or has found it.
Looked(s) == <<query.row, query.key>> \in entries[s]
QueryTrue ==
  /\ query \in [pc : {"idle", "ring", "shadow", "answer"}, row : 0 .. NRows, key : Values,
                ring : Shards \cup {NoShard}, shadow : SUBSET {Leaving}, found : BOOLEAN,
                fair : BOOLEAN]
  /\ query.pc # "idle" /\ query.fair =>
       /\ \A c \in Catalogs : Registered(c)
       /\ query.row \in Rows /\ row[query.row] = query.key /\ query.key \in Keys
       /\ query.ring \in Shards
       /\ \A u \in upkeep : u.row # query.row
       /\ query.pc = "ring" => Looked(query.ring) \/ \E s \in query.shadow : Looked(s)
       /\ query.pc = "shadow" => query.found \/ \E s \in query.shadow : Looked(s)
       /\ query.pc = "answer" => query.found

FindInv ==
  /\ RingInv
  /\ OneWriter /\ OpsTrue /\ CloseTrue /\ AimTrue /\ FilledTrue /\ CopyTrue /\ QueryTrue

-----------------------------------------------------------------------------
(* One write of a row at a time.                                           *)

\* A step of the flight of w, and of no other.
Only(w) == \A v \in Clients \ {w} : flights'[v] = flights[v]
Keeps(w) == /\ flights'[w].op = flights[w].op /\ flights'[w].row = flights[w].row
            /\ flights'[w].key = flights[w].key /\ flights'[w].ring = flights[w].ring

\* What a step of a client does to its flight.
LEMMA FlightEffect ==
  ASSUME CallTypes, NEW w \in Clients
  PROVE  /\ Route(w) => Only(w) /\ flights'[w].pc = "routed"
         /\ PreRead(w) => /\ Only(w) /\ Keeps(w) /\ flights'[w].pc = "read"
                          /\ flights'[w].before = row[flights[w].row]
         /\ flights' = Done(w) => Only(w) /\ flights'[w].pc = "done"
         /\ \A p : flights' = [flights EXCEPT ![w].pc = p] =>
              Only(w) /\ Keeps(w) /\ flights'[w].pc = p /\ flights'[w].before = flights[w].before
<1>1. flights \in [Clients -> Flight] /\ flights[w] \in Flight
  BY DEF CallTypes
<1>2. ASSUME Route(w)
      PROVE  Only(w) /\ flights'[w].pc = "routed"
  BY <1>1, <1>2 DEF Route, Only
<1>3. ASSUME PreRead(w)
      PROVE  /\ Only(w) /\ Keeps(w) /\ flights'[w].pc = "read"
             /\ flights'[w].before = row[flights[w].row]
  <2>1. flights' = [flights EXCEPT ![w] =
                      [flights[w] EXCEPT !.pc = "read", !.before = row[flights[w].row]]]
    BY <1>1, <1>3 DEF PreRead
  <2>2. QED
    BY <1>1, <2>1 DEF Only, Keeps, Flight
<1>4. flights' = Done(w) => Only(w) /\ flights'[w].pc = "done"
  BY <1>1 DEF Done, NoFlight, Only
<1>5. ASSUME NEW p, flights' = [flights EXCEPT ![w].pc = p]
      PROVE  /\ Only(w) /\ Keeps(w) /\ flights'[w].pc = p
             /\ flights'[w].before = flights[w].before
  <2>1. flights'[w] = [flights[w] EXCEPT !.pc = p]
    BY <1>1, <1>5
  <2>2. Only(w)
    BY <1>1, <1>5 DEF Only
  <2>3. QED
    BY <1>1, <2>1, <2>2 DEF Keeps, Flight
<1>6. QED
  BY <1>2, <1>3, <1>4, <1>5

\* What the code gives up on it gives up on for good.
LEMMA LetOffGrows ==
  ASSUME StoredTypes, [Next]_vars
  PROVE  /\ ghost.overlapped \subseteq ghost'.overlapped
         /\ ghost.lost \subseteq ghost'.lost
         /\ \A r : LetOff(r) => LetOff(r)'
<1>1. ghost \in Ghost
  BY DEF StoredTypes
<1>2. ghost.overlapped \subseteq ghost'.overlapped /\ ghost.lost \subseteq ghost'.lost
  <2>1. CASE UNCHANGED ghost
    BY <2>1
  <2>2. CASE Client
    BY <1>1, <2>2
    DEF Client, Route, PreRead, Execute, ExecuteUnanswered, Prepare, AbortTx, CommitTx, CommitRow,
        Overlap, Unseen, Ghost
  <2>3. CASE Upkeep
    BY <1>1, <2>3 DEF Upkeep, Deliver, Resolve, Fails, Unanswered, Lose, Ghost
  <2>4. CASE Gateway
    <3>1. CASE \E c \in Catalogs : Register(c)
      BY <1>1, <3>1 DEF Register, Ghost
    <3>2. CASE \E c \in Catalogs : Unregister(c)
      BY <1>1, <3>2 DEF Unregister, Ghost
    <3>3. QED
      BY <2>1, <2>4, <3>1, <3>2
      DEF Gateway, CreateBegins, CreateVerifies, StartBackfill, DropBegins, CleanShard,
          GatewayStops, LeaseLapses, AddShard
  <2>5. CASE Query \/ UNCHANGED vars
    BY <2>1, <2>5 DEF Query, QueryLookup, QueryRing, QueryShadow, QueryAnswer, vars
  <2>6. CASE Filler
    BY <2>1, <2>6
    DEF Filler, FillScan, FillRefresh, FillWrite, FillPageEnds, FillEnds, MarkReady, FillFails,
        FillStops, fillFrame
  <2>7. CASE Mover
    BY <2>1, <2>7, DrainFrame
  <2>8. QED
    BY <2>2, <2>3, <2>4, <2>5, <2>6, <2>7 DEF Next
<1>3. QED
  BY <1>2, GhostGrows DEF LetOff

\* Only a client writes a row.
LEMMA OthersLeaveRow ==
  ASSUME [Next]_vars, ~Client
  PROVE  UNCHANGED row
<1>1. CASE Query \/ UNCHANGED vars
  BY <1>1 DEF Query, QueryLookup, QueryRing, QueryShadow, QueryAnswer, vars, shardVars
<1>2. CASE Upkeep
  <2>1. PICK u \in upkeep : Deliver(u) \/ Resolve(u) \/ Fails(u) \/ Unanswered(u) \/ Lose(u)
    BY <1>2 DEF Upkeep
  <2>2. CASE Deliver(u) \/ Unanswered(u) \/ Lose(u)
    BY <2>2 DEF Deliver, Unanswered, Lose, shardVars
  <2>3. CASE Resolve(u) \/ Fails(u)
    BY <2>3 DEF Resolve, Fails, shardVars
  <2>4. QED
    BY <2>1, <2>2, <2>3
<1>3. CASE Gateway
  <2>1. CASE CreateBegins \/ CreateVerifies \/ StartBackfill \/ DropBegins \/ GatewayStops \/ LeaseLapses
    BY <2>1
    DEF CreateBegins, CreateVerifies, StartBackfill, DropBegins, GatewayStops, LeaseLapses, shardVars
  <2>2. CASE \E c \in Catalogs : Register(c) \/ Unregister(c)
    BY <2>2 DEF Register, Unregister, shardVars
  <2>3. CASE \E s \in Shards : CleanShard(s) \/ AddShard(s)
    BY <2>3 DEF CleanShard, AddShard, shardVars
  <2>4. QED
    BY <1>3, <2>1, <2>2, <2>3 DEF Gateway
<1>4. CASE Filler
  BY <1>4
  DEF Filler, FillScan, FillRefresh, FillWrite, FillPageEnds, FillEnds, MarkReady, FillFails,
      FillStops, fillFrame
<1>5. CASE Mover
  BY <1>5, DrainFrame
<1>6. QED
  BY <1>1, <1>2, <1>3, <1>4, <1>5 DEF Next

\* The index writes of a flight, and what is in them.
LEMMA DeltasAre ==
  ASSUME StoredTypes, CallTypes, NEW w \in Clients, flights[w].pc \in Live
  PROVE  /\ \A u \in Deltas(w) :
              /\ u.row = flights[w].row /\ u.ran = {} /\ u.at = u.to /\ flights[w].ring # <<>>
              /\ u.key \in Keys /\ u.to = Place(u.key, flights[w].ring)
              /\ u.del => /\ u.key = flights[w].before /\ flights[w].op # "insert"
                          /\ u.key # After(w)
              /\ ~u.del => u.key = After(w)
         /\ /\ After(w) \in Keys /\ flights[w].ring # <<>>
            /\ IF flights[w].op = "insert" THEN TRUE
               ELSE /\ flights[w].before # After(w)
                    /\ flights[w].op = "update" => flights[w].before # Gone
            => \E u \in Deltas(w) : ~u.del /\ u.key = After(w)
<1> USE BoundsAreNat
<1>1. flights[w] \in Flight /\ flights[w].key \in Keys /\ flights[w].row \in Rows
  BY DEF CallTypes
<1>2. flights[w].before \in Values /\ Values = Keys \cup {Gone} /\ After(w) \in Values
  BY <1>1 DEF Flight, Values, After
<1> DEFINE f == flights[w]
           old == IF f.op = "insert" THEN Gone ELSE f.before
           W(del, key) == [by |-> w, del |-> del, row |-> f.row, key |-> key,
                           to |-> Place(key, f.ring), at |-> Place(key, f.ring),
                           stage |-> IF IsTx(w) THEN "intent" ELSE "sent", ran |-> {}]
           Dels == {W(TRUE, k) : k \in {old} \ {Gone}}
           Adds == {W(FALSE, k) : k \in {After(w)} \ {Gone}}
<1>3. Deltas(w) = IF \/ f.ring = <<>> \/ old = After(w)
                     \/ f.op = "update" /\ old = Gone
                  THEN {} ELSE Dels \cup Adds
  BY DEF Deltas
<1>4. ASSUME NEW u \in Deltas(w)
      PROVE  /\ u.row = f.row /\ u.ran = {} /\ u.at = u.to /\ f.ring # <<>>
             /\ u.key \in Keys /\ u.to = Place(u.key, f.ring)
             /\ u.del => u.key = f.before /\ f.op # "insert" /\ u.key # After(w)
             /\ ~u.del => u.key = After(w)
  <2>1. f.ring # <<>> /\ old # After(w) /\ u \in Dels \cup Adds
    BY <1>3, <1>4
  <2>2. CASE u \in Dels
    <3>1. PICK k \in {old} \ {Gone} : u = W(TRUE, k)
      BY <2>2
    <3>2. k = old /\ k # Gone /\ f.op # "insert"
      BY <3>1
    <3>3. QED
      BY <1>2, <2>1, <3>1, <3>2
  <2>3. CASE u \in Adds
    <3>1. PICK k \in {After(w)} \ {Gone} : u = W(FALSE, k)
      BY <2>3
    <3>2. QED
      BY <1>2, <2>1, <3>1
  <2>4. QED
    BY <2>1, <2>2, <2>3
<1>5. ASSUME After(w) \in Keys, f.ring # <<>>,
             IF f.op = "insert" THEN TRUE
             ELSE f.before # After(w) /\ (f.op = "update" => f.before # Gone)
      PROVE  \E u \in Deltas(w) : ~u.del /\ u.key = After(w)
  <2>1. W(FALSE, After(w)) \in Adds
    BY <1>5
  <2>2. Adds \subseteq Deltas(w)
    BY <1>3, <1>5
  <2>3. QED
    BY <2>1, <2>2
<1>6. QED
  BY <1>4, <1>5

\* What a write about to be made has read is so, if it had to read.
LEMMA ReadIsSo ==
  ASSUME CallTypes, OneWriter, NEW w \in Clients, flights[w].pc \in {"read", "prepared", "committing"},
         ~LetOff(flights[w].row), flights[w].ring # <<>>
  PROVE  flights[w].before = row[flights[w].row]
<1>1. flights[w].row \in Rows
  BY DEF CallTypes, Live
<1>2. QED
  BY <1>1 DEF OneWriter, Writing

\* An index write is done, or stays what it is.
LEMMA UpkeepMoves ==
  ASSUME CallTypes, Upkeep
  PROVE  \A u \in upkeep' : \E v \in upkeep :
           /\ u.row = v.row /\ u.del = v.del /\ u.key = v.key /\ u.to = v.to
           /\ u.stage = "intent" <=> v.stage = "intent"
           /\ v.ran \subseteq u.ran
           /\ \/ u.at \in {v.at, v.to}
              \/ RingNow # <<>> /\ u.at = Place(u.key, RingNow)
<1>1. PICK u \in upkeep : Deliver(u) \/ Resolve(u) \/ Fails(u) \/ Unanswered(u) \/ Lose(u)
  BY DEF Upkeep
<1>2. u \in Write
  BY <1>1 DEF CallTypes
<1> DEFINE From(x, v) == /\ x.row = v.row /\ x.del = v.del /\ x.key = v.key /\ x.to = v.to
                         /\ x.stage = "intent" <=> v.stage = "intent"
                         /\ v.ran \subseteq x.ran
                         /\ \/ x.at \in {v.at, v.to}
                            \/ RingNow # <<>> /\ x.at = Place(x.key, RingNow)
<1>3. CASE Deliver(u) \/ Lose(u)
  BY <1>3 DEF Deliver, Lose
<1>4. ASSUME NEW v, Replace(u, v), From(v, u)
      PROVE  \A x \in upkeep' : \E y \in upkeep : From(x, y)
  <2>1. upkeep' = (upkeep \ {u}) \cup {v}
    BY <1>4 DEF Replace
  <2>2. \A x : From(x, x)
    OBVIOUS
  <2> HIDE DEF From
  <2>3. QED
    BY <1>4, <2>1, <2>2
<1>5. CASE Resolve(u)
  <2>1. CASE RingNow # <<>> /\ Replace(u, [u EXCEPT !.at = Place(u.key, RingNow)])
    <3> DEFINE v == [u EXCEPT !.at = Place(u.key, RingNow)]
    <3>1. From(v, u)
      BY <1>2, <2>1 DEF Write
    <3>2. QED
      BY <1>4, <2>1, <3>1
  <2>2. CASE u.stage = "sent" /\ Replace(u, [u EXCEPT !.stage = "queued"])
    <3> DEFINE v == [u EXCEPT !.stage = "queued"]
    <3>1. From(v, u)
      BY <1>2, <2>2 DEF Write
    <3>2. QED
      BY <1>4, <2>2, <3>1
  <2>3. QED
    BY <1>5, <2>1, <2>2 DEF Resolve
<1>6. CASE Fails(u)
  <2> DEFINE v == [u EXCEPT !.stage = "queued", !.at = u.to]
  <2>1. From(v, u)
    BY <1>2, <1>6 DEF Write, Fails
  <2>2. QED
    BY <1>4, <1>6, <2>1 DEF Fails
<1>7. CASE Unanswered(u)
  <2> DEFINE v == [u EXCEPT !.stage = "queued", !.at = u.to, !.ran = @ \cup {u.at}]
  <2>1. From(v, u)
    BY <1>2, <1>7 DEF Write, Unanswered
  <2>2. QED
    BY <1>4, <1>7, <2>1 DEF Unanswered
<1>8. QED
  BY <1>1, <1>3, <1>5, <1>6, <1>7

\* A flight that has not moved is what it was.
LEMMA OthersStay ==
  ASSUME NEW w \in Clients, Only(w)
  PROVE  \A v \in Clients \ {w} :
           /\ \A r : Writing(v, r)' <=> Writing(v, r)
           /\ Deciding(v)' <=> Deciding(v)
           /\ After(v)' = After(v) /\ (IsTx(v)' <=> IsTx(v))
BY DEF Only, Writing, Deciding, After, Deletes, IsTx

\* Nor has what a flight asks for.
LEMMA KeptStays ==
  ASSUME NEW w \in Clients, Keeps(w)
  PROVE  After(w)' = After(w) /\ (IsTx(w)' <=> IsTx(w))
BY DEF Keeps, After, Deletes, IsTx

\* A row whose writes are done one at a time has no other.
LEMMA NotBusy ==
  ASSUME NEW w \in Clients, NEW r, ~Busy(r, w)
  PROVE  /\ \A v \in Clients \ {w} : ~Writing(v, r)
         /\ \A u \in upkeep : u.row # r
BY DEF Busy, Writing

\* Writes of a row take their turn, or are let off.
LEMMA OneWriterStep ==
  ASSUME StoredTypes, CallTypes, OneWriter, [Next]_vars
  PROVE  OneWriter'
<1> USE BoundsAreNat
<1>1. \A r : LetOff(r) => LetOff(r)'
  BY LetOffGrows
<1>2. ghost.overlapped \subseteq ghost'.overlapped
  BY LetOffGrows
<1>3. CASE ~Client
  <2>1. UNCHANGED <<flights, row>>
    BY <1>3, OthersLeaveFlights, OthersLeaveRow
  <2>2. /\ \A w \in Clients : IsTx(w)' <=> IsTx(w)
        /\ \A w \in Clients : Deciding(w)' <=> Deciding(w)
        /\ \A r : \A w \in Clients : Writing(w, r)' <=> Writing(w, r)
        /\ \A r, k : Due(r, k)' <=> Due(r, k)
    BY <2>1 DEF Due, Deciding, Writing, After, Deletes, IsTx
  <2>3. \A u \in upkeep' : \E v \in upkeep : u.row = v.row /\ u.del = v.del /\ u.key = v.key
    <3>1. CASE Upkeep
      BY <3>1, UpkeepMoves
    <3>2. CASE ~Upkeep
      BY <1>3, <3>2, OthersLeaveUpkeep
    <3>3. QED
      BY <3>1, <3>2
  <2>4. QED
    BY <1>1, <1>2, <2>1, <2>2, <2>3 DEF OneWriter
<1>4. ASSUME NEW w \in Clients, Route(w)
      PROVE  OneWriter'
  <2>1. Only(w) /\ flights'[w].pc = "routed" /\ UNCHANGED <<upkeep, row, ghost>>
        /\ flights[w].pc = "none"
    BY <1>4, FlightEffect DEF Route, shardVars
  <2>2. ~Deciding(w) /\ ~Deciding(w)' /\ \A r : ~Writing(w, r)'
    BY <2>1 DEF Deciding, Writing
  <2>3. \A r, k : Due(r, k)' <=> Due(r, k)
    BY <2>1, <2>2, OthersStay DEF Due, Only
  <2>4. \A r : LetOff(r)' <=> LetOff(r)
    BY <2>1 DEF LetOff
  <2>5. QED
    BY <2>1, <2>2, <2>3, <2>4, OthersStay DEF OneWriter, Only
<1>5. ASSUME NEW w \in Clients, flights' = Done(w), UNCHANGED <<upkeep, row>>, ~Deciding(w)
      PROVE  OneWriter'
  <2>1. Only(w) /\ flights'[w].pc = "done"
    BY <1>5, FlightEffect
  <2>2. ~Deciding(w)' /\ \A r : ~Writing(w, r)'
    BY <2>1 DEF Deciding, Writing
  <2>3. \A r, k : Due(r, k)' <=> Due(r, k)
    BY <1>5, <2>1, <2>2, OthersStay DEF Due, Only
  <2>4. QED
    BY <1>1, <1>2, <1>5, <2>1, <2>2, <2>3, OthersStay DEF OneWriter, Only
<1>6. ASSUME NEW w \in Clients, flights[w].pc \in Live, Only(w), Keeps(w), ~Deciding(w), ~Deciding(w)',
             flights'[w].pc = "prepared" => IsTx(w),
             flights'[w].pc \in {"read", "prepared"},
             flights'[w].before = row[flights[w].row] \/ flights[w].ring = <<>> \/
               (flights[w].pc = "read" /\ flights'[w].before = flights[w].before),
             UNCHANGED <<upkeep, row>>, ghost' = Overlap(w)
      PROVE  OneWriter'
  <2> DEFINE r0 == flights[w].row
  <2>1. r0 \notin ghost'.overlapped => ~Busy(r0, w)
    <3>1. ghost \in Ghost /\ r0 \in Rows
      BY <1>6 DEF StoredTypes, CallTypes
    <3>2. QED
      BY <1>6, <3>1 DEF Overlap, Ghost
  <2>2. \A r : Writing(w, r)' => r = r0
    BY <1>6 DEF Keeps, Writing
  <2>3. \A r, k : Due(r, k)' <=> Due(r, k)
    BY <1>6, OthersStay DEF Due, Only, Keeps
  <2>4. /\ \A v \in Clients : flights'[v].pc \in {"prepared", "committing"} => IsTx(v)'
        /\ \A u \in upkeep' : u.del /\ ~LetOff(u.row)' => ~Due(u.row, u.key)'
    BY <1>1, <1>6, <2>3, OthersStay, KeptStays DEF OneWriter, Only
  <2>5. ASSUME NEW r \in Rows, NEW v \in Clients, r \notin ghost'.overlapped, Writing(v, r)'
        PROVE  /\ \A x \in Clients : Writing(x, r)' => x = v
               /\ \A u \in upkeep' : u.row = r => Deciding(v)'
    <3>1. CASE r = r0
      <4>1. /\ \A x \in Clients \ {w} : ~Writing(x, r)
            /\ \A u \in upkeep : u.row # r
        BY <2>1, <2>5, <3>1, NotBusy
      <4>2. QED
        BY <1>6, <2>5, <4>1, OthersStay
    <3>2. CASE r # r0
      BY <1>2, <1>6, <2>2, <2>5, <3>2, OthersStay DEF OneWriter
    <3>3. QED
      BY <3>1, <3>2
  <2>6. ASSUME NEW r \in Rows, NEW v \in Clients, ~LetOff(r)', Writing(v, r)', flights'[v].ring # <<>>
        PROVE  flights'[v].before = row'[r]
    <3>1. CASE v = w
      <4>1. r = r0 /\ flights[w].ring # <<>> /\ ~LetOff(r)
        BY <1>1, <1>6, <2>2, <2>6, <3>1 DEF Keeps
      <4>2. flights[w].pc = "read" => flights[w].before = row[r0]
        BY <4>1, ReadIsSo
      <4>3. QED
        BY <1>6, <3>1, <4>1, <4>2
    <3>2. CASE v # w
      BY <1>1, <1>6, <2>6, <3>2, OthersStay DEF OneWriter, Only
    <3>3. QED
      BY <3>1, <3>2
  <2>7. QED
    BY <2>4, <2>5, <2>6 DEF OneWriter
<1>7. ASSUME NEW w \in Clients, Execute(w)
      PROVE  OneWriter'
  <2> DEFINE r0 == flights[w].row
  <2>1. flights' = Done(w) /\ Ready(w) /\ flights[w].pc \in Live /\ ~Deciding(w)
    BY <1>7 DEF Execute, Ready, Live, Deciding
  <2>2. Only(w) /\ flights'[w].pc = "done" /\ r0 \in Rows
    BY <2>1, FlightEffect DEF CallTypes
  <2>3. CASE UNCHANGED <<row, upkeep>>
    BY <1>5, <2>1, <2>3
  <2>4. CASE ~(RowLocked(r0) \/ ~Affects(w))
    <3>1. /\ row' = [row EXCEPT ![r0] = After(w)] /\ upkeep' = upkeep \cup Deltas(w)
          /\ ghost' = Unseen(w, Overlap(w))
      BY <1>7, <2>4 DEF Execute
    <3>2. r0 \notin ghost'.overlapped =>
            (\A v \in Clients \ {w} : ~Writing(v, r0)) /\ \A u \in upkeep : u.row # r0
      <4>1. ghost \in Ghost
        BY DEF StoredTypes
      <4>2. r0 \notin ghost'.overlapped => ~Busy(r0, w)
        BY <2>2, <3>1, <4>1 DEF Unseen, Overlap, Ghost
      <4>3. QED
        BY <4>2, NotBusy
    <3>3. ~Deciding(w)' /\ \A r : ~Writing(w, r)'
      BY <2>2 DEF Deciding, Writing
    <3>4. \A u \in upkeep' : u \in upkeep \/ (u.row = r0 /\ (u.del => u.key # After(w)))
      <4>1. \A u \in Deltas(w) : u.row = r0 /\ (u.del => u.key # After(w))
        BY <2>1, DeltasAre
      <4>2. QED
        BY <3>1, <4>1
    <3>5. row \in [Rows -> Values] /\ \A u \in upkeep : u.row \in Rows
      BY DEF StoredTypes, CallTypes, Write
    <3>6. /\ \A v \in Clients : flights'[v].pc \in {"prepared", "committing"} => IsTx(v)'
          /\ \A r \in Rows, v \in Clients : r \notin ghost'.overlapped /\ Writing(v, r)' =>
                /\ \A x \in Clients : Writing(x, r)' => x = v
                /\ \A u \in upkeep' : u.row = r => Deciding(v)'
      BY <1>2, <2>2, <3>2, <3>3, <3>4, OthersStay DEF OneWriter, Only
    <3>7. ASSUME NEW r \in Rows, NEW v \in Clients, ~LetOff(r)', Writing(v, r)', flights'[v].ring # <<>>
          PROVE  flights'[v].before = row'[r]
      <4>1. v # w /\ flights'[v] = flights[v] /\ Writing(v, r) /\ ~LetOff(r)
        BY <1>1, <2>2, <3>3, <3>7, OthersStay DEF Only
      <4>2. r # r0
        BY <3>2, <3>7, <4>1 DEF LetOff
      <4>3. QED
        BY <3>1, <3>5, <3>7, <4>1, <4>2 DEF OneWriter
    <3>8. ASSUME NEW u \in upkeep', u.del, ~LetOff(u.row)', Due(u.row, u.key)'
          PROVE  FALSE
      <4>1. CASE u.row = r0
        <5>1. /\ \A v \in Clients \ {w} : ~Writing(v, r0)
              /\ u.key # After(w)
          BY <3>2, <3>4, <3>8, <4>1 DEF LetOff
        <5>2. \A v \in Clients : flights'[v].row = r0 => ~Deciding(v)'
          BY <2>2, <3>3, <5>1, OthersStay DEF Only, Writing, Deciding
        <5>3. row'[r0] = u.key
          BY <3>8, <4>1, <5>2 DEF Due
        <5>4. QED
          BY <2>2, <3>1, <3>5, <5>1, <5>3
      <4>2. CASE u.row # r0
        <5>1. u \in upkeep /\ u.row \in Rows /\ ~LetOff(u.row)
          BY <1>1, <3>4, <3>5, <3>8, <4>2
        <5>2. row'[u.row] = row[u.row]
          BY <3>1, <3>5, <4>2, <5>1
        <5>3. Due(u.row, u.key)
          BY <2>1, <2>2, <3>3, <3>8, <5>2, OthersStay DEF Due, Only
        <5>4. QED
          BY <3>8, <5>1, <5>3 DEF OneWriter
      <4>3. QED
        BY <4>1, <4>2
    <3>9. QED
      BY <3>6, <3>7, <3>8 DEF OneWriter
  <2>5. QED
    BY <1>7, <2>3, <2>4 DEF Execute
<1>8. ASSUME NEW w \in Clients, ExecuteUnanswered(w)
      PROVE  OneWriter'
  <2> DEFINE r0 == flights[w].row
  <2>1. /\ flights' = Done(w) /\ flights[w].pc \in Live /\ ~Deciding(w) /\ UNCHANGED upkeep
        /\ row' = [row EXCEPT ![r0] = After(w)]
        /\ ghost' = [ghost EXCEPT !.lost = @ \cup {r0}]
    BY <1>8 DEF ExecuteUnanswered, Ready, Live, Deciding
  <2>2. Only(w) /\ flights'[w].pc = "done" /\ \A r : r = r0 => LetOff(r)'
    <3>1. Only(w) /\ flights'[w].pc = "done"
      BY <2>1, FlightEffect
    <3>2. r0 \in ghost'.lost
      BY <2>1 DEF StoredTypes, Ghost
    <3>3. QED
      BY <3>1, <3>2 DEF LetOff
  <2>3. ~Deciding(w)' /\ \A r : ~Writing(w, r)'
    BY <2>2 DEF Deciding, Writing
  <2>4. row \in [Rows -> Values]
    BY DEF StoredTypes
  <2>5. \A r : LetOff(r)' \/ r # r0
    BY <2>2
  <2>6. \A r \in Rows \ {r0} : row'[r] = row[r]
    BY <2>1, <2>4
  <2>7. ASSUME NEW u \in upkeep', u.del, ~LetOff(u.row)', Due(u.row, u.key)'
        PROVE  FALSE
    <3>1. u \in upkeep /\ u.row \in Rows \ {r0} /\ ~LetOff(u.row)
      BY <1>1, <2>1, <2>5, <2>7 DEF CallTypes, Write
    <3>2. Due(u.row, u.key)
      BY <2>1, <2>2, <2>3, <2>6, <2>7, <3>1, OthersStay DEF Due, Only
    <3>3. QED
      BY <2>7, <3>1, <3>2 DEF OneWriter
  <2>8. ASSUME NEW r \in Rows, NEW v \in Clients, ~LetOff(r)', Writing(v, r)', flights'[v].ring # <<>>
        PROVE  flights'[v].before = row'[r]
    <3>1. v # w /\ flights'[v] = flights[v] /\ Writing(v, r) /\ ~LetOff(r) /\ r # r0
      BY <1>1, <2>2, <2>3, <2>5, <2>8, OthersStay DEF Only
    <3>2. QED
      BY <2>6, <2>8, <3>1 DEF OneWriter
  <2>9. /\ \A v \in Clients : flights'[v].pc \in {"prepared", "committing"} => IsTx(v)'
        /\ \A r \in Rows, v \in Clients : r \notin ghost'.overlapped /\ Writing(v, r)' =>
              /\ \A x \in Clients : Writing(x, r)' => x = v
              /\ \A u \in upkeep' : u.row = r => Deciding(v)'
    BY <1>2, <2>1, <2>2, <2>3, OthersStay DEF OneWriter, Only
  <2>10. QED
    BY <2>7, <2>8, <2>9 DEF OneWriter
<1>9. ASSUME NEW w \in Clients, Prepare(w)
      PROVE  OneWriter'
  <2>1. Ready(w) /\ IsTx(w) /\ ~Deciding(w) /\ flights[w].pc \in Live /\ UNCHANGED <<row, upkeep>>
        /\ ghost' = Overlap(w)
    BY <1>9 DEF Prepare, Ready, Deciding, Live, shardVars
  <2>2. CASE flights' = Done(w)
    BY <1>5, <2>1, <2>2
  <2>3. CASE flights' = [flights EXCEPT ![w].pc = "prepared"]
    <3>1. /\ Only(w) /\ Keeps(w) /\ flights'[w].pc = "prepared"
          /\ flights'[w].before = flights[w].before
      BY <2>3, FlightEffect
    <3>2. flights[w].op # "insert"
      BY <2>1 DEF IsTx
    <3>3. flights[w].ring = <<>> \/ flights[w].pc = "read"
      BY <2>1, <3>2 DEF Ready, NeedsPreRead, Ring
    <3>4. ~Deciding(w)'
      BY <3>1 DEF Deciding
    <3>5. QED
      BY <1>6, <2>1, <3>1, <3>3, <3>4
  <2>4. QED
    BY <1>9, <2>2, <2>3 DEF Prepare
<1>10. ASSUME NEW w \in Clients, PreRead(w)
       PROVE  OneWriter'
  <2>1. /\ Only(w) /\ Keeps(w) /\ flights'[w].pc = "read"
        /\ flights'[w].before = row[flights[w].row]
    BY <1>10, FlightEffect
  <2>2. flights[w].pc \in Live /\ ~Deciding(w) /\ UNCHANGED <<row, upkeep>> /\ ghost' = Overlap(w)
    BY <1>10 DEF PreRead, Live, Deciding, shardVars
  <2>3. ~Deciding(w)'
    BY <2>1 DEF Deciding
  <2>4. QED
    BY <1>6, <2>1, <2>2, <2>3
<1>11. ASSUME NEW w \in Clients, AbortTx(w)
       PROVE  OneWriter'
  <2>1. flights' = Done(w) /\ ~Deciding(w) /\ UNCHANGED <<row, upkeep>>
    BY <1>11 DEF AbortTx, Deciding, shardVars
  <2>2. QED
    BY <1>5, <2>1
<1>12. ASSUME NEW w \in Clients, CommitTx(w)
       PROVE  OneWriter'
  <2> DEFINE r0 == flights[w].row
  <2>1. /\ flights' = [flights EXCEPT ![w].pc = "committing"] /\ flights[w].pc = "prepared"
        /\ upkeep' = upkeep \cup Intents(w) /\ UNCHANGED <<row, ghost>>
    BY <1>12 DEF CommitTx, shardVars
  <2>2. /\ Only(w) /\ Keeps(w) /\ flights'[w].pc = "committing"
        /\ flights'[w].before = flights[w].before /\ IsTx(w) /\ r0 \in Rows
    BY <2>1, FlightEffect DEF OneWriter, CallTypes, Live
  <2>3. After(w)' = After(w) /\ IsTx(w)'
    BY <2>2, KeptStays
  <2>4. \A u \in upkeep' : u \in upkeep \/ /\ u.row = r0 /\ flights[w].ring # <<>>
                                           /\ u.del => u.key # After(w)
    <3>1. flights[w].pc \in Live
      BY <2>1 DEF Live
    <3>2. QED
      BY <2>1, <2>2, <3>1, DeltasAre DEF Intents
  <2>5. Writing(w, r0) /\ ~Deciding(w) /\ \A r : Writing(w, r)' <=> r = r0
    BY <2>1, <2>2 DEF Writing, Deciding, Keeps
  <2>6. Deciding(w)' <=> flights[w].ring # <<>>
    BY <2>2 DEF Deciding, Keeps
  <2>7. r0 \notin ghost.overlapped =>
          (\A v \in Clients \ {w} : ~Writing(v, r0)) /\ \A u \in upkeep : u.row # r0
    BY <2>2, <2>5 DEF OneWriter
  <2>8. \A r : LetOff(r)' <=> LetOff(r)
    BY <2>1 DEF LetOff
  <2>9. /\ \A v \in Clients : flights'[v].pc \in {"prepared", "committing"} => IsTx(v)'
        /\ \A r \in Rows, v \in Clients : ~LetOff(r)' /\ Writing(v, r)' /\ flights'[v].ring # <<>> =>
              flights'[v].before = row'[r]
    <3>1. \A v \in Clients : flights'[v].pc \in {"prepared", "committing"} => IsTx(v)'
      BY <2>2, <2>3, OthersStay DEF OneWriter, Only
    <3>2. \A r \in Rows, v \in Clients \ {w} :
            ~LetOff(r)' /\ Writing(v, r)' /\ flights'[v].ring # <<>> => flights'[v].before = row'[r]
      BY <2>1, <2>2, <2>8, OthersStay DEF OneWriter, Only
    <3>3. \A r \in Rows : ~LetOff(r)' /\ Writing(w, r)' /\ flights'[w].ring # <<>> =>
            flights'[w].before = row'[r]
      BY <2>1, <2>2, <2>5, <2>8 DEF OneWriter, Keeps
    <3>4. QED
      BY <3>1, <3>2, <3>3
  <2>10. \A r \in Rows, v \in Clients : r \notin ghost'.overlapped /\ Writing(v, r)' =>
           /\ \A x \in Clients : Writing(x, r)' => x = v
           /\ \A u \in upkeep' : u.row = r => Deciding(v)'
    BY <2>1, <2>2, <2>4, <2>5, <2>6, <2>7, OthersStay DEF OneWriter, Only
  <2>11. ASSUME NEW u \in upkeep', u.del, ~LetOff(u.row)', Due(u.row, u.key)'
         PROVE  FALSE
    <3>1. CASE u.row = r0
      <4>1. /\ \A v \in Clients \ {w} : ~Writing(v, r0)
            /\ Deciding(w)' /\ u.key # After(w)
        BY <2>4, <2>6, <2>7, <2>8, <2>11, <3>1 DEF LetOff
      <4>2. \A v \in Clients \ {w} : flights'[v].row = r0 => ~Deciding(v)'
        BY <2>2, <4>1, OthersStay DEF Only, Writing, Deciding
      <4>3. flights'[w].row = r0
        BY <2>2 DEF Keeps
      <4>4. After(w)' = u.key
        BY <2>11, <3>1, <4>1, <4>2, <4>3 DEF Due
      <4>5. QED
        BY <2>3, <4>1, <4>4
    <3>2. CASE u.row # r0
      <4>1. u \in upkeep
        BY <2>4, <2>11, <3>2
      <4>2. Due(u.row, u.key)
        BY <2>1, <2>2, <2>11, <3>2, OthersStay DEF Due, Only, Keeps
      <4>3. QED
        BY <2>8, <2>11, <4>1, <4>2 DEF OneWriter
    <3>3. QED
      BY <3>1, <3>2
  <2>12. QED
    BY <2>9, <2>10, <2>11 DEF OneWriter
<1>13. ASSUME NEW w \in Clients, CommitRow(w)
       PROVE  OneWriter'
  <2> DEFINE r0 == flights[w].row
  <2>1. /\ flights' = Done(w) /\ flights[w].pc = "committing" /\ UNCHANGED upkeep
        /\ row' = [row EXCEPT ![r0] = After(w)]
    BY <1>13 DEF CommitRow
  <2>2. Only(w) /\ flights'[w].pc = "done" /\ r0 \in Rows /\ Writing(w, r0)
    BY <2>1, FlightEffect DEF CallTypes, Live, Writing
  <2>3. ~Deciding(w)' /\ \A r : ~Writing(w, r)'
    BY <2>2 DEF Deciding, Writing
  <2>4. row \in [Rows -> Values] /\ \A u \in upkeep : u.row \in Rows
    BY DEF StoredTypes, CallTypes, Write
  <2>5. r0 \notin ghost.overlapped => \A v \in Clients \ {w} : ~Writing(v, r0)
    BY <2>2 DEF OneWriter
  <2>6. /\ \A v \in Clients : flights'[v].pc \in {"prepared", "committing"} => IsTx(v)'
        /\ \A r \in Rows, v \in Clients : r \notin ghost'.overlapped /\ Writing(v, r)' =>
              /\ \A x \in Clients : Writing(x, r)' => x = v
              /\ \A u \in upkeep' : u.row = r => Deciding(v)'
    BY <1>2, <2>1, <2>2, <2>3, OthersStay DEF OneWriter, Only
  <2>7. ASSUME NEW r \in Rows, NEW v \in Clients, ~LetOff(r)', Writing(v, r)', flights'[v].ring # <<>>
        PROVE  flights'[v].before = row'[r]
    <3>1. v # w /\ flights'[v] = flights[v] /\ Writing(v, r) /\ ~LetOff(r)
      BY <1>1, <2>2, <2>3, <2>7, OthersStay DEF Only
    <3>2. r # r0
      BY <2>5, <3>1 DEF LetOff
    <3>3. QED
      BY <2>1, <2>4, <2>7, <3>1, <3>2 DEF OneWriter
  <2>8. ASSUME NEW u \in upkeep', u.del, ~LetOff(u.row)', Due(u.row, u.key)'
        PROVE  FALSE
    <3>1. u \in upkeep /\ u.row \in Rows /\ ~LetOff(u.row)
      BY <1>1, <2>1, <2>4, <2>8
    <3>2. CASE u.row = r0
      <4>1. Deciding(w)
        BY <2>2, <3>1, <3>2 DEF OneWriter, LetOff
      <4>2. \A v \in Clients : flights'[v].row = r0 => ~Deciding(v)'
        BY <2>2, <2>3, <2>5, <3>1, <3>2, OthersStay DEF Only, Writing, Deciding, LetOff
      <4>3. row'[r0] = u.key
        BY <2>8, <3>2, <4>2 DEF Due
      <4>4. Due(u.row, u.key)
        BY <2>1, <2>2, <2>4, <3>2, <4>1, <4>3 DEF Due
      <4>5. QED
        BY <2>8, <3>1, <4>4 DEF OneWriter
    <3>3. CASE u.row # r0
      <4>1. row'[u.row] = row[u.row]
        BY <2>1, <2>4, <3>1, <3>3
      <4>2. Due(u.row, u.key)
        BY <2>2, <2>3, <2>8, <3>3, <4>1, OthersStay DEF Due, Only
      <4>3. QED
        BY <2>8, <3>1, <4>2 DEF OneWriter
    <3>4. QED
      BY <3>2, <3>3
  <2>9. QED
    BY <2>6, <2>7, <2>8 DEF OneWriter
<1>14. QED
  BY <1>3, <1>4, <1>7, <1>8, <1>9, <1>10, <1>11, <1>12, <1>13 DEF Client

-----------------------------------------------------------------------------
(* The lock, the gateway's call and the backfill.                          *)

\* Setting a ring changes no status.
LEMMA SetRingStatus ==
  ASSUME StoredTypes, NEW c \in Catalogs, NEW shadow, SetRing(c, shadow)
  PROVE  \A d \in Catalogs : rule'[d].status = rule[d].status
<1>1. rule \in [Catalogs -> Rule]
  BY DEF StoredTypes
<1>2. CASE rule' = rule
  BY <1>2
<1>3. CASE rule' = [rule EXCEPT ![c].ring = mover.ring, ![c].shadow = shadow]
  <2>1. rule' = [rule EXCEPT ![c] = [rule[c] EXCEPT !.ring = mover.ring, !.shadow = shadow]]
    BY <1>1, <1>3
  <2>2. [rule[c] EXCEPT !.ring = mover.ring, !.shadow = shadow].status = rule[c].status
    BY <1>1 DEF Rule
  <2>3. QED
    BY <1>1, <2>1, <2>2
<1>4. QED
  BY <1>2, <1>3 DEF SetRing

\* Nor does a step of the fans.
LEMMA FansKeepStatus ==
  ASSUME StoredTypes, NEW c \in Catalogs, FanRepoint(c) \/ FanUnshadow(c)
  PROVE  \A d \in Catalogs : rule'[d].status = rule[d].status
BY SetRingStatus DEF FanRepoint, FanUnshadow

\* A call's lock is no older than the call.
LEMMA OpsTrueStep ==
  ASSUME RingInv, OpsTrue, [Next]_vars, StoredTypes', CallTypes'
  PROVE  OpsTrue'
<1> USE BoundsAreNat
<1>1. /\ StoredTypes /\ CallTypes /\ RulesTrue
      /\ rule \in [Catalogs -> Rule] /\ fill \in FillRow /\ lock \in 0 .. MaxOps
      /\ used \in [ops : 0 .. MaxOps, faults : Nat] /\ gateway \in Call
      /\ leave \in [draining : BOOLEAN, op : 0 .. MaxOps,
                    substitute : (Shards \ {Leaving}) \cup {NoShard}]
  BY DEF RingInv, StoredTypes, CallTypes
<1>2. /\ gateway.op \in 0 .. MaxOps /\ fill.op \in 0 .. MaxOps /\ used.ops \in 0 .. MaxOps
      /\ leave.op \in 0 .. MaxOps
  BY <1>1 DEF Call, FillRow
<1>3. CASE UNCHANGED <<rule, fill, lock, gateway, used>>
  BY <1>3 DEF OpsTrue, FillLive, Registered
<1>4. CASE Client \/ Upkeep \/ Query \/ UNCHANGED vars
  <2>1. UNCHANGED <<rule, fill, lock, gateway>> /\ used'.ops = used.ops
    <3>1. CASE Upkeep
      BY <1>1, <3>1
      DEF Upkeep, Deliver, Resolve, Fails, Unanswered, Lose, catalogVars, handlerVars
    <3>2. CASE Client
      BY <1>1, <3>2
      DEF Client, Route, PreRead, Execute, ExecuteUnanswered, Prepare, AbortTx, CommitTx, CommitRow,
          catalogVars, handlerVars
    <3>3. CASE Query \/ UNCHANGED vars
      BY <3>3
      DEF Query, QueryLookup, QueryRing, QueryShadow, QueryAnswer, vars, catalogVars, handlerVars
    <3>4. QED
      BY <1>4, <3>1, <3>2, <3>3
  <2>2. QED
    BY <2>1 DEF OpsTrue, FillLive, Registered
<1>6. CASE Mover
  <2>1. UNCHANGED <<gateway, fill>>
    BY <1>6, DrainFrame
  <2>0. CASE \/ MoveFences \/ MoveMarks \/ MoveResumes \/ MoveRepoints \/ MoveFlushes
             \/ MoveExports \/ MoveImports \/ MoveConverges \/ MoveDeletes
    <3>1. CASE MoveFences \/ MoveMarks \/ MoveResumes \/ MoveRepoints \/ MoveFlushes
      BY <3>1, <1>3 DEF MoveFences, MoveMarks, MoveResumes, MoveRepoints, MoveFlushes, moveFrame
    <3>2. CASE MoveExports
      BY <3>2, <1>3 DEF MoveExports, moveFrame
    <3>3. CASE MoveImports \/ MoveConverges
      BY <3>3, <1>3 DEF MoveImports, MoveConverges, moveFrame
    <3>4. CASE MoveDeletes
      BY <3>4, <1>3 DEF MoveDeletes, moveFrame
    <3>5. QED
      BY <2>0, <3>1, <3>2, <3>3, <3>4
  <2>2. CASE \/ StartDrain \/ MoveFlushesBlind \/ MoveEnds \/ MoveStops
             \/ \E c \in Catalogs : FanRepoint(c) \/ FanUnshadow(c)
    <3>1. /\ used'.ops \in {used.ops, used.ops + 1}
          /\ lock' \in {lock, NoOp} \/ (lock' = used.ops + 1 /\ used'.ops = used.ops + 1)
      <4>1. CASE StartDrain
        BY <1>1, <4>1 DEF StartDrain, Take, NextOp
      <4>2. CASE MoveFlushesBlind \/ MoveStops
        BY <1>1, <4>2 DEF MoveFlushesBlind, MoveStops
      <4>3. CASE MoveEnds
        BY <4>3 DEF MoveEnds, Drop
      <4>4. CASE \E c \in Catalogs : FanRepoint(c) \/ FanUnshadow(c)
        BY <4>4 DEF FanRepoint, FanUnshadow
      <4>5. QED
        BY <2>2, <4>1, <4>2, <4>3, <4>4
    <3>2. /\ \A c \in Catalogs : Registered(c)' <=> Registered(c)
          /\ rule'[Zero].status = rule[Zero].status
      <4>1. CASE \E c \in Catalogs : FanRepoint(c) \/ FanUnshadow(c)
        BY <1>1, <4>1, FansKeepStatus DEF Registered
      <4>2. CASE StartDrain \/ MoveFlushesBlind \/ MoveEnds \/ MoveStops
        BY <4>2 DEF StartDrain, MoveFlushesBlind, MoveEnds, MoveStops, Registered
      <4>3. QED
        BY <2>2, <4>1, <4>2
    <3>3. FillLive' => FillLive
      BY <1>2, <2>1, <3>1 DEF FillLive, OpsTrue, NoOp
    <3>4. QED
      BY <1>1, <1>2, <2>1, <3>1, <3>2, <3>3 DEF OpsTrue, NoOp
  <2>3. QED
    BY <1>6, <2>0, <2>2 DEF Mover
<1>7. CASE Filler
  <2>1. UNCHANGED gateway /\ used'.ops = used.ops /\ lock' \in {lock, NoOp}
    <3>1. gateway' = gateway
      BY <1>7 DEF Filler, FillScan, FillRefresh, FillWrite, FillPageEnds, FillEnds, MarkReady,
                  FillFails, FillStops, fillFrame
    <3>2. used'.ops = used.ops
      BY <1>1, <1>7 DEF Filler, FillScan, FillRefresh, FillWrite, FillPageEnds, FillEnds, MarkReady,
                        FillFails, FillStops
    <3>3. lock' \in {lock, NoOp}
      BY <1>7 DEF Filler, FillScan, FillRefresh, FillWrite, FillPageEnds, FillEnds, MarkReady,
                  FillFails, FillStops, Drop
    <3>4. QED
      BY <3>1, <3>2, <3>3
  <2>2. /\ fill' = NoFill \/ (fill'.op \in {fill.op, NoOp} /\ fill'.on = fill.on)
        /\ \A c \in Catalogs : Registered(c)' <=> Registered(c)
        /\ fill'.on /\ rule'[Zero].status = "building" =>
             /\ fill'.op = fill.op /\ fill.on /\ rule[Zero].status = "building"
        /\ ~Registered(Zero) => ~fill'.on /\ fill'.op = NoOp
    <3>1. CASE \E c \in Catalogs : MarkReady(c)
      <4>1. PICK c \in Catalogs : MarkReady(c)
        BY <3>1
      <4>2. \A d \in Catalogs : \/ rule'[d].status = rule[d].status
                                \/ Registered(d) /\ rule'[d].status = "ready"
        <5>1. CASE rule' = rule
          BY <5>1
        <5>2. CASE Registered(c) /\ rule' = [rule EXCEPT ![c].status = "ready"]
          <6>1. rule' = [rule EXCEPT ![c] = [rule[c] EXCEPT !.status = "ready"]]
            BY <1>1, <5>2
          <6>2. [rule[c] EXCEPT !.status = "ready"].status = "ready"
            BY <1>1 DEF Rule
          <6>3. QED
            BY <1>1, <5>2, <6>1, <6>2
        <5>3. QED
          BY <4>1, <5>1, <5>2 DEF MarkReady, Readied
      <4>3. /\ \A d \in Catalogs : Registered(d)' <=> Registered(d)
            /\ rule'[Zero].status = "building" => rule[Zero].status = "building"
        BY <4>2 DEF Registered
      <4>4. fill' = NoFill \/ fill' = fill
        BY <4>1 DEF MarkReady
      <4>5. ~Registered(Zero) => ~fill.on /\ fill.op = NoOp
        BY DEF OpsTrue
      <4>6. QED
        BY <4>3, <4>4, <4>5 DEF NoFill
    <3>2. CASE FillFails
      <4>1. /\ rule' = IF Registered(Zero) THEN [rule EXCEPT ![Zero].status = "failed"] ELSE rule
            /\ fill' = [fill EXCEPT !.op = NoOp]
        BY <3>2 DEF FillFails
      <4>2. /\ \A d \in Catalogs : Registered(d)' <=> Registered(d)
            /\ rule'[Zero].status # "building"
        <5>1. CASE ~Registered(Zero)
          BY <4>1, <5>1 DEF Registered
        <5>2. CASE Registered(Zero)
          <6>1. rule' = [rule EXCEPT ![Zero] = [rule[Zero] EXCEPT !.status = "failed"]]
            BY <1>1, <4>1, <5>2
          <6>2. [rule[Zero] EXCEPT !.status = "failed"].status = "failed"
            BY <1>1 DEF Rule
          <6>3. QED
            BY <1>1, <5>2, <6>1, <6>2 DEF Registered
        <5>3. QED
          BY <5>1, <5>2
      <4>3. fill'.op = NoOp /\ fill'.on = fill.on
        BY <1>1, <4>1 DEF FillRow
      <4>4. ~Registered(Zero) => ~fill.on /\ fill.op = NoOp
        BY DEF OpsTrue
      <4>5. QED
        BY <4>2, <4>3, <4>4
    <3>3. CASE FillScan \/ FillPageEnds
      <4>1. /\ UNCHANGED rule
            /\ \/ fill' = fill
               \/ /\ Registered(Zero)
                  /\ \/ fill' = [fill EXCEPT !.past = TRUE, !.at = 0]
                     \/ fill' = [fill EXCEPT !.at = filler.last]
        BY <3>3 DEF FillScan, FillDue, FillPageEnds, Registered
      <4>2. /\ fill'.op = fill.op /\ fill'.on = fill.on
            /\ fill' = fill \/ Registered(Zero)
        BY <1>1, <4>1 DEF FillRow
      <4>3. ~Registered(Zero) => ~fill.on /\ fill.op = NoOp
        BY DEF OpsTrue
      <4>4. QED
        BY <4>1, <4>2, <4>3 DEF Registered
    <3>4. CASE UNCHANGED <<rule, fill>>
      BY <3>4 DEF Registered, OpsTrue
    <3>5. QED
      BY <1>7, <3>1, <3>2, <3>3, <3>4 DEF Filler, FillRefresh, FillWrite, FillEnds, FillStops
  <2>3. fill'.op \in {fill.op, NoOp} /\ (FillLive' => FillLive)
    BY <1>2, <2>1, <2>2 DEF FillLive, NoFill, NoOp
  <2>4. QED
    BY <1>1, <1>2, <2>1, <2>2, <2>3 DEF OpsTrue, NoOp
<1>8. CASE Gateway
  <2>1. CASE CreateBegins \/ DropBegins
    <3>1. /\ gateway.kind = "none" /\ lock' = used.ops + 1 /\ used'.ops = used.ops + 1
          /\ gateway'.op = used.ops + 1 /\ UNCHANGED <<rule, fill>>
          /\ \/ gateway'.kind = "create" /\ gateway'.pc = "list"
             \/ gateway'.kind = "drop" /\ gateway'.pc = "unregister" /\ gateway'.todo = Catalogs
      BY <1>1, <2>1 DEF CreateBegins, DropBegins, Take, NextOp, NoCall
    <3>2. ~FillLive'
      BY <1>2, <3>1 DEF FillLive, OpsTrue
    <3>3. QED
      BY <1>1, <1>2, <3>1, <3>2 DEF OpsTrue, Registered, NoOp
  <2>2. CASE CreateVerifies
    <3>1. /\ gateway'.op = gateway.op /\ gateway'.kind = gateway.kind /\ gateway.kind = "create"
          /\ gateway'.pc = "register" /\ gateway'.ring # <<>>
          /\ UNCHANGED <<rule, fill, lock, used>>
      BY <1>1, <2>2 DEF CreateVerifies, catalogVars, Call
    <3>2. QED
      BY <3>1 DEF OpsTrue, Registered, FillLive
  <2>3. ASSUME NEW c \in Catalogs, Register(c)
        PROVE  OpsTrue'
    <3>1. /\ gateway'.op = gateway.op /\ gateway'.kind = gateway.kind /\ gateway.kind = "create"
          /\ gateway'.pc \in {"register", "start"} /\ gateway'.ring = gateway.ring
          /\ gateway.pc = "register"
          /\ UNCHANGED <<fill, lock, used>>
      BY <1>1, <2>3 DEF Register, Call
    <3>2. /\ \A d \in Catalogs : Registered(d) => Registered(d)'
          /\ rule'[Zero] = rule[Zero] \/ ~Registered(Zero)
      BY <1>1, <2>3 DEF Register, Registered, NoRule, Rule
    <3>3. FillLive' <=> FillLive
      BY <3>1 DEF FillLive
    <3>4. QED
      BY <3>1, <3>2, <3>3 DEF OpsTrue, Registered, NoFill
  <2>4. CASE StartBackfill
    <3>1. gateway.kind = "create" /\ gateway.pc = "start" /\ gateway' = NoCall /\ UNCHANGED used
          /\ lock' \in {lock, NoOp}
      BY <2>4 DEF StartBackfill, Drop
    <3>2. \A c \in Catalogs : Registered(c)
      BY <1>1, <3>1 DEF RulesTrue
    <3>3. \A c \in Catalogs : Registered(c)'
      BY <1>1, <2>4, <3>2 DEF StartBackfill, Registered, Rule
    <3>4. CASE UNCHANGED <<rule, fill>>
      <4>1. FillLive' => FillLive
        BY <1>2, <3>1, <3>4 DEF FillLive, NoOp
      <4>2. QED
        BY <1>2, <3>1, <3>3, <3>4, <4>1 DEF OpsTrue, NoCall, Registered, NoOp
    <3>5. CASE fill' = [on |-> TRUE, past |-> FALSE, at |-> 0, op |-> gateway.op]
      BY <1>2, <3>1, <3>3, <3>5 DEF OpsTrue, NoCall, NoOp
    <3>6. QED
      BY <2>4, <3>4, <3>5 DEF StartBackfill
  <2>5. ASSUME NEW c \in Catalogs, Unregister(c)
        PROVE  OpsTrue'
    <3>1. /\ gateway.kind = "drop" /\ gateway.pc = "unregister" /\ c \in gateway.todo
          /\ gateway'.op = gateway.op /\ gateway'.kind = gateway.kind
          /\ \/ gateway'.pc = "unregister" /\ gateway'.todo = gateway.todo \ {c}
             \/ gateway'.pc = "clean" /\ gateway.todo = {c}
          /\ UNCHANGED <<lock, used>> /\ fill' = IF c = Zero THEN NoFill ELSE fill
      BY <1>1, <2>5 DEF Unregister, Call
    <3>2. /\ ~Registered(c)' /\ \A d \in Catalogs \ {c} : rule'[d] = rule[d] /\ (Registered(d)' <=> Registered(d))
      BY <1>1, <2>5, UnregisterEffect
    <3>3. ~FillLive'
      BY <1>2, <3>1 DEF FillLive, OpsTrue, NoFill, NoOp
    <3>4. /\ fill'.op \in {fill.op, NoOp} /\ (fill'.on => fill' = fill /\ c # Zero)
          /\ ~Registered(Zero)' => ~fill'.on /\ fill'.op = NoOp
      BY <3>1, <3>2 DEF NoFill, OpsTrue
    <3>5. QED
      BY <1>2, <3>1, <3>2, <3>3, <3>4 DEF OpsTrue, NoOp
  <2>6. CASE (\E s \in Shards : CleanShard(s)) \/ GatewayStops \/ LeaseLapses
    <3>1. /\ UNCHANGED <<rule, fill>> /\ used'.ops = used.ops /\ lock' \in {lock, NoOp}
          /\ \/ gateway' = NoCall
             \/ /\ gateway'.kind = gateway.kind /\ gateway'.pc = gateway.pc /\ gateway'.op = gateway.op
                /\ gateway'.ring = gateway.ring
                /\ gateway'.todo = gateway.todo \/ gateway.pc = "clean"
      BY <1>1, <2>6 DEF CleanShard, GatewayStops, LeaseLapses, Drop, Call, handlerVars
    <3>2. FillLive' => FillLive
      BY <1>2, <3>1 DEF FillLive, NoOp
    <3>3. QED
      BY <1>2, <3>1, <3>2 DEF OpsTrue, NoCall, Registered, NoOp
  <2>7. CASE \E s \in Shards : AddShard(s)
    <3>1. UNCHANGED <<rule, fill, lock, gateway>> /\ used'.ops = used.ops + 1
      BY <1>1, <2>7 DEF AddShard, handlerVars
    <3>2. (FillLive' <=> FillLive) /\ \A c : Registered(c)' <=> Registered(c)
      BY <3>1 DEF FillLive, Registered
    <3>3. QED
      BY <1>1, <1>2, <3>1, <3>2 DEF OpsTrue
  <2>8. QED
    BY <1>8, <2>1, <2>2, <2>3, <2>4, <2>5, <2>6, <2>7 DEF Gateway
<1>9. QED
  BY <1>4, <1>6, <1>7, <1>8 DEF Next

-----------------------------------------------------------------------------
(* Rings that differ by the substitute.                                    *)

\* What a ring is with another shard in the place of the one that leaves.
LEMMA SwapIs ==
  ASSUME NEW ring \in Seq(Shards), NEW s \in Shards \ {Leaving}
  PROVE  /\ Swap(ring, s) \in Seq(Shards) /\ ~InRing(Leaving, Swap(ring, s))
         /\ Swap(ring, s) = <<>> <=> ring = <<>>
         /\ ~InRing(Leaving, ring) => Swap(ring, s) = ring
         /\ ring # <<>> => \A k \in Keys :
              Place(k, Swap(ring, s)) = IF Place(k, ring) = Leaving THEN s ELSE Place(k, ring)
<1>1. ring \in [1 .. Len(ring) -> Shards] /\ Len(ring) \in Nat /\ DOMAIN ring = 1 .. Len(ring)
  BY LenProperties
<1>2. Swap(ring, s) \in Seq(Shards) /\ ~InRing(Leaving, Swap(ring, s))
  BY Repointed DEF Swap
<1>3. Swap(ring, s) \in [1 .. Len(ring) -> Shards]
  BY <1>1 DEF Swap
<1>4. Len(Swap(ring, s)) = Len(ring)
  BY <1>1, <1>2, <1>3, LenProperties
<1>5. Swap(ring, s) = <<>> <=> ring = <<>>
  BY <1>2, <1>4, EmptySeq, LenProperties
<1>6. ASSUME ~InRing(Leaving, ring)
      PROVE  Swap(ring, s) = ring
  BY <1>1, <1>3, <1>6 DEF Swap, InRing
<1>7. ASSUME ring # <<>>, NEW k \in Keys
      PROVE  Place(k, Swap(ring, s)) = IF Place(k, ring) = Leaving THEN s ELSE Place(k, ring)
  <2> DEFINE i == (Hash[k] % Len(ring)) + 1
  <2>1. Len(ring) # 0
    BY <1>7, EmptySeq, LenProperties
  <2>2. Hash[k] \in Nat
    BY IndexAssumption
  <2>3. i \in DOMAIN ring
    BY <1>1, <2>1, <2>2
  <2>4. Place(k, ring) = ring[i] /\ Place(k, Swap(ring, s)) = Swap(ring, s)[i]
    BY <1>4, <1>5, <1>7 DEF Place
  <2>5. QED
    BY <2>3, <2>4 DEF Swap
<1>8. QED
  BY <1>2, <1>5, <1>6, <1>7

\* A marker is put while the rings stand still, and names one shard until it goes.
LEMMA MarkerMoves ==
  ASSUME RingInv, [Next]_vars, Marked'
  PROVE  /\ Marked => leave'.substitute = leave.substitute
         /\ ~Marked => UNCHANGED <<rule, entries, active, ghost>> /\ mover'.pc = "repoint"
<1>1. CASE ~Mover
  BY <1>1, OthersLeaveDrain DEF Marked
<1>2. CASE MoveMarks
  <2>1. ~Marked
    BY <1>2 DEF MoveMarks, RingInv, DrainTrue
  <2>2. mover \in Move
    BY DEF RingInv, CallTypes
  <2>3. QED
    BY <1>2, <2>1, <2>2 DEF MoveMarks, moveFrame, Move
<1>3. CASE StartDrain \/ MoveEnds
  BY <1>3 DEF StartDrain, BeginDrain, MoveEnds, Marked, RingInv, StoredTypes
<1>4. CASE \E c \in Catalogs : FanUnshadow(c)
  BY <1>4 DEF FanUnshadow, Marked, RingInv, StoredTypes
<1>5. CASE UNCHANGED leave
  BY <1>5 DEF Marked
<1>6. CASE MoveFences \/ MoveResumes \/ MoveRepoints \/ MoveFlushes \/ MoveFlushesBlind
  BY <1>5, <1>6 DEF MoveFences, MoveResumes, MoveRepoints, MoveFlushes, MoveFlushesBlind
<1>7. CASE MoveExports
  BY <1>5, <1>7 DEF MoveExports
<1>8. CASE MoveImports \/ MoveConverges \/ MoveDeletes \/ MoveStops
  BY <1>5, <1>8 DEF MoveImports, MoveConverges, MoveDeletes, MoveStops
<1>9. CASE \E c \in Catalogs : FanRepoint(c)
  BY <1>5, <1>9 DEF FanRepoint
<1>10. QED
  BY <1>1, <1>2, <1>3, <1>4, <1>6, <1>7, <1>8, <1>9 DEF Mover

\* Registered catalogs have a rule; a ring is the ring of one.
LEMMA RingsAreRegistered ==
  ASSUME RingInv
  PROVE  /\ \A c \in Catalogs : rule[c].ring \in Seq(Shards)
         /\ \A c \in Catalogs : rule[c].ring # <<>> => Registered(c)
         /\ ~InRing(Leaving, <<>>)
BY MembersIn DEF RingInv, StoredTypes, Rule, RulesTrue, NoRule

\* The rings stay close in a step of the fans.
LEMMA CloseInFans ==
  ASSUME RingInv, CloseTrue, OpsTrue, [Next]_vars, ~ghost.forked, ~ghost'.forked,
         NEW c0 \in Catalogs,
         \/ FanRepoint(c0) /\ RingIsSet(c0, rule[c0].shadow \cup {Leaving})
         \/ FanUnshadow(c0) /\ RingIsSet(c0, {})
  PROVE  CloseTrue'
<1> USE BoundsAreNat
<1>1. /\ StoredTypes /\ CallTypes /\ DrainTrue /\ AwayTrue /\ mover \in Move
      /\ leave \in [draining : BOOLEAN, op : 0 .. MaxOps,
                    substitute : (Shards \ {Leaving}) \cup {NoShard}]
  BY DEF RingInv, StoredTypes, CallTypes
<1>2. /\ \A c \in Catalogs : rule[c].ring \in Seq(Shards)
      /\ \A c \in Catalogs : rule[c].ring # <<>> => Registered(c)
      /\ ~InRing(Leaving, <<>>)
  BY RingsAreRegistered
<1>3. \A c \in Catalogs : c # c0 \/ ~Registered(c) => rule'[c] = rule[c]
  BY DEF RingIsSet
<1>4. /\ \A c \in Catalogs : Registered(c)' <=> Registered(c)
      /\ Registered(c0) => rule'[c0].ring = mover.ring
      /\ c0 \in mover.todo /\ (c0 = Owner => mover.todo = {Owner})
  BY DEF RingIsSet
<1>5. mover.ring \in Seq(Shards) /\ leave.substitute \in Shards \ {Leaving}
      /\ ~InRing(Leaving, mover.ring) /\ Marked
  BY <1>1 DEF FanRepoint, FanUnshadow, DrainTrue, AwayTrue, Marked, Move
<1>6. /\ Swap(mover.ring, leave.substitute) = mover.ring
      /\ \A c \in Catalogs : ~InRing(Leaving, rule[c].ring) =>
           Swap(rule[c].ring, leave.substitute) = rule[c].ring
  BY <1>2, <1>5, SwapIs
<1>7. CASE FanRepoint(c0) /\ RingIsSet(c0, rule[c0].shadow \cup {Leaving})
  <2>1. /\ mover.pc = "fan" /\ UNCHANGED <<leave, ghost>>
        /\ mover'.ring = mover.ring /\ mover'.todo = mover.todo \ {c0}
        /\ mover'.pc = IF c0 = Owner THEN "flush" ELSE "fan"
    BY <1>1, <1>7 DEF FanRepoint, Move, moveFrame
  <2>2. /\ mover.ring # <<>>
        /\ \A c \in Catalogs : Registered(c) =>
             /\ Swap(rule[c].ring, leave.substitute) = mover.ring
             /\ c \notin mover.todo => rule[c].ring = mover.ring
    BY <2>1 DEF CloseTrue, Subst
  <2>3. \A c \in Catalogs : Registered(c) => Swap(rule'[c].ring, leave'.substitute) = mover.ring
    BY <1>3, <1>4, <1>6, <2>1, <2>2
  <2>4. \A c \in Catalogs : rule'[c].ring # <<>> => Registered(c)
    BY <1>2, <1>3
  <2>5. \A c \in Catalogs : Registered(c) => rule'[c].ring # <<>> \/ rule'[c].ring = rule[c].ring
    BY <1>3, <1>4, <2>2
  <2>6. \A c \in Catalogs : Registered(c)' /\ rule'[c].ring = <<>> => ~Registered(Owner)'
    BY <1>4, <2>5 DEF CloseTrue
  <2>7. ASSUME leave'.draining, Registered(Owner)', ~InRing(Leaving, rule'[Owner].ring),
               NEW c \in Catalogs
        PROVE  ~InRing(Leaving, rule'[c].ring)
    <3>1. CASE ~Registered(c)
      BY <1>2, <1>3, <3>1
    <3>2. CASE Registered(c) /\ c = c0
      BY <1>4, <1>5, <3>2
    <3>3. CASE Registered(c) /\ c # c0 /\ c0 = Owner
      BY <1>3, <1>4, <1>5, <2>2, <3>3
    <3>4. CASE c # c0 /\ c0 # Owner
      BY <1>3, <1>4, <2>1, <2>7, <3>4 DEF CloseTrue
    <3>5. QED
      BY <3>1, <3>2, <3>3, <3>4
  <2>8. \A c \in Catalogs : Registered(c) => c \in mover'.todo \/ rule'[c].ring = mover.ring
    BY <1>3, <1>4, <2>1, <2>2
  <2>9. QED
    BY <1>4, <2>1, <2>2, <2>3, <2>4, <2>6, <2>7, <2>8 DEF CloseTrue, Subst
<1>8. CASE FanUnshadow(c0) /\ RingIsSet(c0, {})
  <2>1. /\ mover.pc = "unshadow" /\ UNCHANGED ghost /\ leave'.draining = leave.draining
        /\ \/ mover' = NoMove /\ ~Marked'
           \/ /\ mover'.ring = mover.ring /\ mover'.pc = mover.pc /\ leave' = leave
    BY <1>1, <1>8 DEF FanUnshadow, Move, moveFrame, Marked
  <2>2. CASE mover.ring = <<>> /\ ~Registered(Owner)
    <3>1. \A c \in Catalogs : rule'[c].ring \in {<<>>, rule[c].ring}
      BY <1>3, <1>4, <2>2
    <3>2. Marked' => leave'.substitute = leave.substitute
      BY <2>1
    <3>3. QED
      BY <1>4, <1>5, <2>1, <2>2, <3>1, <3>2 DEF CloseTrue, Subst, NoMove
  <2>3. CASE \A c \in Catalogs : Registered(c) => rule[c].ring = mover.ring
    <3>1. \A c \in Catalogs : rule'[c].ring = rule[c].ring
      BY <1>3, <1>4, <2>3
    <3>2. Marked' => leave'.substitute = leave.substitute
      BY <2>1
    <3>3. QED
      BY <1>4, <1>5, <2>1, <2>3, <3>1, <3>2 DEF CloseTrue, Subst, NoMove
  <2>4. QED
    BY <2>1, <2>2, <2>3 DEF CloseTrue
<1>9. QED
  BY <1>7, <1>8

\* And in every other step.
LEMMA CloseTrueStep ==
  ASSUME RingInv, CloseTrue, OpsTrue, [Next]_vars
  PROVE  CloseTrue'
<1> USE BoundsAreNat
<1> SUFFICES ASSUME ~ghost'.forked, ~ghost.forked
             PROVE  CloseTrue'
  BY GhostGrows DEF CloseTrue, RingInv
<1>1. /\ StoredTypes /\ CallTypes /\ DrainTrue /\ AgreeTrue /\ AwayTrue /\ RulesTrue /\ mover \in Move
      /\ leave \in [draining : BOOLEAN, op : 0 .. MaxOps,
                    substitute : (Shards \ {Leaving}) \cup {NoShard}]
      /\ ghost \in Ghost
  BY DEF RingInv, StoredTypes, CallTypes
<1>2. /\ \A c \in Catalogs : rule[c].ring \in Seq(Shards)
      /\ \A c \in Catalogs : rule[c].ring # <<>> => Registered(c)
      /\ ~InRing(Leaving, <<>>)
  BY RingsAreRegistered
<1>3. CASE \E c \in Catalogs : \/ FanRepoint(c) /\ RingIsSet(c, rule[c].shadow \cup {Leaving})
                               \/ FanUnshadow(c) /\ RingIsSet(c, {})
  BY <1>3, CloseInFans
<1>4. ASSUME NEW c0 \in Catalogs, Register(c0), ~Registered(c0)
      PROVE  CloseTrue'
  <2>1. UNCHANGED <<leave, mover, active>>
    BY <1>1, <1>4, GatewayIsNotMover
  <2>2. /\ Registered(c0)' /\ rule'[c0].ring = gateway.ring
        /\ \A d \in Catalogs \ {c0} : rule'[d] = rule[d] /\ (Registered(d)' <=> Registered(d))
        /\ ~Forks(c0)
    BY <1>1, <1>4, RegisterEffect
  <2>3. gateway.ring # <<>>
    BY <1>4 DEF Register, OpsTrue
  <2>4. /\ \A d \in Catalogs : Registered(d) => rule[d].ring = gateway.ring
        /\ Members(gateway.ring) \subseteq active /\ mover.pc = "idle"
    BY <1>4, <2>2 DEF Forks
  <2>5. \A d \in Catalogs : /\ Registered(d)' => rule'[d].ring = gateway.ring
                            /\ ~Registered(d)' => rule'[d].ring = <<>>
    BY <1>2, <2>2, <2>4
  <2>6. leave.draining => ~InRing(Leaving, gateway.ring)
    BY <1>1, <2>4, MembersIn DEF DrainTrue
  <2>7. \A c, d \in Catalogs : rule'[c].ring # <<>> /\ rule'[d].ring # <<>> =>
          rule'[c].ring = rule'[d].ring
    BY <2>5
  <2>8. QED
    BY <1>2, <2>1, <2>3, <2>4, <2>5, <2>6, <2>7 DEF CloseTrue, Subst
<1>5. ASSUME NEW c0 \in Catalogs, Unregister(c0)
      PROVE  CloseTrue'
  <2>1. UNCHANGED <<leave, mover>>
    BY <1>1, <1>5, GatewayIsNotMover
  <2>2. /\ rule'[c0].ring = <<>> /\ ~Registered(c0)'
        /\ \A d \in Catalogs \ {c0} : rule'[d] = rule[d] /\ (Registered(d)' <=> Registered(d))
    BY <1>1, <1>5, UnregisterEffect DEF NoRule
  <2>3. QED
    BY <1>2, <2>1, <2>2 DEF CloseTrue, Subst, Marked
<1>6. CASE SameRings /\ ~\E c \in Catalogs : FanRepoint(c) \/ FanUnshadow(c)
  <2>1. \A c \in Catalogs : rule'[c].ring = rule[c].ring /\ (Registered(c)' <=> Registered(c))
    BY <1>6 DEF SameRings
  <2>2. ASSUME Marked', NEW c \in Catalogs, NEW d \in Catalogs, rule[c].ring # <<>>, rule[d].ring # <<>>
        PROVE  Swap(rule[c].ring, leave'.substitute) = Swap(rule[d].ring, leave'.substitute)
    <3>1. CASE Marked
      BY <2>2, <3>1, MarkerMoves DEF CloseTrue, Subst
    <3>2. CASE ~Marked
      BY <1>1, <1>2, <2>2, <3>2 DEF AgreeTrue
    <3>3. QED
      BY <3>1, <3>2
  <2>3. CASE UNCHANGED <<mover, leave>>
    BY <2>1, <2>2, <2>3 DEF CloseTrue, Subst
  <2>4. CASE MoveRepoints /\ InRing(Leaving, rule[Owner].ring)
    <3>1. /\ mover'.pc = "fan" /\ mover'.todo = Catalogs /\ UNCHANGED leave
          /\ mover'.ring = Swap(rule[Owner].ring, leave.substitute)
      BY <1>1, <2>4 DEF MoveRepoints, Move, Swap
    <3>2. Marked /\ leave.substitute \in Shards \ {Leaving}
      BY <1>1, <2>4 DEF MoveRepoints, DrainTrue, Marked
    <3>3. rule[Owner].ring # <<>>
      BY <1>2, <2>4
    <3>4. \A c \in Catalogs : Registered(c) => rule[c].ring # <<>>
      BY <1>2, <3>3 DEF CloseTrue
    <3>5. \A c \in Catalogs : Registered(c) =>
            Swap(rule[c].ring, leave.substitute) = Swap(rule[Owner].ring, leave.substitute)
      BY <3>2, <3>3, <3>4 DEF CloseTrue, Subst
    <3>6. Swap(rule[Owner].ring, leave.substitute) # <<>>
      BY <1>2, <3>2, <3>3, SwapIs
    <3>7. QED
      BY <2>1, <2>2, <3>1, <3>5, <3>6 DEF CloseTrue, Subst
  <2>5. CASE MoveDeletes
    <3>1. /\ mover.pc = "delete" /\ mover'.pc = "unshadow" /\ mover'.ring = rule[Owner].ring
          /\ UNCHANGED leave
      BY <1>1, <2>5 DEF MoveDeletes, Move
    <3>2. leave.draining /\ Marked /\ leave.substitute \in Shards \ {Leaving}
          /\ ~InRing(Leaving, rule[Owner].ring)
      BY <1>1, <3>1 DEF DrainTrue, AwayTrue, Marked
    <3>3. \/ rule[Owner].ring = <<>> /\ ~Registered(Owner)
          \/ \A c \in Catalogs : Registered(c) => rule[c].ring = rule[Owner].ring
      <4>1. CASE ~Registered(Owner)
        BY <1>2, <4>1
      <4>2. CASE Registered(Owner)
        <5>1. \A c \in Catalogs : /\ ~InRing(Leaving, rule[c].ring)
                                  /\ Registered(c) => rule[c].ring # <<>>
          BY <3>2, <4>2 DEF CloseTrue
        <5>2. \A c \in Catalogs : Swap(rule[c].ring, leave.substitute) = rule[c].ring
          BY <1>2, <3>2, <5>1, SwapIs
        <5>3. QED
          BY <3>2, <4>2, <5>1, <5>2 DEF CloseTrue, Subst
      <4>3. QED
        BY <4>1, <4>2
    <3>4. QED
      BY <2>1, <2>2, <3>1, <3>3 DEF CloseTrue, Subst
  <2>6. CASE ~UNCHANGED <<mover, leave>> /\ mover'.pc \notin {"fan", "unshadow"}
    <3>1. leave'.draining /\ ~leave.draining => StartDrain
      BY <1>1, <2>6, PhaseMoves
    <3>2. ~leave.draining => \A c \in Catalogs : Registered(c) => InRing(Leaving, rule[c].ring)
      BY <1>1 DEF RulesTrue
    <3>3. \A c \in Catalogs : ~Registered(c) => ~InRing(Leaving, rule[c].ring)
      BY <1>2
    <3>4. leave'.draining /\ Registered(Owner) /\ ~InRing(Leaving, rule[Owner].ring) =>
            \A c \in Catalogs : ~InRing(Leaving, rule[c].ring)
      BY <3>2 DEF CloseTrue
    <3>5. \A c \in Catalogs : Registered(c) /\ rule[c].ring = <<>> => ~Registered(Owner)
      BY DEF CloseTrue
    <3>6. QED
      BY <2>1, <2>2, <2>6, <3>4, <3>5 DEF CloseTrue, Subst
  <2>7. QED
    <3>1. mover' # mover \/ leave' # leave =>
            /\ mover'.pc = "unshadow" => MoveDeletes \/ \E c \in Catalogs \ {Owner} : FanUnshadow(c)
            /\ mover'.pc = "fan" => \/ MoveRepoints /\ InRing(Leaving, rule[Owner].ring)
                                    \/ \E c \in Catalogs \ {Owner} : FanRepoint(c)
      BY <1>1, PhaseMoves
    <3>2. QED
      BY <1>6, <2>3, <2>4, <2>5, <2>6, <3>1
<1>7. QED
  <2>1. ASSUME NEW c \in Catalogs, FanRepoint(c) \/ FanUnshadow(c)
        PROVE  \/ FanRepoint(c) /\ RingIsSet(c, rule[c].shadow \cup {Leaving})
               \/ FanUnshadow(c) /\ RingIsSet(c, {})
    <3>1. rule[c].shadow \subseteq {Leaving}
      BY <1>1 DEF StoredTypes, Rule
    <3>2. rule[c].shadow \ {Leaving} = {}
      BY <3>1
    <3>3. QED
      BY <1>1, <2>1, <3>2, SetRingEffect DEF FanRepoint, FanUnshadow
  <2>2. QED
    BY <1>1, <1>3, <1>4, <1>5, <1>6, <2>1, RingsMoveBy

-----------------------------------------------------------------------------
(* Where the tenant's catalog has a key.                                   *)

\* A drain that has begun has begun.
LEMMA DrainStays ==
  ASSUME RingInv, [Next]_vars, leave.draining
  PROVE  leave'.draining
<1>1. leave \in [draining : BOOLEAN, op : 0 .. MaxOps,
                 substitute : (Shards \ {Leaving}) \cup {NoShard}]
  BY DEF RingInv, StoredTypes
<1>2. CASE UNCHANGED leave
  BY <1>2
<1>3. CASE ~Mover
  BY <1>3, OthersLeaveDrain
<1>4. CASE StartDrain \/ MoveMarks \/ MoveEnds \/ \E c \in Catalogs : FanUnshadow(c)
  BY <1>1, <1>4 DEF StartDrain, BeginDrain, MoveMarks, MoveEnds, FanUnshadow
<1>5. CASE MoveFences \/ MoveResumes \/ MoveRepoints \/ MoveFlushes \/ MoveFlushesBlind
  BY <1>2, <1>5 DEF MoveFences, MoveResumes, MoveRepoints, MoveFlushes, MoveFlushesBlind
<1>6. CASE MoveExports
  BY <1>2, <1>6 DEF MoveExports
<1>7. CASE MoveImports \/ MoveConverges \/ MoveDeletes \/ MoveStops
  BY <1>2, <1>7 DEF MoveImports, MoveConverges, MoveDeletes, MoveStops
<1>8. CASE \E c \in Catalogs : FanRepoint(c)
  BY <1>2, <1>8 DEF FanRepoint
<1>9. QED
  BY <1>3, <1>4, <1>5, <1>6, <1>7, <1>8 DEF Mover

\* A fan's own steps are told apart from the others.
LEMMA FansAreSet ==
  ASSUME RingInv, NEW c \in Catalogs
  PROVE  /\ FanRepoint(c) => /\ RingIsSet(c, rule[c].shadow \cup {Leaving}) /\ mover.pc = "fan"
                             /\ UNCHANGED <<leave, entries, fenced>>
         /\ FanUnshadow(c) => /\ RingIsSet(c, {}) /\ mover.pc = "unshadow"
                              /\ UNCHANGED <<entries, fenced>>
<1>1. StoredTypes
  BY DEF RingInv
<1>2. rule[c].shadow \subseteq {Leaving}
  BY <1>1 DEF StoredTypes, Rule
<1>3. rule[c].shadow \ {Leaving} = {}
  BY <1>2
<1>4. QED
  BY <1>1, <1>3, SetRingEffect DEF FanRepoint, FanUnshadow

\* The tenant's catalog comes to have a ring only by being given one.
LEMMA WholeBegins ==
  ASSUME RingInv, CloseTrue, OpsTrue, [Next]_vars, ~Whole, Whole'
  PROVE  Register(Home) /\ ~Registered(Home) /\ ~Forks(Home)
<1> USE BoundsAreNat
<1> DEFINE Passed == /\ leave.draining /\ ~InRing(Leaving, rule[Owner].ring)
                     /\ InRing(Leaving, rule[Home].ring) /\ mover.pc # "fan"
<1>1. /\ StoredTypes /\ CallTypes /\ DrainTrue /\ AwayTrue /\ RulesTrue /\ mover \in Move
      /\ ghost \in Ghost
      /\ leave \in [draining : BOOLEAN, op : 0 .. MaxOps,
                    substitute : (Shards \ {Leaving}) \cup {NoShard}]
  BY DEF RingInv, StoredTypes, CallTypes
<1>2. /\ \A c \in Catalogs : rule[c].ring \in Seq(Shards)
      /\ \A c \in Catalogs : rule[c].ring # <<>> => Registered(c)
      /\ ~InRing(Leaving, <<>>)
  BY RingsAreRegistered
<1>3. ~ghost.forked /\ ~ghost'.forked /\ rule'[Home].ring # <<>>
  BY <1>1, GhostGrows DEF Whole
<1>4. rule[Home].ring = <<>> \/ Passed
  BY <1>3 DEF Whole
<1>5. Passed => ~Registered(Owner)
  BY <1>3 DEF CloseTrue
<1>6. leave.draining => leave'.draining
  BY DrainStays
<1>7. /\ leave'.draining /\ ~InRing(Leaving, rule'[Owner].ring) /\ InRing(Leaving, rule'[Home].ring)
         => mover'.pc = "fan"
  BY DEF Whole
<1>8. CASE SameRings /\ ~\E c \in Catalogs : FanRepoint(c) \/ FanUnshadow(c)
  <2>1. \A c \in Catalogs : rule'[c].ring = rule[c].ring
    BY <1>8 DEF SameRings
  <2>2. Passed /\ mover'.pc = "fan"
    BY <1>3, <1>4, <1>6, <1>7, <2>1
  <2>3. mover' # mover => MoveRepoints /\ InRing(Leaving, rule[Owner].ring)
    BY <1>1, <1>8, <2>2, PhaseMoves
  <2>4. QED
    BY <2>2, <2>3
<1>9. ASSUME NEW c0 \in Catalogs, Register(c0), ~Registered(c0)
      PROVE  Register(Home) /\ ~Registered(Home) /\ ~Forks(Home)
  <2>1. UNCHANGED <<leave, mover, active>>
    BY <1>1, <1>9, GatewayIsNotMover
  <2>2. /\ rule'[c0].ring = gateway.ring /\ ~Forks(c0)
        /\ \A d \in Catalogs \ {c0} : rule'[d] = rule[d]
    BY <1>1, <1>3, <1>9, RegisterEffect
  <2>3. CASE c0 = Home
    BY <1>9, <2>2, <2>3
  <2>4. CASE c0 # Home
    <3>1. Passed /\ Registered(Home)
      BY <1>2, <1>3, <1>4, <2>2, <2>4
    <3>2. c0 = Owner
      BY <1>7, <2>1, <2>2, <2>4, <3>1
    <3>3. rule[Home].ring = gateway.ring /\ Members(gateway.ring) \subseteq active
      BY <1>9, <2>2, <3>1 DEF Forks
    <3>4. QED
      BY <1>1, <3>1, <3>3, MembersIn DEF DrainTrue
  <2>5. QED
    BY <2>3, <2>4
<1>10. ASSUME NEW c0 \in Catalogs, Unregister(c0)
       PROVE  FALSE
  <2>1. UNCHANGED <<leave, mover>>
    BY <1>1, <1>10, GatewayIsNotMover
  <2>2. rule'[c0].ring = <<>> /\ \A d \in Catalogs \ {c0} : rule'[d] = rule[d]
    BY <1>1, <1>10, UnregisterEffect DEF NoRule
  <2>3. QED
    BY <1>2, <1>3, <1>4, <1>7, <2>1, <2>2
<1>11. ASSUME NEW c0 \in Catalogs, FanRepoint(c0)
       PROVE  FALSE
  <2>1. mover.pc = "fan" /\ RingIsSet(c0, rule[c0].shadow \cup {Leaving})
    BY <1>11, FansAreSet
  <2>2. rule[Home].ring = <<>> /\ c0 = Home /\ Registered(Home)
    BY <1>3, <1>4, <2>1 DEF RingIsSet
  <2>3. mover.ring # <<>> /\ Swap(rule[Home].ring, leave.substitute) = mover.ring
    BY <1>3, <2>1, <2>2 DEF CloseTrue, Subst
  <2>4. leave.substitute \in Shards \ {Leaving}
    BY <1>1, <2>1 DEF DrainTrue, Marked
  <2>5. QED
    BY <1>2, <2>2, <2>3, <2>4, SwapIs
<1>12. ASSUME NEW c0 \in Catalogs, FanUnshadow(c0)
       PROVE  FALSE
  <2>1. mover.pc = "unshadow" /\ RingIsSet(c0, {}) /\ mover'.pc # "fan"
    BY <1>1, <1>12, FansAreSet DEF FanUnshadow, NoMove, Move
  <2>2. ~InRing(Leaving, mover.ring)
    BY <1>1, <1>3, <2>1 DEF AwayTrue
  <2>3. CASE mover.ring = <<>> /\ ~Registered(Owner)
    <3>1. rule'[Home] = rule[Home] /\ rule'[Owner] = rule[Owner]
      BY <1>3, <2>1, <2>3 DEF RingIsSet
    <3>2. QED
      BY <1>3, <1>4, <1>6, <1>7, <2>1, <3>1
  <2>4. CASE \A c \in Catalogs : Registered(c) => rule[c].ring = mover.ring
    <3>1. rule'[Home].ring = rule[Home].ring
      BY <2>1, <2>4 DEF RingIsSet
    <3>2. Registered(Home)
      BY <1>2, <1>3, <3>1
    <3>3. QED
      BY <1>3, <1>4, <2>2, <2>4, <3>1, <3>2
  <2>5. QED
    BY <1>3, <2>1, <2>3, <2>4 DEF CloseTrue
<1>13. QED
  BY <1>1, <1>8, <1>9, <1>10, <1>11, <1>12, RingsMoveBy

\* While the source's entries are moved, no key of the tenant's is at home there.
LEMMA MovedAway ==
  ASSUME RingInv, Whole, mover.pc \in {"flush", "copy", "import", "delete", "unshadow"},
         NEW k \in Keys
  PROVE  Here(k) # Leaving /\ Here(k) \in Shards
<1> USE BoundsAreNat
<1>1. DrainTrue /\ AwayTrue /\ ~ghost.forked /\ rule[Home].ring # <<>>
  BY DEF RingInv, Whole
<1>2. leave.draining /\ ~InRing(Leaving, rule[Owner].ring)
  BY <1>1 DEF DrainTrue, AwayTrue
<1>3. ~InRing(Leaving, rule[Home].ring)
  BY <1>2 DEF Whole
<1>4. rule[Home].ring \in Seq(Shards)
  BY RingsAreRegistered
<1>5. QED
  BY <1>1, <1>3, <1>4, PlaceInRing DEF Here

\* How the place of a key moves: off the source, to its substitute, which is then
\* shadowed; what went ahead of the repoint arrives.
LEMMA PlacesMove ==
  ASSUME RingInv, CloseTrue, OpsTrue, [Next]_vars, Whole, Whole', NEW k \in Keys
  PROVE  /\ \/ Here(k)' = Here(k)
            \/ /\ Here(k) = Leaving /\ Here(k)' = leave.substitute /\ Shadowed(k)'
               /\ Leaving \in fenced /\ UNCHANGED <<entries, leave>>
         /\ Ahead(k) => /\ leave'.substitute = leave.substitute
                        /\ Ahead(k)' \/ Here(k)' = leave.substitute
         /\ Shadowed(k) => Shadowed(k)' \/ mover.pc = "unshadow"
<1> USE BoundsAreNat
<1>1. /\ StoredTypes /\ CallTypes /\ DrainTrue /\ AwayTrue /\ AgreeTrue /\ RulesTrue /\ mover \in Move
      /\ ghost \in Ghost
      /\ leave \in [draining : BOOLEAN, op : 0 .. MaxOps,
                    substitute : (Shards \ {Leaving}) \cup {NoShard}]
  BY DEF RingInv, StoredTypes, CallTypes
<1>2. /\ \A c \in Catalogs : rule[c].ring \in Seq(Shards)
      /\ \A c \in Catalogs : rule[c].ring # <<>> => Registered(c)
      /\ ~InRing(Leaving, <<>>)
  BY RingsAreRegistered
<1>3. ~ghost.forked /\ ~ghost'.forked /\ rule[Home].ring # <<>> /\ rule'[Home].ring # <<>>
      /\ Registered(Home)
  BY <1>2 DEF Whole
<1>4. Here(k) \in Shards /\ InRing(Here(k), rule[Home].ring)
  BY <1>2, <1>3, PlaceInRing DEF Here
<1>5. Shadowed(k) => Marked
  BY <1>1, <1>3 DEF Shadowed, AgreeTrue
<1>6. CASE SameRings /\ ~\E c \in Catalogs : FanRepoint(c) \/ FanUnshadow(c)
  <2>1. Here(k)' = Here(k) /\ There(k)' = There(k) /\ rule'[Home].shadow = rule[Home].shadow
    BY <1>6 DEF SameRings, Here, There
  <2>2. Marked => Marked' /\ leave'.substitute = leave.substitute
    <3>1. Marked => Marked'
      BY <1>1, <1>6, PhaseMoves DEF Marked
    <3>2. QED
      BY <3>1, MarkerMoves
  <2>3. QED
    BY <1>5, <2>1, <2>2 DEF Ahead, Shadowed
<1>7. ASSUME NEW c0 \in Catalogs, Register(c0), ~Registered(c0)
      PROVE  /\ Here(k)' = Here(k) /\ leave' = leave
             /\ Ahead(k) => Ahead(k)'
             /\ Shadowed(k) => Shadowed(k)'
  <2>1. UNCHANGED <<leave, active>> /\ c0 # Home
    BY <1>1, <1>3, <1>7, GatewayIsNotMover
  <2>2. ~Forks(c0) /\ \A d \in Catalogs \ {c0} : rule'[d] = rule[d]
    BY <1>1, <1>3, <1>7, RegisterEffect
  <2>3. Here(k)' = Here(k) /\ (Shadowed(k) => Shadowed(k)')
    BY <2>1, <2>2 DEF Here, Shadowed
  <2>4. ASSUME Ahead(k)
        PROVE  There(k)' = There(k)
    <3>1. CASE c0 = Zero
      <4>1. Members(rule[Home].ring) \subseteq active
        BY <1>3, <1>7, <2>2 DEF Forks
      <4>2. InRing(Leaving, rule[Home].ring) /\ leave.draining
        BY <1>1, <1>4, <2>4 DEF Ahead, DrainTrue
      <4>3. QED
        BY <1>1, <4>1, <4>2, MembersIn DEF DrainTrue
    <3>2. CASE c0 # Zero
      BY <2>2, <3>2 DEF There
    <3>3. QED
      BY <3>1, <3>2
  <2>5. QED
    BY <2>1, <2>3, <2>4 DEF Ahead, Marked
<1>8. ASSUME NEW c0 \in Catalogs, Unregister(c0)
      PROVE  /\ Here(k)' = Here(k) /\ leave' = leave
             /\ Ahead(k) => Ahead(k)'
             /\ Shadowed(k) => Shadowed(k)'
  <2>1. leave' = leave
    BY <1>1, <1>8, GatewayIsNotMover
  <2>2. rule'[c0].ring = <<>> /\ \A d \in Catalogs \ {c0} : rule'[d] = rule[d]
    BY <1>1, <1>8, UnregisterEffect DEF NoRule
  <2>3. c0 # Home
    BY <1>3, <2>2
  <2>4. There(k)' \in {There(k), NoShard}
    BY <2>2 DEF There, Place
  <2>5. QED
    BY <2>1, <2>2, <2>3, <2>4 DEF Here, Shadowed, Ahead, Marked
<1>9. ASSUME NEW c0 \in Catalogs, FanRepoint(c0)
      PROVE  /\ \/ Here(k)' = Here(k)
                \/ /\ Here(k) = Leaving /\ Here(k)' = leave.substitute /\ Shadowed(k)'
                   /\ Leaving \in fenced /\ UNCHANGED <<entries, leave>>
             /\ leave'.substitute = leave.substitute
             /\ Ahead(k) => Ahead(k)' \/ Here(k)' = leave.substitute
             /\ Shadowed(k) => Shadowed(k)'
  <2>1. /\ mover.pc = "fan" /\ RingIsSet(c0, rule[c0].shadow \cup {Leaving})
        /\ UNCHANGED <<leave, entries>>
    BY <1>9, FansAreSet
  <2>2. Marked /\ Leaving \in fenced /\ leave.substitute \in Shards \ {Leaving}
    BY <1>1, <2>1 DEF DrainTrue, Marked
  <2>3. mover.ring # <<>> /\ Swap(rule[Home].ring, leave.substitute) = mover.ring
    BY <1>3, <2>1 DEF CloseTrue, Subst
  <2>4. CASE c0 = Home
    <3>1. rule'[Home].ring = mover.ring /\ Leaving \in rule'[Home].shadow
      BY <1>3, <2>1, <2>4 DEF RingIsSet
    <3>2. Here(k)' = IF Here(k) = Leaving THEN leave.substitute ELSE Here(k)
      BY <1>2, <1>3, <2>2, <2>3, <3>1, SwapIs DEF Here
    <3>3. QED
      BY <2>1, <2>2, <3>1, <3>2 DEF Shadowed, Ahead
  <2>5. CASE c0 # Home
    <3>1. rule'[Home] = rule[Home]
      BY <2>1, <2>5 DEF RingIsSet
    <3>2. mover.ring \in Seq(Shards) /\ ~InRing(Leaving, mover.ring)
      BY <1>1, <1>3, <2>1 DEF Move, AwayTrue
    <3>3. rule'[Zero].ring \in {rule[Zero].ring, mover.ring}
      BY <2>1 DEF RingIsSet
    <3>4. There(k) # Leaving => There(k)' # Leaving
      BY <2>3, <3>2, <3>3, PlaceInRing DEF There
    <3>5. QED
      BY <2>1, <3>1, <3>4 DEF Here, Shadowed, Ahead, Marked
  <2>6. QED
    BY <2>4, <2>5
<1>10. ASSUME NEW c0 \in Catalogs, FanUnshadow(c0)
       PROVE  Here(k)' = Here(k) /\ ~Ahead(k) /\ mover.pc = "unshadow"
  <2>1. mover.pc = "unshadow" /\ RingIsSet(c0, {})
    BY <1>10, FansAreSet
  <2>2. ~Ahead(k)
    BY <2>1, MovedAway DEF Ahead
  <2>3. rule'[Home].ring = rule[Home].ring
    <3>1. CASE mover.ring = <<>>
      BY <1>3, <2>1, <3>1 DEF RingIsSet
    <3>2. CASE \A c \in Catalogs : Registered(c) => rule[c].ring = mover.ring
      BY <2>1, <3>2 DEF RingIsSet
    <3>3. QED
      BY <1>3, <2>1, <3>1, <3>2 DEF CloseTrue
  <2>4. QED
    BY <2>1, <2>2, <2>3 DEF Here
<1>11. QED
  BY <1>1, <1>6, <1>7, <1>8, <1>9, <1>10, RingsMoveBy

\* A place of catalog-0's ring is one to send to.
LEMMA ThereAims ==
  ASSUME RingInv, CloseTrue, Whole, rule[Zero].ring # <<>>, NEW k \in Keys
  PROVE  Aim(k, There(k))
<1> USE BoundsAreNat
<1>1. /\ StoredTypes /\ DrainTrue /\ AgreeTrue
      /\ leave \in [draining : BOOLEAN, op : 0 .. MaxOps,
                    substitute : (Shards \ {Leaving}) \cup {NoShard}]
  BY DEF RingInv, StoredTypes
<1>2. /\ \A c \in Catalogs : rule[c].ring \in Seq(Shards)
      /\ \A c \in Catalogs : rule[c].ring # <<>> => Registered(c)
  BY RingsAreRegistered
<1>3. ~ghost.forked /\ rule[Home].ring # <<>>
  BY DEF Whole
<1>4. CASE ~Marked
  <2>1. rule[Home].ring = rule[Zero].ring
    BY <1>1, <1>2, <1>3, <1>4 DEF AgreeTrue
  <2>2. QED
    BY <2>1 DEF Aim, Here, There
<1>5. CASE Marked
  <2>1. Swap(rule[Home].ring, leave.substitute) = Swap(rule[Zero].ring, leave.substitute)
    BY <1>3, <1>5 DEF CloseTrue, Subst
  <2>2. leave.substitute \in Shards \ {Leaving} /\ Leaving \in fenced
    BY <1>1, <1>5 DEF DrainTrue, Marked
  <2>3. /\ Place(k, Swap(rule[Home].ring, leave.substitute)) =
             IF Here(k) = Leaving THEN leave.substitute ELSE Here(k)
        /\ Place(k, Swap(rule[Zero].ring, leave.substitute)) =
             IF There(k) = Leaving THEN leave.substitute ELSE There(k)
    BY <1>2, <1>3, <2>2, SwapIs DEF Here, There
  <2>4. QED
    BY <1>5, <2>1, <2>2, <2>3 DEF Aim, Behind, Ahead
<1>6. QED
  BY <1>4, <1>5

\* A place to send to stays one.
LEMMA AimMoves ==
  ASSUME RingInv, CloseTrue, OpsTrue, [Next]_vars, Whole, Whole', NEW k \in Keys, NEW s
  PROVE  /\ s = Here(k) \/ Behind(s) => (s = Here(k)') \/ (s = Leaving /\ Leaving \in fenced')
         /\ Aim(k, s) => \/ s = Here(k)' \/ (Ahead(k)' /\ s = leave'.substitute)
                         \/ (s = Leaving /\ Leaving \in fenced')
<1>1. fenced \subseteq fenced'
  BY FencesSpread
<1>2. /\ \/ Here(k)' = Here(k)
         \/ Here(k) = Leaving /\ Leaving \in fenced
      /\ Ahead(k) => /\ leave'.substitute = leave.substitute
                     /\ Ahead(k)' \/ Here(k)' = leave.substitute
  BY PlacesMove
<1>3. QED
  BY <1>1, <1>2 DEF Aim, Behind

\* How a tick of the backfill comes to write.
LEMMA FillerMoves ==
  ASSUME CallTypes, [Next]_vars, filler'.pc \in {"refresh", "write"}
  PROVE  \/ /\ FillScan /\ filler'.pc = "refresh" /\ filler'.ring = rule[Zero].ring
         \/ /\ filler.pc \in {"refresh", "write"} /\ filler'.ring = filler.ring
            /\ filler'.last = filler.last /\ filler'.short = filler.short
            /\ filler'.pc = "write" =>
                 \/ filler.pc = "write" /\ filler'.key = filler.key /\ filler'.to = filler.to
                    /\ filler'.page = filler.page
                 \/ /\ FillRefresh /\ filler'.page = filler.page
                    /\ filler'.key = row[Smallest(filler.page)]
                    /\ filler'.key # Gone /\ filler'.to = Place(filler'.key, filler.ring)
                 \/ /\ FillWrite /\ filler'.page = filler.page
                    /\ filler.pc = "write" /\ filler'.key = filler.key /\ RingNow # <<>>
                    /\ filler'.to = Place(filler.key, RingNow)
<1>1. filler \in Tick
  BY DEF CallTypes
<1>2. CASE ~Filler
  BY <1>2, OthersLeaveFiller
<1>3. CASE FillScan
  BY <1>1, <1>3 DEF FillScan, FillDue, NoTick
<1>4. CASE FillRefresh
  <2> DEFINE r == Smallest(filler.page)
  <2>1. filler.pc = "refresh"
    BY <1>4 DEF FillRefresh
  <2>2. CASE row[r] = Gone
    <3>1. filler' = [filler EXCEPT !.page = @ \ {r}]
      BY <1>4, <2>2 DEF FillRefresh
    <3>2. QED
      BY <1>1, <2>1, <3>1 DEF Tick
  <2>3. CASE row[r] # Gone
    <3>1. filler' = [filler EXCEPT !.pc = "write", !.key = row[r], !.to = Place(row[r], filler.ring)]
      BY <1>4, <2>3 DEF FillRefresh
    <3>2. QED
      BY <1>1, <1>4, <2>1, <2>3, <3>1 DEF Tick
  <2>4. QED
    BY <2>2, <2>3
<1>5. CASE FillWrite
  <2> DEFINE r == Smallest(filler.page)
  <2>1. filler.pc = "write"
    BY <1>5 DEF FillWrite
  <2>2. CASE filler' = [filler EXCEPT !.pc = "refresh", !.page = @ \ {r}]
    BY <1>1, <2>1, <2>2 DEF Tick
  <2>3. CASE RingNow # <<>> /\ filler' = [filler EXCEPT !.to = Place(filler.key, RingNow)]
    BY <1>1, <1>5, <2>1, <2>3 DEF Tick
  <2>4. CASE filler' = NoTick
    BY <2>4 DEF NoTick
  <2>5. QED
    BY <1>5, <2>2, <2>3, <2>4 DEF FillWrite
<1>6. CASE FillPageEnds \/ FillEnds \/ FillFails \/ FillStops
  <2>1. filler' \in {NoTick, [NoTick EXCEPT !.pc = "ready", !.todo = Catalogs]}
    BY <1>6 DEF FillPageEnds, FillEnds, FillFails, FillStops
  <2>2. NoTick.pc = "idle" /\ [NoTick EXCEPT !.pc = "ready", !.todo = Catalogs].pc = "ready"
    BY DEF NoTick
  <2>3. filler'.pc \in {"idle", "ready"}
    BY <2>1, <2>2
  <2>4. QED
    BY <2>3
<1>7. CASE \E c \in Catalogs : MarkReady(c)
  <2>1. PICK c \in Catalogs : MarkReady(c)
    BY <1>7
  <2>2. filler' \in {NoTick, [filler EXCEPT !.todo = @ \ {c}]} /\ filler.pc = "ready"
    BY <2>1 DEF MarkReady
  <2>3. QED
    BY <1>1, <2>2 DEF NoTick, Tick
<1>8. QED
  BY <1>2, <1>3, <1>4, <1>5, <1>6, <1>7 DEF Filler

\* A tick that is due has a ring.
LEMMA DueTickHasRing ==
  ASSUME RingInv, OpsTrue, CloseTrue, ~ghost.forked, FillDue
  PROVE  FillLive /\ rule[Zero].ring # <<>>
<1> USE BoundsAreNat
<1>1. FillLive
  BY DEF FillDue, OpsTrue, FillLive
<1>2. \A c \in Catalogs : Registered(c)
  BY <1>1 DEF OpsTrue
<1>3. QED
  BY <1>1, <1>2 DEF CloseTrue

\* Index writes and the backfill aim where the queries look.
LEMMA AimTrueStep ==
  ASSUME RingInv, CloseTrue, OpsTrue, AimTrue, [Next]_vars, StoredTypes', CallTypes'
  PROVE  AimTrue'
<1> USE BoundsAreNat
<1> SUFFICES ASSUME Whole'
             PROVE  AimTrue'
  BY DEF AimTrue
<1>1. /\ StoredTypes /\ CallTypes /\ WritesTied /\ RulesTrue
      /\ filler \in Tick /\ row \in [Rows -> Values] /\ upkeep \in SUBSET Write
  BY DEF RingInv, StoredTypes, CallTypes
<1>2. ghost.unseen \subseteq ghost'.unseen
  BY <1>1, GhostGrows
<1>3. CASE ~Whole
  <2>1. Register(Home) /\ ~Registered(Home) /\ ~Forks(Home)
    BY <1>3, WholeBegins
  <2>2. UNCHANGED <<flights, upkeep, filler>> /\ filler.pc = "idle"
    BY <2>1 DEF Register, clientVars, Forks
  <2>3. \A w \in Clients : flights[w].pc \in Live /\ flights[w].ring # <<>> =>
          flights[w].row \in ghost.unseen
    BY <1>1, <2>1 DEF WritesTied, Tied
  <2>4. \A u \in upkeep : u.row \in ghost.unseen
    BY <1>1, <2>1 DEF WritesTied, Tied
  <2>5. QED
    BY <1>2, <2>2, <2>3, <2>4 DEF AimTrue
<1>4. CASE Whole
  <2> DEFINE Steady(k, s) == s = Here(k) \/ Behind(s)
  <2>1. /\ \A k \in Keys : \A s : Steady(k, s) => Steady(k, s)'
        /\ \A k \in Keys : \A s : Aim(k, s) => Aim(k, s)'
    BY <1>4, AimMoves DEF Aim, Behind
  <2>2. /\ \A w \in Clients : flights[w].pc \in Live /\ flights[w].ring # <<>>
                              /\ flights[w].row \notin ghost.unseen =>
             \A k \in Keys : Steady(k, Place(k, flights[w].ring))
        /\ \A u \in upkeep : u.row \notin ghost.unseen => Steady(u.key, u.to) /\ Aim(u.key, u.at)
        /\ filler.pc \in {"refresh", "write"} => \A k \in Keys : Aim(k, Place(k, filler.ring))
        /\ filler.pc = "write" => Aim(filler.key, filler.to)
    BY <1>4 DEF AimTrue
  <2>3. \A k \in Keys : rule[Zero].ring # <<>> => Aim(k, Place(k, rule[Zero].ring))
    BY <1>4, ThereAims DEF There
  <2>4. \A k, s : Steady(k, s) => Aim(k, s)
    BY DEF Aim
  <2>5. ASSUME NEW w \in Clients, flights'[w].pc \in Live, flights'[w].ring # <<>>,
               flights'[w].row \notin ghost'.unseen, NEW k \in Keys
        PROVE  \A s : s = Place(k, flights'[w].ring) => Steady(k, s)'
    <3>1. CASE /\ flights[w].pc \in Live
               /\ flights'[w].row = flights[w].row /\ flights'[w].ring = flights[w].ring
      BY <1>2, <2>1, <2>2, <2>5, <3>1
    <3>2. CASE flights'[w].ring = rule[Home].ring /\ UNCHANGED rule
      BY <3>2 DEF Here
    <3>3. QED
      BY <1>1, <2>5, <3>1, <3>2, FlightsMove
  \* An index write comes of one that aims as well, or of a write that does.
  <2>6. ASSUME NEW u \in upkeep', u.row \notin ghost'.unseen
        PROVE  u.key \in Keys /\ Steady(u.key, u.to) /\ Aim(u.key, u.at)
    <3>1. CASE u \in upkeep
      BY <1>1, <1>2, <2>2, <2>6, <3>1 DEF Write
    <3>2. ASSUME NEW w \in Clients, flights[w].pc \in Live, u \in Deltas(w)
          PROVE  u.key \in Keys /\ Steady(u.key, u.to) /\ Aim(u.key, u.at)
      <4>1. /\ u.row = flights[w].row /\ u.at = u.to /\ flights[w].ring # <<>>
            /\ u.key \in Keys /\ u.to = Place(u.key, flights[w].ring)
        BY <1>1, <3>2, DeltasAre
      <4>2. QED
        BY <1>2, <2>2, <2>4, <2>6, <3>2, <4>1
    <3>3. CASE Client
      <4>1. PICK w \in Clients : \/ Route(w) \/ PreRead(w) \/ Execute(w) \/ ExecuteUnanswered(w)
                                 \/ Prepare(w) \/ AbortTx(w) \/ CommitTx(w) \/ CommitRow(w)
        BY <3>3 DEF Client
      <4>2. Ready(w) => flights[w].pc \in Live
        BY DEF Ready, Live
      <4>3. CASE Execute(w)
        BY <3>1, <3>2, <4>2, <4>3 DEF Execute
      <4>4. CASE CommitTx(w)
        <5>1. flights[w].pc \in Live /\ upkeep' = upkeep \cup Intents(w)
          BY <4>4 DEF CommitTx, Live
        <5>2. Intents(w) \subseteq Deltas(w)
          BY DEF Intents
        <5>3. QED
          BY <3>1, <3>2, <5>1, <5>2
      <4>5. CASE \/ Route(w) \/ PreRead(w) \/ ExecuteUnanswered(w) \/ Prepare(w) \/ AbortTx(w)
                 \/ CommitRow(w)
        <5>1. upkeep' = upkeep
          BY <4>5 DEF Route, PreRead, ExecuteUnanswered, Prepare, AbortTx, CommitRow
        <5>2. QED
          BY <3>1, <5>1
      <4>6. QED
        BY <4>1, <4>3, <4>4, <4>5
    <3>4. CASE Upkeep
      <4>1. PICK v \in upkeep :
              /\ u.row = v.row /\ u.key = v.key /\ u.to = v.to
              /\ \/ u.at \in {v.at, v.to}
                 \/ RingNow # <<>> /\ u.at = Place(u.key, RingNow)
        BY <1>1, <3>4, UpkeepMoves
      <4>2. v.key \in Keys /\ v.row \notin ghost.unseen
        BY <1>1, <1>2, <2>6, <4>1 DEF Write
      <4>3. QED
        BY <2>2, <2>3, <2>4, <4>1, <4>2 DEF RingNow
    <3>5. CASE ~Client /\ ~Upkeep
      BY <3>1, <3>5, OthersLeaveUpkeep
    <3>6. QED
      BY <3>3, <3>4, <3>5
  <2>7. ASSUME filler'.pc \in {"refresh", "write"}
        PROVE  /\ \A k \in Keys : Aim(k, Place(k, filler'.ring))
               /\ filler'.pc = "write" => filler'.key \in Keys /\ Aim(filler'.key, filler'.to)
    <3>1. FillScan => rule[Zero].ring # <<>>
      BY <1>4, DueTickHasRing DEF FillScan, Whole
    <3>2. CASE FillScan /\ filler'.pc = "refresh" /\ filler'.ring = rule[Zero].ring
      BY <2>3, <3>1, <3>2
    <3>3. CASE FillRefresh /\ filler'.ring = filler.ring /\ filler.pc \in {"refresh", "write"}
               /\ filler'.key = row[Smallest(filler.page)]
               /\ filler'.key # Gone /\ filler'.to = Place(filler'.key, filler.ring)
      <4>1. filler.page # {} /\ filler.page \in SUBSET Rows
        BY <1>1, <3>3 DEF FillRefresh, Tick
      <4>2. filler'.key \in Keys
        BY <1>1, <3>3, <4>1, PageHasEnds DEF Values
      <4>3. QED
        BY <2>2, <3>3, <4>2
    <3>4. CASE filler'.ring = filler.ring /\ filler.pc = "write" /\ filler'.key = filler.key
               /\ (filler'.to = filler.to \/ (RingNow # <<>> /\ filler'.to = Place(filler.key, RingNow)))
      <4>1. filler.key \in Keys
        BY <1>1, <3>4 DEF CallTypes
      <4>2. QED
        BY <2>2, <2>3, <3>4, <4>1 DEF RingNow
    <3>5. CASE filler'.ring = filler.ring /\ filler.pc \in {"refresh", "write"} /\ filler'.pc # "write"
      BY <2>2, <3>5
    <3>6. QED
      BY <1>1, <2>7, <3>2, <3>3, <3>4, <3>5, FillerMoves
  <2>8. \A u \in upkeep' : u.row \notin ghost'.unseen => Steady(u.key, u.to)' /\ Aim(u.key, u.at)'
    BY <2>1, <2>6
  <2>9. filler'.pc \in {"refresh", "write"} =>
          \A k \in Keys : \A s : s = Place(k, filler'.ring) => Aim(k, s)'
    BY <2>1, <2>7
  <2>10. filler'.pc = "write" => \A k, s : k = filler'.key /\ s = filler'.to => Aim(k, s)'
    BY <2>1, <2>7
  <2>11. QED
    BY <2>5, <2>8, <2>9, <2>10 DEF AimTrue, Aim, Here, Ahead, Behind, There, Place
<1>5. QED
  BY <1>3, <1>4

-----------------------------------------------------------------------------
(* What a row is due, and whether it is there.                             *)

\* The index writes of a write just made are outstanding, unless it changes nothing.
LEMMA WriteIsDue ==
  ASSUME StoredTypes, CallTypes, OneWriter, NEW w \in Clients, flights[w].pc \in Live,
         NEW r, flights[w].row = r, ~LetOff(r),
         flights[w].op # "insert" => flights[w].pc \in {"read", "prepared", "committing"},
         flights[w].ring # <<>>, Deltas(w) \subseteq upkeep',
         flights[w].op = "update" => row[r] # Gone
  PROVE  \/ \A k \in Keys : After(w) = k => Outstanding(r, k)'
         \/ row[r] = After(w)
<1>1. \A u \in Deltas(w) : u.row = flights[w].row /\ u.ran = {}
  BY DeltasAre
<1>2. flights[w].op # "insert" => flights[w].before = row[flights[w].row]
  BY ReadIsSo
<1>3. CASE \E u \in Deltas(w) : ~u.del /\ u.key = After(w)
  <2>1. PICK u \in Deltas(w) : ~u.del /\ u.key = After(w)
    BY <1>3
  <2>2. u \in upkeep' /\ u.row = flights[w].row /\ u.ran = {}
    BY <1>1, <2>1
  <2>3. QED
    BY <2>1, <2>2 DEF Outstanding
<1>4. CASE After(w) \notin Keys
  BY <1>4
<1>5. CASE flights[w].op # "insert" /\ ~(/\ flights[w].before # After(w)
                                         /\ flights[w].op = "update" => flights[w].before # Gone)
  BY <1>2, <1>5
<1>6. QED
  BY <1>3, <1>4, <1>5, DeltasAre

\* A step of a write that is not decided leaves what the row is due.
LEMMA DueStays ==
  ASSUME NEW w \in Clients, Only(w), NEW r, row'[r] = row[r],
         flights[w].row = r => ~Deciding(w), flights'[w].row = r => ~Deciding(w)'
  PROVE  \A k : Due(r, k)' <=> Due(r, k)
<1>1. \A v \in Clients \ {w} : /\ flights'[v] = flights[v]
                               /\ Deciding(v)' <=> Deciding(v)
                               /\ After(v)' = After(v)
  BY OthersStay DEF Only
<1>2. \A v \in Clients : /\ flights'[v].row = r /\ Deciding(v)' <=> flights[v].row = r /\ Deciding(v)
                         /\ flights[v].row = r /\ Deciding(v) => After(v)' = After(v)
  BY <1>1
<1>3. QED
  BY <1>2 DEF Due

\* What a row is due it was due before, or its entry is on the way.
LEMMA DueMoves ==
  ASSUME RingInv, OneWriter, [Next]_vars, Whole', NEW r \in Rows, ~LetOff(r)'
  PROVE  \/ \A k \in Keys : Due(r, k)' => Due(r, k)
         \/ \A k \in Keys : Due(r, k)' => Outstanding(r, k)'
<1>1. StoredTypes /\ CallTypes /\ RulesTrue
  BY DEF RingInv
<1>2. ~LetOff(r) /\ r \notin ghost.overlapped
  BY <1>1, LetOffGrows DEF LetOff
<1>3. CASE ~Client
  <2>1. UNCHANGED <<flights, row>>
    BY <1>3, OthersLeaveFlights, OthersLeaveRow
  <2>2. QED
    BY <2>1 DEF Due, Deciding, After, Deletes
<1>4. ASSUME NEW w \in Clients,
             \/ Route(w) \/ PreRead(w) \/ Execute(w) \/ ExecuteUnanswered(w)
             \/ Prepare(w) \/ AbortTx(w) \/ CommitTx(w) \/ CommitRow(w)
      PROVE  \/ \A k \in Keys : Due(r, k)' => Due(r, k)
             \/ \A k \in Keys : Due(r, k)' => Outstanding(r, k)'
  <2>1. Only(w)
    <3>1. \/ Route(w) \/ PreRead(w) \/ flights' = Done(w)
          \/ \E p : flights' = [flights EXCEPT ![w].pc = p]
      BY <1>4 DEF Execute, ExecuteUnanswered, Prepare, AbortTx, CommitTx, CommitRow
    <3>2. QED
      BY <1>1, <3>1, FlightEffect
  <2>2. \A v \in Clients \ {w} : /\ flights'[v] = flights[v]
                                 /\ Deciding(v)' <=> Deciding(v)
                                 /\ After(v)' = After(v)
    BY <2>1, OthersStay DEF Only
  <2>3. flights' = Done(w) => ~Deciding(w)'
    BY <1>1, FlightEffect DEF Deciding
  <2>4. row \in [Rows -> Values] /\ (flights[w].pc \in Live => flights[w].row \in Rows)
    BY <1>1 DEF StoredTypes, CallTypes
  <2>5. CASE Route(w) \/ PreRead(w) \/ Prepare(w) \/ AbortTx(w)
    <3>1. row' = row
      BY <2>5 DEF Route, PreRead, Prepare, AbortTx, shardVars
    <3>2. ~Deciding(w)
      BY <2>5 DEF Route, PreRead, Prepare, AbortTx, Ready, Deciding
    <3>3. ~Deciding(w)'
      <4>1. CASE Route(w) \/ PreRead(w)
        BY <1>1, <4>1, FlightEffect DEF Deciding
      <4>2. CASE Prepare(w) \/ AbortTx(w)
        <5>1. flights' = Done(w) \/ flights' = [flights EXCEPT ![w].pc = "prepared"]
          BY <4>2 DEF Prepare, AbortTx
        <5>2. QED
          BY <1>1, <5>1, FlightEffect DEF Deciding
      <4>3. QED
        BY <2>5, <4>1, <4>2
    <3>4. QED
      BY <2>1, <3>1, <3>2, <3>3, DueStays
  <2>6. CASE Execute(w) \/ ExecuteUnanswered(w)
    <3>1. flights[w].pc \in {"routed", "read"} /\ ~Deciding(w) /\ ~Deciding(w)'
      BY <2>3, <2>6 DEF Execute, ExecuteUnanswered, Ready, Deciding
    <3>2. CASE row'[r] = row[r]
      BY <2>1, <3>1, <3>2, DueStays
    <3>3. CASE row'[r] # row[r]
      <4>1. /\ ~RowLocked(flights[w].row) /\ Affects(w)
            /\ row' = [row EXCEPT ![flights[w].row] = After(w)]
        BY <2>6, <3>3 DEF Execute, ExecuteUnanswered
      <4>2. flights[w].row = r /\ row'[r] = After(w)
        BY <2>4, <3>3, <4>1
      <4>3. Execute(w)
        BY <1>1, <2>6, <4>2 DEF ExecuteUnanswered, LetOff, StoredTypes, Ghost
      <4>4. Deltas(w) \subseteq upkeep' /\ ghost' = Unseen(w, Overlap(w)) /\ UNCHANGED rule
        BY <4>1, <4>3 DEF Execute, catalogVars
      <4>5. flights[w].ring # <<>>
        <5>1. rule[Home].ring # <<>>
          BY <4>4 DEF Whole
        <5>2. \E c \in Catalogs : Registered(c)
          BY <5>1, BoundsAreNat, RingsAreRegistered
        <5>3. Overlap(w) \in Ghost
          BY <1>1, <2>4, <3>1 DEF Overlap, StoredTypes, Ghost, Live
        <5>4. flights[w].ring = <<>> => r \in ghost'.unseen
          BY <4>2, <4>4, <5>2, <5>3 DEF Unseen, Ring, Ghost
        <5>5. QED
          BY <5>4 DEF LetOff
      <4>6. \A k \in Keys : Due(r, k)' => After(w) = k
        <5>1. \A v \in Clients \ {w} : flights[v].row = r => ~Deciding(v)
          BY <4>1, <4>2 DEF RowLocked, Deciding
        <5>2. \A v \in Clients : flights'[v].row = r => ~Deciding(v)'
          BY <2>2, <3>1, <5>1
        <5>3. QED
          BY <4>2, <5>2 DEF Due
      <4>7. row[r] # After(w)
        BY <3>3, <4>2
      <4>8. /\ flights[w].pc \in Live
            /\ flights[w].op # "insert" => flights[w].pc \in {"read", "prepared", "committing"}
            /\ flights[w].op = "update" => row[r] # Gone
        BY <3>1, <4>1, <4>2, <4>3, <4>5 DEF Execute, Ready, NeedsPreRead, Ring, Affects, Live
      <4>9. QED
        BY <1>1, <1>2, <4>2, <4>4, <4>5, <4>6, <4>7, <4>8, WriteIsDue
    <3>4. QED
      BY <3>2, <3>3
  <2>7. CASE CommitTx(w)
    <3>1. /\ flights[w].pc = "prepared" /\ Keeps(w) /\ flights'[w].pc = "committing"
          /\ ~Deciding(w) /\ UNCHANGED row /\ upkeep' = upkeep \cup Intents(w)
      BY <1>1, <2>7, FlightEffect DEF CommitTx, Deciding, shardVars
    <3>2. CASE flights[w].row # r \/ flights[w].ring = <<>>
      BY <2>1, <3>1, <3>2, DueStays DEF Keeps, Deciding
    <3>3. CASE flights[w].row = r /\ flights[w].ring # <<>>
      <4>1. IsTx(w) /\ \A v \in Clients : Writing(v, r) => v = w
        BY <1>2, <3>1, <3>3 DEF OneWriter, Writing
      <4>2. \A v \in Clients \ {w} : flights[v].row = r => ~Deciding(v)
        BY <4>1 DEF Writing, Deciding
      <4>3. After(w)' = After(w) /\ Deciding(w)' /\ flights'[w].row = r
        BY <3>1, <3>3, KeptStays DEF Keeps, Deciding
      <4>4. \A k \in Keys : Due(r, k)' => After(w) = k
        BY <2>2, <4>2, <4>3 DEF Due
      <4>5. Deltas(w) \subseteq upkeep'
        BY <3>1, <4>1 DEF Intents
      <4>6. \/ \A k \in Keys : After(w) = k => Outstanding(r, k)'
            \/ row[r] = After(w)
        BY <1>1, <1>2, <3>1, <3>3, <4>1, <4>5, WriteIsDue DEF Live, IsTx
      <4>7. row[r] = After(w) => \A k : After(w) = k => Due(r, k)
        BY <3>1, <4>2 DEF Due
      <4>8. QED
        BY <4>4, <4>6, <4>7
    <3>4. QED
      BY <3>2, <3>3
  <2>8. CASE CommitRow(w)
    <3>1. /\ flights[w].pc = "committing" /\ ~Deciding(w)'
          /\ row' = [row EXCEPT ![flights[w].row] = After(w)]
          /\ ghost' = Unseen(w, ghost) /\ UNCHANGED rule
      BY <2>3, <2>8 DEF CommitRow, catalogVars
    <3>2. CASE flights[w].row # r
      <4>1. row'[r] = row[r]
        BY <2>4, <3>1, <3>2
      <4>2. QED
        BY <2>1, <3>1, <3>2, <4>1, DueStays
    <3>3. CASE flights[w].row = r
      <4>1. flights[w].ring # <<>>
        <5>1. rule[Home].ring # <<>>
          BY <3>1 DEF Whole
        <5>2. \E c \in Catalogs : Registered(c)
          BY <5>1, BoundsAreNat, RingsAreRegistered
        <5>3. ghost \in Ghost
          BY <1>1 DEF StoredTypes
        <5>4. flights[w].ring = <<>> => r \in ghost'.unseen
          BY <3>1, <3>3, <5>2, <5>3 DEF Unseen, Ring, Ghost
        <5>5. QED
          BY <5>4 DEF LetOff
      <4>2. Deciding(w) /\ \A v \in Clients : Writing(v, r) => v = w
        BY <1>2, <3>1, <3>3, <4>1 DEF OneWriter, Writing, Deciding
      <4>3. \A v \in Clients \ {w} : flights[v].row = r => ~Deciding(v)
        BY <4>2 DEF Writing, Deciding
      <4>4. row'[r] = After(w)
        BY <2>4, <3>1, <3>3
      <4>5. \A k \in Keys : Due(r, k)' => After(w) = k
        BY <2>2, <3>1, <4>3, <4>4 DEF Due
      <4>6. \A k : After(w) = k => Due(r, k)
        BY <3>3, <4>2 DEF Due
      <4>7. QED
        BY <4>5, <4>6
    <3>4. QED
      BY <3>2, <3>3
  <2>9. QED
    BY <1>4, <2>5, <2>6, <2>7, <2>8
<1>5. QED
  BY <1>3, <1>4 DEF Client

\* An entry on its way stays on its way, or arrives where a query looks.
LEMMA OutstandingMoves ==
  ASSUME RingInv, AimTrue, [Next]_vars, Whole, NEW r, NEW k \in Keys, ~LetOff(r)',
         Outstanding(r, k)
  PROVE  \/ Outstanding(r, k)' \/ <<r, k>> \in entries'[Here(k)']
         \/ Ahead(k)' /\ <<r, k>> \in entries'[leave'.substitute]
<1> DEFINE Arrived == \/ <<r, k>> \in entries'[Here(k)']
                      \/ Ahead(k)' /\ <<r, k>> \in entries'[leave'.substitute]
<1> HIDE DEF Arrived
<1>1. StoredTypes /\ CallTypes /\ entries \in [Shards -> SUBSET Entry] /\ ghost \in Ghost
  BY DEF RingInv, StoredTypes
<1>2. ~LetOff(r)
  BY <1>1, LetOffGrows
<1>3. PICK u \in upkeep : u.row = r /\ u.key = k /\ ~u.del /\ u.ran = {}
  BY DEF Outstanding
<1>4. u \in Write
  BY <1>1, <1>3 DEF CallTypes
<1>5. (u \in upkeep') => Outstanding(r, k)'
  BY <1>3 DEF Outstanding
<1>6. CASE Client
  <2>1. upkeep \subseteq upkeep'
    BY <1>6
    DEF Client, Route, PreRead, Execute, ExecuteUnanswered, Prepare, AbortTx, CommitTx, CommitRow,
        clientVars
  <2>2. QED
    BY <1>5, <2>1
<1>7. CASE ~Client /\ ~Upkeep
  BY <1>5, <1>7, OthersLeaveUpkeep
<1>8. ASSUME NEW v \in upkeep, Deliver(v) \/ Resolve(v) \/ Fails(v) \/ Unanswered(v) \/ Lose(v)
      PROVE  Outstanding(r, k)' \/ Arrived
  <2>1. CASE v # u
    <3>1. u \in upkeep'
      BY <1>8, <2>1 DEF Deliver, Resolve, Fails, Unanswered, Lose, Replace
    <3>2. QED
      BY <1>5, <3>1
  <2>2. ASSUME v = u, NEW x, Replace(u, x), x.row = r, x.key = k, ~x.del, x.ran = {}
        PROVE  Outstanding(r, k)'
    BY <2>2 DEF Replace, Outstanding
  <2>3. CASE Resolve(u)
    <3>1. PICK x \in {[u EXCEPT !.at = Place(u.key, RingNow)], [u EXCEPT !.stage = "queued"]} :
            Replace(u, x)
      BY <2>3 DEF Resolve
    <3>2. x.row = r /\ x.key = k /\ ~x.del /\ x.ran = {}
      BY <1>3, <1>4, <3>1 DEF Write
    <3>3. CASE v # u
      BY <2>1, <3>3
    <3>4. QED
      BY <2>2, <3>1, <3>2, <3>3
  <2>4. CASE Fails(u)
    <3> DEFINE x == [u EXCEPT !.stage = "queued", !.at = u.to]
    <3>1. Replace(u, x)
      BY <2>4 DEF Fails
    <3>2. x.row = r /\ x.key = k /\ ~x.del /\ x.ran = {}
      BY <1>3, <1>4 DEF Write
    <3>3. QED
      BY <2>1, <2>2, <3>1, <3>2
  \* It is applied at a shard it aims at, and that is not fenced.
  <2>5. CASE Unanswered(u) \/ Deliver(u)
    <3>1. Apply(u) /\ Accepts(u) /\ UNCHANGED <<fenced, rule, leave>>
      BY <2>5 DEF Unanswered, Deliver, shardVars, catalogVars
    <3>2. u.at \notin fenced
      <4>1. CASE Unanswered(u)
        BY <3>1, <4>1 DEF Unanswered, Accepts
      <4>2. CASE Deliver(u)
        BY <1>1, <1>3, <3>1, <4>2 DEF Deliver, Accepts, LetOff, Ghost
      <4>3. QED
        BY <2>5, <4>1, <4>2
    <3>3. Aim(k, u.at)
      BY <1>2, <1>3 DEF AimTrue, LetOff
    <3>4. u.at = Here(k) \/ (Ahead(k) /\ u.at = leave.substitute)
      BY <3>2, <3>3 DEF Aim, Behind
    <3>5. <<r, k>> \in entries'[u.at]
      BY <1>1, <1>3, <1>4, <3>1 DEF Apply, Write
    <3>6. Here(k)' = Here(k) /\ (Ahead(k) => Ahead(k)') /\ leave'.substitute = leave.substitute
      BY <3>1 DEF Here, Ahead, There, Marked
    <3>7. QED
      BY <3>4, <3>5, <3>6 DEF Arrived
  <2>6. CASE Lose(u)
    BY <1>1, <1>3, <2>6 DEF Lose, LetOff, Ghost
  <2>7. QED
    BY <1>8, <2>1, <2>3, <2>4, <2>5, <2>6
<1>9. QED
  BY <1>6, <1>7, <1>8 DEF Upkeep, Arrived

\* An entry that a row is due is not taken away but from the source.
LEMMA EntryStays ==
  ASSUME RingInv, OneWriter, OpsTrue, [Next]_vars, Whole, NEW r, NEW k, NEW s \in Shards,
         ~LetOff(r), Due(r, k), <<r, k>> \in entries[s]
  PROVE  <<r, k>> \in entries'[s] \/ (MoveDeletes /\ s = Leaving)
<1> USE BoundsAreNat
<1>1. /\ StoredTypes /\ CallTypes /\ entries \in [Shards -> SUBSET Entry] /\ mover \in Move
      /\ upkeep \in SUBSET Write
      /\ leave \in [draining : BOOLEAN, op : 0 .. MaxOps,
                    substitute : (Shards \ {Leaving}) \cup {NoShard}]
  BY DEF RingInv, StoredTypes, CallTypes
<1>2. Registered(Home)
  BY RingsAreRegistered DEF Whole
<1>3. CASE entries' = entries
  BY <1>3
<1>4. ASSUME NEW u \in upkeep, Apply(u)
      PROVE  <<r, k>> \in entries'[s]
  <2>1. u \in Write /\ ~(u.del /\ u.row = r /\ u.key = k)
    BY <1>1, <1>4 DEF OneWriter
  <2>2. CASE u.at \in u.ran
    BY <1>4, <2>2 DEF Apply
  <2>3. CASE u.at \notin u.ran /\ u.del
    BY <1>1, <1>4, <2>1, <2>3 DEF Apply
  <2>4. CASE u.at \notin u.ran /\ ~u.del
    BY <1>1, <1>4, <2>1, <2>4 DEF Apply
  <2>5. QED
    BY <2>2, <2>3, <2>4
<1>5. CASE Upkeep
  <2>1. PICK u \in upkeep : Deliver(u) \/ Resolve(u) \/ Fails(u) \/ Unanswered(u) \/ Lose(u)
    BY <1>5 DEF Upkeep
  <2>2. CASE Deliver(u) \/ Unanswered(u)
    BY <1>4, <2>2 DEF Deliver, Unanswered
  <2>3. CASE Resolve(u) \/ Fails(u) \/ Lose(u)
    BY <1>3, <2>3 DEF Resolve, Fails, Lose, shardVars
  <2>4. QED
    BY <2>1, <2>2, <2>3
<1>6. CASE Client \/ Query \/ UNCHANGED vars
  BY <1>3, <1>6
  DEF Client, Route, PreRead, Execute, ExecuteUnanswered, Prepare, AbortTx, CommitTx, CommitRow,
      Query, QueryLookup, QueryRing, QueryShadow, QueryAnswer, vars, shardVars
<1>7. CASE Gateway
  <2>1. ~\E t \in Shards : CleanShard(t)
    BY <1>2 DEF CleanShard, OpsTrue
  <2>2. CASE \/ CreateBegins \/ CreateVerifies \/ StartBackfill \/ DropBegins \/ GatewayStops
             \/ LeaseLapses
    BY <1>3, <2>2
    DEF CreateBegins, CreateVerifies, StartBackfill, DropBegins, GatewayStops, LeaseLapses, shardVars
  <2>3. CASE \E c \in Catalogs : Register(c) \/ Unregister(c)
    BY <1>3, <2>3 DEF Register, Unregister, shardVars
  <2>4. CASE \E t \in Shards : AddShard(t)
    BY <1>3, <2>4 DEF AddShard, shardVars
  <2>5. QED
    BY <1>7, <2>1, <2>2, <2>3, <2>4 DEF Gateway
<1>8. CASE Filler
  <2>1. CASE FillWrite
    BY <1>1, <2>1 DEF FillWrite
  <2>2. CASE Filler /\ ~FillWrite
    BY <1>3, <2>2
    DEF Filler, FillScan, FillRefresh, FillPageEnds, FillEnds, MarkReady, FillFails, FillStops
  <2>3. QED
    BY <1>8, <2>1, <2>2
<1>9. CASE Mover
  <2>1. CASE MoveImports
    BY <1>1, <2>1 DEF MoveImports
  <2>2. CASE MoveDeletes
    BY <1>1, <2>2 DEF MoveDeletes
  <2>3. CASE \/ StartDrain \/ MoveFences \/ MoveMarks \/ MoveResumes \/ MoveRepoints \/ MoveEnds
             \/ MoveStops
    BY <1>3, <2>3
    DEF StartDrain, MoveFences, MoveMarks, MoveResumes, MoveRepoints, MoveEnds, MoveStops, shardVars
  <2>4. CASE MoveFlushes \/ MoveFlushesBlind \/ MoveConverges
    BY <1>3, <2>4 DEF MoveFlushes, MoveFlushesBlind, MoveConverges
  <2>5. CASE MoveExports
    BY <1>3, <2>5 DEF MoveExports
  <2>6. CASE \E c \in Catalogs : FanRepoint(c) \/ FanUnshadow(c)
    BY <1>3, <2>6, FansAreSet
  <2>7. QED
    BY <1>9, <2>1, <2>2, <2>3, <2>4, <2>5, <2>6 DEF Mover
<1>10. QED
  BY <1>5, <1>6, <1>7, <1>8, <1>9 DEF Next

\* An entry where a query looks stays there, or goes where it then looks.
LEMMA AtMoves ==
  ASSUME RingInv, OneWriter, OpsTrue, CloseTrue, CopyTrue, [Next]_vars, Whole, Whole',
         NEW r \in Rows, NEW k \in Keys, ~LetOff(r), Due(r, k), At(r, k)
  PROVE  Outstanding(r, k)' \/ At(r, k)'
<1> USE BoundsAreNat
<1>1. /\ StoredTypes /\ CallTypes /\ DrainTrue /\ SourceTrue /\ mover \in Move
      /\ leave \in [draining : BOOLEAN, op : 0 .. MaxOps,
                    substitute : (Shards \ {Leaving}) \cup {NoShard}]
  BY DEF RingInv, StoredTypes, CallTypes
<1>2. rule[Home].ring # <<>> /\ rule[Home].ring \in Seq(Shards)
  BY RingsAreRegistered DEF Whole
<1>3. Here(k) \in Shards
  BY <1>2, PlaceInRing DEF Here
<1>4. \A s \in Shards : <<r, k>> \in entries[s] =>
        <<r, k>> \in entries'[s] \/ (MoveDeletes /\ s = Leaving)
  BY EntryStays
<1>5. /\ \/ Here(k)' = Here(k)
         \/ /\ Here(k) = Leaving /\ Here(k)' = leave.substitute /\ Shadowed(k)'
            /\ UNCHANGED <<entries, leave>>
      /\ Ahead(k) => /\ leave'.substitute = leave.substitute
                     /\ Ahead(k)' \/ Here(k)' = leave.substitute
      /\ Shadowed(k) => Shadowed(k)' \/ mover.pc = "unshadow"
  BY PlacesMove
<1>6. MoveDeletes => /\ mover.pc = "delete" /\ UNCHANGED <<rule, leave, upkeep>>
                     /\ Here(k) # Leaving
  <2>1. MoveDeletes => mover.pc = "delete" /\ UNCHANGED <<rule, leave, upkeep>>
    BY DEF MoveDeletes, moveFrame, clientVars
  <2>2. QED
    BY <2>1, MovedAway
<1>7. CASE <<r, k>> \in entries[Here(k)]
  BY <1>3, <1>4, <1>5, <1>6, <1>7 DEF At
<1>8. CASE Shadowed(k) /\ <<r, k>> \in entries[Leaving]
  <2>1. mover.pc # "unshadow"
    BY <1>1, <1>8 DEF SourceTrue, LetOff
  <2>2. Shadowed(k)'
    BY <1>5, <1>8, <2>1
  <2>3. CASE <<r, k>> \in entries'[Leaving]
    BY <2>2, <2>3 DEF At
  <2>4. CASE MoveDeletes
    <3>1. Here(k) = leave.substitute /\ Copied(<<r, k>>) /\ mover.pc = "delete"
      BY <1>6, <1>8, <2>4 DEF Shadowed, Copied
    <3>2. Outstanding(r, k) \/ <<r, k>> \in entries[leave.substitute]
      BY <3>1 DEF CopyTrue
    <3>3. Outstanding(r, k) => Outstanding(r, k)'
      BY <1>6, <2>4 DEF Outstanding
    <3>4. QED
      BY <1>3, <1>4, <1>6, <2>4, <3>1, <3>2, <3>3 DEF At, Here
  <2>5. QED
    BY <1>4, <1>8, <2>3, <2>4
<1>9. CASE Ahead(k) /\ <<r, k>> \in entries[leave.substitute]
  <2>1. leave.substitute \in Shards \ {Leaving}
    BY <1>1, <1>9 DEF Ahead, Marked
  <2>2. QED
    BY <1>4, <1>5, <1>9, <2>1 DEF At
<1>10. QED
  BY <1>7, <1>8, <1>9 DEF At

\* A settled row stays settled.
LEMMA SettledStays ==
  ASSUME RingInv, OneWriter, OpsTrue, CloseTrue, AimTrue, CopyTrue, [Next]_vars, Whole, Whole',
         NEW r \in Rows
  PROVE  /\ Settled(r) => Settled(r)'
         /\ \A k0 \in Keys : (\A k \in Keys : Due(r, k) => k = k0) =>
              Settled(r)' \/ \A k \in Keys : Due(r, k)' => k = k0
<1>1. LetOff(r) => LetOff(r)'
  BY LetOffGrows DEF RingInv
<1>2. ASSUME Settled(r), ~LetOff(r)', NEW k \in Keys, Due(r, k)'
      PROVE  Outstanding(r, k)' \/ At(r, k)'
  <2>1. Outstanding(r, k)' \/ Due(r, k)
    BY <1>2, DueMoves
  <2>2. Due(r, k) => Outstanding(r, k) \/ At(r, k)
    BY <1>1, <1>2 DEF Settled
  <2>3. QED
    BY <1>1, <1>2, <2>1, <2>2, OutstandingMoves, AtMoves DEF At
<1>3. ASSUME NEW k0 \in Keys, \A k \in Keys : Due(r, k) => k = k0
      PROVE  Settled(r)' \/ \A k \in Keys : Due(r, k)' => k = k0
  BY <1>3, DueMoves DEF Settled
<1>4. QED
  BY <1>2, <1>3 DEF Settled

-----------------------------------------------------------------------------
(* The backfill leaves no row behind.                                      *)

\* A page holds the first of the rows, up to its last; one that is not full, all.
LEMMA PageTakesAll ==
  ASSUME NEW S \in SUBSET Rows, NEW r \in S
  PROVE  /\ First(S, PageSize) # {}
         /\ r \in First(S, PageSize) \/ (/\ ~(r <= Largest(First(S, PageSize)))
                                         /\ ~(Cardinality(First(S, PageSize)) < PageSize))
<1> DEFINE Upto(t) == {q \in S : q <= t}
           page == First(S, PageSize)
<1>1. NRows \in Nat /\ PageSize \in Nat \ {0} /\ S \in SUBSET Nat
  BY IndexAssumption DEF Rows
<1>2. IsFiniteSet(S)
  <2>1. IsFiniteSet(Rows)
    BY <1>1, FS_Interval DEF Rows
  <2>2. QED
    BY <2>1, FS_Subset
<1>3. \A t : IsFiniteSet(Upto(t)) /\ Cardinality(Upto(t)) \in Nat
  <2> TAKE t
  <2>1. Upto(t) \in SUBSET S
    OBVIOUS
  <2>2. QED
    BY <1>2, <2>1, FS_Subset, FS_CardinalityType
<1>4. page \in SUBSET S /\ \A t \in S : t \in page <=> Cardinality(Upto(t)) <= PageSize
  BY DEF First
<1> HIDE DEF page
<1>5. IsFiniteSet(page) /\ Cardinality(page) \in Nat
  BY <1>2, <1>4, FS_Subset, FS_CardinalityType
<1>6. page # {}
  <2>1. PICK m \in S : \A y \in S : m <= y
    BY <1>1, HasLeast
  <2>2. Upto(m) = {m}
    <3>1. \A q \in S : q <= m => q = m
      <4> TAKE q \in S
      <4>1. m <= q /\ q \in Nat /\ m \in Nat
        BY <1>1, <2>1
      <4>2. QED
        BY <4>1
    <3>2. m <= m
      BY <1>1, <2>1
    <3>3. QED
      BY <2>1, <3>1, <3>2
  <2>3. Cardinality({m}) = 1
    BY FS_Singleton
  <2>4. QED
    BY <1>1, <1>4, <2>1, <2>2, <2>3
<1>7. ASSUME r \notin page
      PROVE  ~(r <= Largest(page))
  <2>1. Largest(page) \in page
    BY <1>4, <1>6, PageHasEnds
  <2>2. ASSUME NEW t \in page, r <= t
        PROVE  FALSE
    <3>1. Upto(r) \in SUBSET Upto(t)
      <4>1. r \in Nat /\ t \in Nat /\ r <= t
        BY <1>1, <1>4, <2>2
      <4>2. \A q \in S : q <= r => q <= t
        <5> TAKE q \in S
        <5>1. q \in Nat
          BY <1>1
        <5>2. QED
          BY <4>1, <5>1
      <4>3. QED
        BY <4>2
    <3>2. Cardinality(Upto(r)) <= Cardinality(Upto(t))
      BY <1>3, <3>1, FS_Subset
    <3>3. Cardinality(Upto(t)) <= PageSize /\ ~(Cardinality(Upto(r)) <= PageSize)
      BY <1>4, <1>7, <2>2
    <3>4. Cardinality(Upto(r)) \in Nat /\ Cardinality(Upto(t)) \in Nat
      BY <1>3
    <3>5. QED
      BY <1>1, <3>2, <3>3, <3>4
  <2>3. QED
    BY <2>1, <2>2
<1>8. ASSUME r \notin page
      PROVE  ~(Cardinality(page) < PageSize)
  <2>1. S \ page \in SUBSET Nat /\ S \ page # {}
    BY <1>1, <1>8
  <2>2. PICK m \in S \ page : \A y \in S \ page : m <= y
    BY <2>1, HasLeast
  <2>3. Upto(m) \in SUBSET (page \cup {m})
    <3>1. \A q \in S : q <= m /\ q \notin page => q = m
      <4> TAKE q \in S
      <4>1. q \in Nat /\ m \in Nat /\ (q \notin page => m <= q)
        BY <1>1, <2>2
      <4>2. QED
        BY <4>1
    <3>2. QED
      BY <3>1
  <2>4. IsFiniteSet(page \cup {m}) /\ Cardinality(page \cup {m}) = Cardinality(page) + 1
    BY <1>5, <2>2, FS_AddElement
  <2>5. Cardinality(Upto(m)) <= Cardinality(page) + 1
    BY <2>3, <2>4, FS_Subset
  <2>6. Cardinality(Upto(m)) \in Nat /\ ~(Cardinality(Upto(m)) <= PageSize)
    BY <1>3, <1>4, <2>2
  <2>7. QED
    BY <1>1, <1>5, <2>5, <2>6
<1>9. QED
  BY <1>6, <1>7, <1>8 DEF page

\* The lock is as it was, or free, or of a new operation.
LEMMA LockMoves ==
  ASSUME [Next]_vars
  PROVE  lock' \in {lock, NoOp, NextOp}
<1>1. CASE lock' = lock
  BY <1>1
<1>2. CASE Client
  <2>1. lock' = lock
    BY <1>2
    DEF Client, Route, PreRead, Execute, ExecuteUnanswered, Prepare, AbortTx, CommitTx, CommitRow,
        catalogVars
  <2>2. QED
    BY <2>1
<1>3. CASE Upkeep
  <2>1. lock' = lock
    BY <1>3 DEF Upkeep, Deliver, Resolve, Fails, Unanswered, Lose, catalogVars
  <2>2. QED
    BY <2>1
<1>4. CASE Query \/ UNCHANGED vars
  <2>1. lock' = lock
    BY <1>4 DEF Query, QueryLookup, QueryRing, QueryShadow, QueryAnswer, vars, catalogVars
  <2>2. QED
    BY <2>1
<1>5. CASE Gateway
  <2>1. CASE CreateBegins \/ DropBegins
    BY <2>1 DEF CreateBegins, DropBegins, Take
  <2>2. CASE StartBackfill \/ GatewayStops \/ LeaseLapses
    BY <2>2 DEF StartBackfill, GatewayStops, LeaseLapses, Drop
  <2>3. CASE CreateVerifies
    BY <2>3 DEF CreateVerifies, catalogVars
  <2>4. CASE \E c \in Catalogs : Register(c) \/ Unregister(c)
    BY <2>4 DEF Register, Unregister
  <2>5. CASE \E s \in Shards : CleanShard(s) \/ AddShard(s)
    BY <2>5 DEF CleanShard, AddShard, Drop
  <2>6. QED
    BY <1>5, <2>1, <2>2, <2>3, <2>4, <2>5 DEF Gateway
<1>6. CASE Filler
  <2>1. CASE FillScan \/ FillRefresh \/ FillWrite \/ FillPageEnds \/ FillEnds \/ FillStops
    BY <2>1 DEF FillScan, FillRefresh, FillWrite, FillPageEnds, FillEnds, FillStops
  <2>2. CASE FillFails \/ \E c \in Catalogs : MarkReady(c)
    BY <2>2 DEF FillFails, MarkReady, Drop
  <2>3. QED
    BY <1>6, <2>1, <2>2 DEF Filler
<1>7. CASE Mover
  <2>1. CASE StartDrain \/ MoveEnds
    BY <2>1 DEF StartDrain, MoveEnds, Take, Drop
  <2>2. CASE MoveFences \/ MoveMarks \/ MoveResumes \/ MoveRepoints \/ MoveStops
    BY <2>2 DEF MoveFences, MoveMarks, MoveResumes, MoveRepoints, MoveStops
  <2>3. CASE MoveFlushes \/ MoveFlushesBlind \/ MoveImports \/ MoveConverges \/ MoveDeletes
    BY <2>3 DEF MoveFlushes, MoveFlushesBlind, MoveImports, MoveConverges, MoveDeletes
  <2>4. CASE MoveExports
    BY <2>4 DEF MoveExports
  <2>5. CASE \E c \in Catalogs : FanRepoint(c) \/ FanUnshadow(c)
    BY <2>5 DEF FanRepoint, FanUnshadow
  <2>6. QED
    BY <1>7, <2>1, <2>2, <2>3, <2>4, <2>5 DEF Mover
<1>8. QED
  BY <1>2, <1>3, <1>4, <1>5, <1>6, <1>7 DEF Next

\* A backfill that holds the lock has held it since it began.
LEMMA LiveFillIsOld ==
  ASSUME StoredTypes, OpsTrue, [Next]_vars, fill'.on = fill.on, fill'.op = fill.op, FillLive'
  PROVE  FillLive
<1>1. /\ used.ops \in 0 .. MaxOps /\ fill.op \in 0 .. MaxOps /\ fill.op <= used.ops
      /\ MaxOps \in Nat
  BY BoundsAreNat DEF StoredTypes, FillRow, OpsTrue
<1>2. fill.op # NextOp
  BY <1>1 DEF NextOp
<1>3. QED
  BY <1>2, LockMoves DEF FillLive

\* Clients and the drain leave the backfill, and what the index's status is.
LEMMA OthersLeaveFill ==
  ASSUME StoredTypes, [Next]_vars, ~Gateway, ~Filler
  PROVE  UNCHANGED <<fill, filler>> /\ \A c \in Catalogs : rule'[c].status = rule[c].status
<1>1. CASE Client \/ Upkeep \/ Query \/ UNCHANGED vars
  <2>1. CASE Client
    BY <2>1
    DEF Client, Route, PreRead, Execute, ExecuteUnanswered, Prepare, AbortTx, CommitTx, CommitRow,
        catalogVars, handlerVars
  <2>2. CASE Upkeep
    BY <2>2 DEF Upkeep, Deliver, Resolve, Fails, Unanswered, Lose, catalogVars, handlerVars
  <2>3. CASE Query \/ UNCHANGED vars
    BY <2>3
    DEF Query, QueryLookup, QueryRing, QueryShadow, QueryAnswer, vars, catalogVars, handlerVars
  <2>4. QED
    BY <1>1, <2>1, <2>2, <2>3
<1>2. CASE Mover
  <2>1. UNCHANGED <<fill, filler>>
    BY <1>2, DrainFrame
  <2>2. CASE \E c \in Catalogs : FanRepoint(c) \/ FanUnshadow(c)
    BY <2>1, <2>2, FansKeepStatus
  <2>3. CASE Mover /\ ~\E c \in Catalogs : FanRepoint(c) \/ FanUnshadow(c)
    <3>1. CASE \/ StartDrain \/ MoveFences \/ MoveMarks \/ MoveResumes \/ MoveRepoints
               \/ MoveEnds \/ MoveStops
      BY <2>1, <3>1
      DEF StartDrain, MoveFences, MoveMarks, MoveResumes, MoveRepoints, MoveEnds, MoveStops
    <3>2. CASE MoveFlushes \/ MoveFlushesBlind \/ MoveImports \/ MoveConverges \/ MoveDeletes
      BY <2>1, <3>2 DEF MoveFlushes, MoveFlushesBlind, MoveImports, MoveConverges, MoveDeletes
    <3>3. CASE MoveExports
      BY <2>1, <3>3 DEF MoveExports
    <3>4. QED
      BY <2>3, <3>1, <3>2, <3>3 DEF Mover
  <2>4. QED
    BY <1>2, <2>2, <2>3
<1>3. QED
  BY <1>1, <1>2 DEF Next

\* The gateway puts no row behind the backfill.
LEMMA GatewayFillsNone ==
  ASSUME RingInv, OpsTrue, Gateway, Whole, NEW r \in Rows, Filled(r)'
  PROVE  Filled(r)
<1> USE BoundsAreNat
<1>1. /\ StoredTypes /\ CallTypes /\ rule \in [Catalogs -> Rule] /\ [Next]_vars
      /\ NRows \in Nat
  BY DEF RingInv, StoredTypes, Next
<1>2. filler' = filler
  <2>1. CASE \/ CreateBegins \/ CreateVerifies \/ StartBackfill \/ DropBegins \/ GatewayStops
             \/ LeaseLapses
    BY <2>1
    DEF CreateBegins, CreateVerifies, StartBackfill, DropBegins, GatewayStops, LeaseLapses,
        handlerVars
  <2>2. CASE \E c \in Catalogs : Register(c) \/ Unregister(c)
    BY <2>2 DEF Register, Unregister
  <2>3. CASE \E s \in Shards : CleanShard(s) \/ AddShard(s)
    BY <2>3 DEF CleanShard, AddShard, handlerVars
  <2>4. QED
    BY <2>1, <2>2, <2>3 DEF Gateway
<1>3. Registered(Home)
  BY RingsAreRegistered DEF Whole
<1>4. ASSUME fill' = fill \/ ~FillLive' \/ ~(fill'.past \/ r <= fill'.at),
             rule'[Home].status = "ready" => rule[Home].status = "ready"
      PROVE  Filled(r)
  <2>1. fill' = fill /\ FillLive' => FillLive
    BY <1>1, LiveFillIsOld
  <2>2. QED
    BY <1>2, <1>4, <2>1 DEF Filled
<1>5. CASE UNCHANGED <<fill, rule>>
  BY <1>4, <1>5
<1>6. ASSUME NEW c \in Catalogs, Register(c)
      PROVE  Filled(r)
  <2>1. fill' = fill /\ (rule' = rule \/ (~Registered(c) /\ c # Home))
    BY <1>3, <1>6 DEF Register
  <2>2. rule'[Home] = rule[Home]
    BY <1>1, <1>6, <2>1, RegisterEffect
  <2>3. QED
    BY <1>4, <2>1, <2>2
<1>7. ASSUME NEW c \in Catalogs, Unregister(c)
      PROVE  Filled(r)
  <2>1. fill' = fill \/ ~FillLive'
    BY <1>7 DEF Unregister, NoFill, FillLive
  <2>2. rule'[Home] \in {rule[Home], NoRule}
    BY <1>1, <1>7, UnregisterEffect
  <2>3. QED
    BY <1>4, <2>1, <2>2 DEF NoRule
<1>8. CASE StartBackfill
  <2>1. CASE UNCHANGED <<fill, rule>>
    BY <1>5, <2>1
  <2>2. CASE /\ rule' = [rule EXCEPT ![Zero].status = "building"]
             /\ fill' = [on |-> TRUE, past |-> FALSE, at |-> 0, op |-> gateway.op]
    <3>1. ~(fill'.past \/ r <= fill'.at)
      BY <1>1, <2>2 DEF Rows
    <3>2. rule'[Home].status \in {rule[Home].status, "building"}
      BY <1>1, <2>2
    <3>3. QED
      BY <1>4, <3>1, <3>2
  <2>3. QED
    BY <1>8, <2>1, <2>2 DEF StartBackfill
<1>9. CASE \/ CreateBegins \/ CreateVerifies \/ DropBegins \/ GatewayStops \/ LeaseLapses
           \/ \E s \in Shards : CleanShard(s) \/ AddShard(s)
  <2>1. UNCHANGED <<fill, rule>>
    BY <1>9
    DEF CreateBegins, CreateVerifies, DropBegins, GatewayStops, LeaseLapses, CleanShard, AddShard,
        catalogVars
  <2>2. QED
    BY <1>5, <2>1
<1>10. QED
  BY <1>6, <1>7, <1>8, <1>9 DEF Gateway

\* How a row comes to be behind the backfill.
LEMMA FilledMoves ==
  ASSUME RingInv, OpsTrue, CloseTrue, [Next]_vars, Whole, NEW r \in Rows, Filled(r)'
  PROVE  \/ Filled(r)
         \/ row[r] = Gone
         \/ FillWrite /\ filler.to \notin fenced /\ r = Smallest(filler.page)
<1> USE BoundsAreNat
<1>1. /\ StoredTypes /\ CallTypes /\ rule \in [Catalogs -> Rule] /\ filler \in Tick
      /\ fill \in FillRow /\ NRows \in Nat /\ ~ghost.forked
  BY DEF RingInv, StoredTypes, CallTypes, Whole
<1>2. CASE ~Gateway /\ ~Filler
  <2>1. UNCHANGED <<fill, filler>> /\ rule'[Home].status = rule[Home].status
    BY <1>1, <1>2, OthersLeaveFill
  <2>2. FillLive' => FillLive
    BY <1>1, <2>1, LiveFillIsOld
  <2>3. QED
    BY <2>1, <2>2 DEF Filled
<1>3. CASE Gateway
  BY <1>3, GatewayFillsNone
<1>4. CASE FillScan
  <2> DEFINE S == {q \in Rows : q > fill.at /\ row[q] # Gone}
             page == First(S, PageSize)
  <2>1. FillLive /\ UNCHANGED <<rule, lock>>
    BY <1>1, <1>4, DueTickHasRing DEF FillScan
  <2>2. r \in S => /\ page # {}
                   /\ r \in page \/ (~(r <= Largest(page)) /\ ~(Cardinality(page) < PageSize))
    BY PageTakesAll
  <2>3. r \notin S => Filled(r) \/ row[r] = Gone
    BY <1>1, <2>1 DEF Filled, FillRow, Rows
  <2> HIDE DEF S
  <2>4. CASE page = {}
    BY <2>2, <2>3, <2>4
  <2>5. CASE /\ filler' = [NoTick EXCEPT !.pc = "refresh", !.ring = rule[Zero].ring,
                             !.page = page, !.last = Largest(page),
                             !.short = Cardinality(page) < PageSize]
             /\ fill' = fill
    <3>1. /\ filler'.pc = "refresh" /\ filler'.page = page /\ filler'.last = Largest(page)
          /\ filler'.short = (Cardinality(page) < PageSize)
      BY <2>5 DEF NoTick
    <3>2. \/ rule[Home].status = "ready" \/ (FillLive /\ (fill.past \/ r <= fill.at))
          \/ (Cardinality(page) < PageSize \/ r <= Largest(page)) /\ r \notin page
      BY <2>1, <2>5, <3>1 DEF Filled, FillLive
    <3>3. QED
      BY <2>2, <2>3, <3>2 DEF Filled
  <2>6. QED
    BY <1>4, <2>4, <2>5 DEF FillScan, S
<1>5. CASE FillRefresh
  <2>1. UNCHANGED <<rule, fill, lock>> /\ filler.pc = "refresh"
    BY <1>5 DEF FillRefresh
  <2> DEFINE q == Smallest(filler.page)
  <2>2. CASE row[q] = Gone /\ filler' = [filler EXCEPT !.page = @ \ {q}]
    <3>1. filler'.pc = "refresh" /\ filler'.page = filler.page \ {q}
          /\ filler'.last = filler.last /\ filler'.short = filler.short
      BY <1>1, <2>1, <2>2 DEF Tick
    <3>2. QED
      BY <2>1, <2>2, <3>1 DEF Filled, FillLive
  <2>3. CASE filler' = [filler EXCEPT !.pc = "write", !.key = row[q], !.to = Place(row[q], filler.ring)]
    <3>1. filler'.pc = "write" /\ filler'.page = filler.page
          /\ filler'.last = filler.last /\ filler'.short = filler.short
      BY <1>1, <2>3 DEF Tick
    <3>2. QED
      BY <2>1, <3>1 DEF Filled, FillLive
  <2>4. QED
    BY <1>5, <2>2, <2>3 DEF FillRefresh
<1>6. CASE FillWrite
  <2>1. UNCHANGED <<rule, fill, lock>> /\ filler.pc = "write"
    BY <1>6 DEF FillWrite
  <2> DEFINE q == Smallest(filler.page)
  <2>2. CASE filler.to \notin fenced /\ filler' = [filler EXCEPT !.pc = "refresh", !.page = @ \ {q}]
    <3>1. filler'.pc = "refresh" /\ filler'.page = filler.page \ {q}
          /\ filler'.last = filler.last /\ filler'.short = filler.short
      BY <1>1, <2>2 DEF Tick
    <3>2. QED
      BY <1>6, <2>1, <2>2, <3>1 DEF Filled, FillLive
  <2>3. CASE filler' = [filler EXCEPT !.to = Place(filler.key, RingNow)]
    <3>1. filler'.pc = "write" /\ filler'.page = filler.page
          /\ filler'.last = filler.last /\ filler'.short = filler.short
      BY <1>1, <2>1, <2>3 DEF Tick
    <3>2. QED
      BY <2>1, <3>1 DEF Filled, FillLive
  <2>4. CASE filler' = NoTick
    <3>1. filler'.pc = "idle"
      BY <2>4 DEF NoTick
    <3>2. QED
      BY <2>1, <3>1 DEF Filled, FillLive
  <2>5. QED
    BY <1>6, <2>2, <2>3, <2>4 DEF FillWrite
<1>7. CASE FillPageEnds
  <2>1. /\ UNCHANGED <<rule, lock>> /\ filler'.pc = "idle"
        /\ filler.pc = "refresh" /\ filler.page = {}
    BY <1>7 DEF FillPageEnds, NoTick
  <2>2. \/ fill' = fill
        \/ filler.short
        \/ fill' = [fill EXCEPT !.at = filler.last]
    BY <1>7 DEF FillPageEnds
  <2>3. filler.short \/ r <= filler.last => Filled(r)
    BY <2>1 DEF Filled
  <2>4. CASE fill' = fill
    BY <2>1, <2>4 DEF Filled, FillLive
  <2>5. CASE fill' = [fill EXCEPT !.at = filler.last]
    <3>1. fill'.on = fill.on /\ fill'.op = fill.op /\ fill'.past = fill.past /\ fill'.at = filler.last
      BY <1>1, <2>5 DEF FillRow
    <3>2. QED
      BY <2>1, <2>3, <3>1 DEF Filled, FillLive
  <2>6. QED
    BY <2>2, <2>3, <2>4, <2>5
<1>8. CASE FillEnds
  BY <1>1, <1>8, DueTickHasRing DEF FillEnds, Filled
<1>9. CASE \E c \in Catalogs : MarkReady(c)
  BY <1>9 DEF MarkReady, Filled
<1>10. CASE FillFails
  <2>1. filler'.pc = "idle" /\ fill'.op = NoOp
    BY <1>1, <1>10 DEF FillFails, NoTick, FillRow
  <2>2. rule'[Home].status \in {rule[Home].status, "failed"}
    BY <1>1, <1>10 DEF FillFails
  <2>3. QED
    BY <2>1, <2>2 DEF Filled, FillLive
<1>11. CASE FillStops
  <2>1. filler'.pc = "idle" /\ UNCHANGED <<rule, fill, lock>>
    BY <1>11 DEF FillStops, NoTick
  <2>2. QED
    BY <2>1 DEF Filled, FillLive
<1>12. QED
  BY <1>2, <1>3, <1>4, <1>5, <1>6, <1>7, <1>8, <1>9, <1>10, <1>11 DEF Filler

\* The entry of a write that is decided is on its way, if it changes the row.
LEMMA DecidedIsSettled ==
  ASSUME RingInv, OneWriter, [Next]_vars, NEW w \in Clients, CommitTx(w), NEW r,
         flights[w].row = r, Deciding(w)', After(w) # row[r]
  PROVE  Settled(r)'
<1>1. StoredTypes /\ CallTypes
  BY DEF RingInv
<1>2. /\ flights[w].pc = "prepared" /\ Keeps(w) /\ Only(w)
      /\ upkeep' = upkeep \cup Intents(w) /\ UNCHANGED <<row, ghost>>
  BY <1>1, FlightEffect DEF CommitTx, shardVars
<1>3. SUFFICES ASSUME ~LetOff(r)'
               PROVE  Settled(r)'
  BY DEF Settled
<1>4. ~LetOff(r) /\ r \notin ghost.overlapped /\ flights[w].ring # <<>> /\ r \in Rows
  BY <1>1, <1>2, <1>3 DEF LetOff, Deciding, Keeps, CallTypes, Live
<1>5. IsTx(w) /\ \A v \in Clients : Writing(v, r) => v = w
  BY <1>2, <1>4 DEF OneWriter, Writing
<1>6. Deltas(w) \subseteq upkeep'
  BY <1>2, <1>5 DEF Intents
<1>7. \A k \in Keys : After(w) = k => Outstanding(r, k)'
  BY <1>1, <1>2, <1>4, <1>5, <1>6, WriteIsDue DEF Live, IsTx
<1>8. After(w)' = After(w) /\ flights'[w].row = r
  BY <1>2, KeptStays DEF Keeps
<1>9. \A v \in Clients \ {w} : /\ flights'[v] = flights[v] /\ (Deciding(v)' <=> Deciding(v))
  BY <1>2, OthersStay DEF Only
<1>10. \A v \in Clients \ {w} : flights'[v].row = r => ~Deciding(v)'
  BY <1>5, <1>9 DEF Writing, Deciding
<1>11. \A k \in Keys : Due(r, k)' => After(w) = k
  BY <1>8, <1>10 DEF Due
<1>12. QED
  BY <1>7, <1>11 DEF Settled

\* A row that is not there, or whose value is known, is settled but for that value.
LEMMA DueIsRead ==
  ASSUME FilledTrue, Whole, NEW r
  PROVE  Settled(r) \/ \A k : Due(r, k) => k = row[r]
<1>1. CASE \E w \in Clients : Deciding(w) /\ flights[w].row = r /\ After(w) # row[r]
  BY <1>1 DEF FilledTrue
<1>2. CASE ~\E w \in Clients : Deciding(w) /\ flights[w].row = r /\ After(w) # row[r]
  BY <1>2 DEF Due
<1>3. QED
  BY <1>1, <1>2

\* Rows behind the backfill are settled; what a write changes is.
LEMMA FilledTrueStep ==
  ASSUME RingInv, OneWriter, OpsTrue, CloseTrue, AimTrue, CopyTrue, FilledTrue, [Next]_vars,
         StoredTypes', CallTypes'
  PROVE  FilledTrue'
<1> USE BoundsAreNat
<1> SUFFICES ASSUME Whole'
             PROVE  FilledTrue'
  BY DEF FilledTrue
<1>1. /\ StoredTypes /\ CallTypes /\ WritesTied /\ RulesTrue /\ ghost \in Ghost
      /\ filler \in Tick /\ row \in [Rows -> Values] /\ entries \in [Shards -> SUBSET Entry]
  BY DEF RingInv, StoredTypes, CallTypes
<1>2. \A r : LetOff(r) => LetOff(r)'
  BY <1>1, LetOffGrows
<1>3. CASE ~Whole
  <2>1. Register(Home) /\ ~Registered(Home) /\ ~Forks(Home)
    BY <1>3, WholeBegins
  <2>2. UNCHANGED <<flights, row, filler, fill, lock>> /\ filler.pc = "idle"
    BY <2>1 DEF Register, clientVars, shardVars, Forks
  <2>3. ~FillLive
    BY <2>1 DEF OpsTrue
  <2>4. rule'[Home].status = "building"
    BY <1>1, <2>1 DEF Register, StoredTypes, NoRule
  <2>5. \A r \in Rows : ~Filled(r)'
    BY <2>2, <2>3, <2>4 DEF Filled, FillLive
  <2>6. \A w \in Clients : Deciding(w) => LetOff(flights[w].row)
    BY <1>1, <2>1 DEF WritesTied, Tied, Deciding, LetOff, Live
  <2>7. \A w \in Clients : \A r : Deciding(w)' /\ r = flights'[w].row => Settled(r)'
    BY <1>2, <2>2, <2>6 DEF Deciding, Settled
  <2>8. QED
    BY <2>2, <2>5, <2>7 DEF FilledTrue
<1>4. CASE Whole
  <2>1. \A r \in Rows : Settled(r) => Settled(r)'
    BY <1>4, SettledStays
  <2>2. \A r \in Rows, k0 \in Keys : (\A k \in Keys : Due(r, k) => k = k0) =>
          Settled(r)' \/ \A k \in Keys : Due(r, k)' => k = k0
    BY <1>4, SettledStays
  <2>3. /\ \A r \in Rows : Filled(r) => Settled(r)
        /\ \A w \in Clients : Deciding(w) /\ After(w) # row[flights[w].row] => Settled(flights[w].row)
        /\ filler.pc = "write" => \A r : r = Smallest(filler.page) =>
             Settled(r) \/ \A k \in Keys : Due(r, k) => k = filler.key
    BY <1>4 DEF FilledTrue
  <2>4. \A r : Settled(r) \/ \A k : Due(r, k) => k = row[r]
    BY <1>4, DueIsRead
  <2>5. ASSUME NEW r \in Rows, Filled(r)'
        PROVE  Settled(r)'
    <3>1. CASE Filled(r)
      BY <2>1, <2>3, <3>1
    <3>2. CASE row[r] = Gone
      <4>1. Settled(r)
        BY <2>4, <3>2 DEF Settled
      <4>2. QED
        BY <2>1, <4>1
    <3>3. CASE FillWrite /\ filler.to \notin fenced /\ r = Smallest(filler.page)
      <4>1. filler.pc = "write" /\ UNCHANGED <<rule, leave>> /\ filler.key \in Keys
        BY <1>1, <3>3 DEF FillWrite, fillFrame, CallTypes
      <4>2. CASE Settled(r)
        BY <2>1, <4>2
      <4>3. CASE \A k \in Keys : Due(r, k)' => k = filler.key
        <5>1. Aim(filler.key, filler.to)
          BY <1>4, <4>1 DEF AimTrue
        <5>2. filler.to = Here(filler.key) \/ (Ahead(filler.key) /\ filler.to = leave.substitute)
          BY <3>3, <5>1 DEF Aim, Behind
        <5>3. filler.to \in Shards
          <6>1. rule[Home].ring \in Seq(Shards) /\ rule[Home].ring # <<>>
            BY <1>4, RingsAreRegistered DEF Whole
          <6>2. Here(filler.key) \in Shards
            BY <4>1, <6>1, PlaceInRing DEF Here
          <6>3. QED
            BY <1>1, <5>2, <6>2 DEF Ahead, Marked, StoredTypes
        <5>4. <<r, filler.key>> \in entries'[filler.to]
          BY <1>1, <3>3, <5>3 DEF FillWrite
        <5>5. \A k : /\ Here(k)' = Here(k) /\ (Ahead(k) => Ahead(k)')
                     /\ leave'.substitute = leave.substitute
          BY <4>1 DEF Here, Ahead, There, Marked
        <5>6. \A k : k = filler.key => At(r, k)'
          BY <5>2, <5>4, <5>5 DEF At
        <5>7. QED
          BY <4>3, <5>6 DEF Settled
      <4>4. QED
        BY <2>2, <2>3, <3>3, <4>1, <4>2, <4>3
    <3>4. QED
      BY <1>4, <2>5, <3>1, <3>2, <3>3, FilledMoves
  <2>6. ASSUME NEW w \in Clients, Deciding(w)', NEW r, r = flights'[w].row, After(w)' # row'[r]
        PROVE  Settled(r)'
    <3>1. r \in Rows
      BY <2>6 DEF CallTypes, Deciding, Live
    <3>2. ASSUME flights'[w] = flights[w], row'[r] = row[r]
          PROVE  Settled(r)'
      <4>1. Deciding(w) /\ After(w) # row[r] /\ flights[w].row = r
        BY <2>6, <3>2 DEF Deciding, After, Deletes
      <4>2. QED
        BY <2>1, <2>3, <3>1, <4>1
    <3>3. CASE ~Client
      <4>1. UNCHANGED <<flights, row>>
        BY <3>3, OthersLeaveFlights, OthersLeaveRow
      <4>2. QED
        BY <3>2, <4>1
    <3>4. ASSUME NEW v \in Clients,
                 \/ Route(v) \/ PreRead(v) \/ Execute(v) \/ ExecuteUnanswered(v)
                 \/ Prepare(v) \/ AbortTx(v) \/ CommitTx(v) \/ CommitRow(v)
          PROVE  Settled(r)'
      <4>1. CASE v = w
        <5>1. \/ Route(w) \/ PreRead(w) \/ flights' = Done(w) \/ CommitTx(w)
              \/ flights' = [flights EXCEPT ![w].pc = "prepared"]
          BY <3>4, <4>1 DEF Execute, ExecuteUnanswered, Prepare, AbortTx, CommitRow
        <5>2. CommitTx(w)
          <6>1. flights'[w].pc = "committing"
            BY <2>6 DEF Deciding
          <6>2. flights' = [flights EXCEPT ![w].pc = "prepared"] => flights'[w].pc = "prepared"
            BY <1>1, FlightEffect
          <6>3. QED
            BY <1>1, <5>1, <6>1, <6>2, FlightEffect
        <5>3. Keeps(w) /\ UNCHANGED row
          BY <1>1, <5>2, FlightEffect DEF CommitTx, shardVars
        <5>4. After(w)' = After(w) /\ flights[w].row = r
          BY <2>6, <5>3, KeptStays DEF Keeps
        <5>5. QED
          BY <2>6, <5>2, <5>3, <5>4, DecidedIsSettled
      <4>2. CASE v # w
        <5>1. Only(v)
          <6>1. \/ Route(v) \/ PreRead(v) \/ flights' = Done(v)
                \/ \E p : flights' = [flights EXCEPT ![v].pc = p]
            BY <3>4 DEF Execute, ExecuteUnanswered, Prepare, AbortTx, CommitTx, CommitRow
          <6>2. QED
            BY <1>1, <6>1, FlightEffect
        <5>2. flights'[w] = flights[w] /\ Deciding(w) /\ flights[w].row = r
          BY <2>6, <4>2, <5>1 DEF Only, Deciding
        <5>3. CASE row'[r] = row[r]
          BY <3>2, <5>2, <5>3
        <5>4. CASE row'[r] # row[r]
          <6>1. RowLocked(r)
            BY <5>2 DEF RowLocked, Deciding
          <6>2. flights[v].row = r /\ flights[v].pc = "committing"
            <7>1. CASE Route(v) \/ PreRead(v) \/ Prepare(v) \/ AbortTx(v) \/ CommitTx(v)
              BY <5>4, <7>1 DEF Route, PreRead, Prepare, AbortTx, CommitTx, shardVars
            <7>2. CASE Execute(v) \/ ExecuteUnanswered(v)
              <8>1. row' = row \/ (~RowLocked(flights[v].row)
                                   /\ row' = [row EXCEPT ![flights[v].row] = After(v)])
                BY <7>2 DEF Execute, ExecuteUnanswered
              <8>2. QED
                BY <1>1, <3>1, <5>4, <6>1, <8>1
            <7>3. CASE CommitRow(v)
              BY <1>1, <3>1, <5>4, <7>3 DEF CommitRow
            <7>4. QED
              BY <3>4, <7>1, <7>2, <7>3
          <6>3. r \in ghost.overlapped
            BY <3>1, <4>2, <5>2, <6>2 DEF OneWriter, Writing, Deciding
          <6>4. LetOff(r)'
            BY <1>2, <6>3 DEF LetOff
          <6>5. QED
            BY <6>4 DEF Settled
        <5>5. QED
          BY <5>3, <5>4
      <4>3. QED
        BY <4>1, <4>2
    <3>5. QED
      BY <3>3, <3>4 DEF Client
  <2>7. ASSUME filler'.pc = "write", NEW r, r = Smallest(filler'.page)
        PROVE  Settled(r)' \/ \A k \in Keys : Due(r, k)' => k = filler'.key
    <3>1. r \in Rows /\ filler'.key \in Keys
      <4>1. filler' \in Tick /\ filler'.page # {} /\ filler'.key \in Keys
        BY <2>7 DEF CallTypes
      <4>2. filler'.page \in SUBSET Rows
        BY <4>1 DEF Tick
      <4>3. QED
        BY <2>7, <4>1, <4>2, PageHasEnds
    <3>2. CASE filler.pc = "write" /\ filler'.page = filler.page /\ filler'.key = filler.key
      BY <2>1, <2>2, <2>3, <2>7, <3>1, <3>2
    <3>3. CASE filler'.page = filler.page /\ filler'.key = row[Smallest(filler.page)]
      <4>1. Settled(r) \/ \A k : Due(r, k) => k = filler'.key
        BY <2>4, <2>7, <3>3
      <4>2. QED
        BY <2>1, <2>2, <3>1, <4>1
    <3>4. QED
      BY <1>1, <2>7, <3>2, <3>3, FillerMoves
  <2>8. (\A r \in Rows : Filled(r) => Settled(r))'
    BY <2>5
  <2>9. (\A w \in Clients : Deciding(w) /\ After(w) # row[flights[w].row] =>
            Settled(flights[w].row))'
    BY <2>6 DEF Settled, Due, At, Outstanding, LetOff
  <2>10. (filler.pc = "write" => LET r == Smallest(filler.page) IN
            Settled(r) \/ \A k \in Keys : Due(r, k) => k = filler.key)'
    <3>1. ASSUME filler'.pc = "write"
          PROVE  \A r : r = Smallest(filler.page)' =>
                   Settled(r)' \/ \A k \in Keys : Due(r, k)' => k = filler'.key
      <4>1. Smallest(filler.page)' = Smallest(filler'.page)
        BY DEF Smallest
      <4>2. QED
        BY <2>7, <3>1, <4>1
    <3>2. QED
      BY <3>1 DEF Settled, Due, At, Outstanding, LetOff
  <2>11. QED
    BY <2>8, <2>9, <2>10 DEF FilledTrue
<1>5. QED
  BY <1>3, <1>4

-----------------------------------------------------------------------------
(* What the drain copies arrives.                                          *)

\* How the copy goes on.
LEMMA CopyMoves ==
  ASSUME RingInv, CopyTrue, [Next]_vars
  PROVE  /\ mover'.pc \notin {"copy", "import"} => mover'.copied = {}
         /\ \A e \in mover'.copied : \/ e \in mover.copied
                                     \/ mover'.pc = "import" /\ mover'.entry = e
         /\ mover'.pc = "delete" => mover' = mover \/ MoveConverges
         /\ mover.pc = "import" => mover' \in {mover, NoMove} \/ MoveImports
<1>1. mover \in Move
  BY DEF RingInv, CallTypes
<1>2. mover.pc \notin {"copy", "import"} => mover.copied = {}
  BY DEF CopyTrue
<1> DEFINE Goal == /\ mover'.pc \notin {"copy", "import"} => mover'.copied = {}
                   /\ \A e \in mover'.copied : \/ e \in mover.copied
                                               \/ mover'.pc = "import" /\ mover'.entry = e
                   /\ mover'.pc = "delete" => mover' = mover \/ MoveConverges
                   /\ mover.pc = "import" => mover' \in {mover, NoMove} \/ MoveImports
<1>3. CASE mover' = mover
  BY <1>2, <1>3
<1>4. CASE mover' = NoMove
  BY <1>4 DEF NoMove
<1>5. ASSUME mover.pc \notin {"copy", "import"}, mover'.pc \notin {"copy", "import", "delete"},
             mover'.copied = mover.copied
      PROVE  Goal
  BY <1>2, <1>5
<1>6. CASE ~Mover
  BY <1>3, <1>6, OthersLeaveDrain
<1>7. CASE StartDrain \/ MoveEnds
  BY <1>3, <1>7 DEF StartDrain, MoveEnds, handlerVars
<1>8. CASE MoveFences \/ MoveMarks \/ MoveResumes
  <2>1. mover.pc \in {"idle", "mark"} /\ \E p \in {"mark", "repoint"} : mover' = [mover EXCEPT !.pc = p]
    BY <1>8 DEF MoveFences, MoveMarks, MoveResumes, MoveDue
  <2>2. QED
    BY <1>1, <1>5, <2>1 DEF Move
<1>9. CASE MoveRepoints
  <2> DEFINE ring == rule[Owner].ring
             new == [i \in DOMAIN ring |-> IF ring[i] = Leaving THEN leave.substitute ELSE ring[i]]
  <2>1. /\ mover.pc = "repoint"
        /\ \/ mover' = [mover EXCEPT !.pc = "flush"]
           \/ mover' = [mover EXCEPT !.pc = "fan", !.todo = Catalogs, !.ring = new]
    BY <1>9 DEF MoveRepoints
  <2> HIDE DEF new
  <2>2. mover'.pc \in {"flush", "fan"} /\ mover'.copied = mover.copied
    BY <1>1, <2>1 DEF Move
  <2>3. QED
    BY <1>5, <2>1, <2>2
<1>10. CASE \E c \in Catalogs : FanRepoint(c)
  <2>1. PICK c \in Catalogs : FanRepoint(c)
    BY <1>10
  <2>2. /\ mover.pc = "fan"
        /\ mover' = [mover EXCEPT !.todo = @ \ {c}, !.pc = IF c = Owner THEN "flush" ELSE @]
    BY <2>1 DEF FanRepoint
  <2>3. mover'.pc \in {"fan", "flush"} /\ mover'.copied = mover.copied
    BY <1>1, <2>2 DEF Move
  <2>4. QED
    BY <1>5, <2>2, <2>3
<1>11. CASE MoveFlushes \/ MoveFlushesBlind
  <2>1. mover.pc = "flush" /\ mover' \in {NoMove, [mover EXCEPT !.pc = "copy"]}
    BY <1>11 DEF MoveFlushes, MoveFlushesBlind
  <2>2. CASE mover' = [mover EXCEPT !.pc = "copy"]
    BY <1>1, <2>1, <2>2 DEF Move
  <2>3. QED
    BY <1>4, <2>1, <2>2
<1>12. CASE MoveExports
  <2>1. PICK e \in Uncopied :
          mover' = [mover EXCEPT !.pc = "import", !.entry = e, !.copied = @ \cup {e}]
    BY <1>12, Zenon DEF MoveExports
  <2>2. mover.pc = "copy" /\ mover'.pc = "import" /\ mover'.entry = e
        /\ mover'.copied = mover.copied \cup {e}
    BY <1>1, <1>12, <2>1 DEF Move, MoveExports
  <2>3. QED
    BY <2>2
<1>13. CASE MoveImports
  <2>1. mover' = [mover EXCEPT !.pc = "copy", !.entry = <<>>]
    BY <1>13 DEF MoveImports
  <2>2. mover'.pc = "copy" /\ mover'.copied = mover.copied
    BY <1>1, <2>1 DEF Move
  <2>3. QED
    BY <1>13, <2>2
<1>14. CASE MoveConverges
  <2>1. mover.pc = "copy" /\ mover' = [mover EXCEPT !.pc = "delete", !.copied = {}]
    BY <1>14 DEF MoveConverges
  <2>2. mover'.pc = "delete" /\ mover'.copied = {}
    BY <1>1, <2>1 DEF Move
  <2>3. QED
    BY <1>14, <2>1, <2>2
<1>15. CASE MoveDeletes
  <2>1. /\ mover.pc = "delete"
        /\ mover' = [mover EXCEPT !.pc = "unshadow", !.todo = Catalogs, !.ring = rule[Owner].ring]
    BY <1>15 DEF MoveDeletes
  <2>2. mover'.pc = "unshadow" /\ mover'.copied = mover.copied
    BY <1>1, <2>1 DEF Move
  <2>3. QED
    BY <1>5, <2>1, <2>2
<1>16. CASE \E c \in Catalogs : FanUnshadow(c)
  <2>1. PICK c \in Catalogs : FanUnshadow(c)
    BY <1>16
  <2>2. mover.pc = "unshadow" /\ mover' \in {NoMove, [mover EXCEPT !.todo = @ \ {c}]}
    BY <2>1 DEF FanUnshadow
  <2>3. CASE mover' = [mover EXCEPT !.todo = @ \ {c}]
    <3>1. mover'.pc = "unshadow" /\ mover'.copied = mover.copied
      BY <1>1, <2>2, <2>3 DEF Move
    <3>2. QED
      BY <1>5, <2>2, <3>1
  <2>4. QED
    BY <1>4, <2>2, <2>3
<1>17. CASE MoveStops
  BY <1>4, <1>17 DEF MoveStops
<1>18. QED
  BY <1>6, <1>7, <1>8, <1>9, <1>10, <1>11, <1>12, <1>13, <1>14, <1>15, <1>16, <1>17 DEF Mover

\* What was copied is at the substitute.
LEMMA CopyTrueStep ==
  ASSUME RingInv, RingInv', OneWriter, OpsTrue, CloseTrue, AimTrue, CopyTrue, [Next]_vars
  PROVE  CopyTrue'
<1> USE BoundsAreNat
<1>1. /\ StoredTypes /\ CallTypes /\ DrainTrue /\ mover \in Move
      /\ entries \in [Shards -> SUBSET Entry] /\ ghost' \in Ghost
      /\ leave \in [draining : BOOLEAN, op : 0 .. MaxOps,
                    substitute : (Shards \ {Leaving}) \cup {NoShard}]
  BY DEF RingInv, StoredTypes, CallTypes
<1>2. /\ mover'.pc \notin {"copy", "import"} => mover'.copied = {}
      /\ \A e \in mover'.copied : e \in mover.copied \/ (mover'.pc = "import" /\ mover'.entry = e)
      /\ mover'.pc = "delete" => mover' = mover \/ MoveConverges
      /\ mover.pc = "import" => mover' \in {mover, NoMove} \/ MoveImports
  BY CopyMoves
<1>3. ASSUME Whole', NEW r \in Rows, NEW k \in Keys, ~LetOff(r)', Due(r, k)', Copied(<<r, k>>)',
             Here(k)' = leave'.substitute
      PROVE  \/ Outstanding(r, k)' \/ <<r, k>> \in entries'[leave'.substitute]
             \/ mover'.pc = "import" /\ mover'.entry = <<r, k>>
  <2>1. mover'.pc \in {"copy", "import", "delete"}
    BY <1>2, <1>3 DEF Copied
  <2>2. Whole
    <3>1. CASE ~Whole
      <4>1. Register(Home) /\ ~Registered(Home) /\ ~Forks(Home)
        BY <1>3, <3>1, WholeBegins
      <4>2. mover'.pc = "idle"
        BY <4>1 DEF Register, Forks
      <4>3. QED
        BY <2>1, <4>2
    <3>2. QED
      BY <3>1
  <2>3. ~LetOff(r)
    BY <1>1, <1>3, LetOffGrows
  <2>4. CASE Outstanding(r, k)'
    BY <2>4
  <2>5. CASE mover'.pc = "import" /\ mover'.entry = <<r, k>>
    BY <2>5
  <2>6. CASE Due(r, k) /\ ~(mover'.pc = "import" /\ mover'.entry = <<r, k>>)
    <3>1. Copied(<<r, k>>)
      <4>1. CASE <<r, k>> \in mover'.copied
        BY <1>2, <2>6, <4>1 DEF Copied
      <4>2. CASE mover'.pc = "delete" /\ <<r, k>> \in entries'[Leaving]
        <5>1. CASE mover' = mover
          <6>1. Leaving \in fenced
            BY <1>1, <4>2, <5>1 DEF DrainTrue
          <6>2. CASE <<r, k>> \notin entries[Leaving]
            <7>1. r \in ghost'.late
              BY <4>2, <6>1, <6>2, SourceGrows
            <7>2. QED
              BY <1>3, <7>1 DEF LetOff
          <6>3. QED
            BY <4>2, <5>1, <6>2 DEF Copied
        <5>2. CASE MoveConverges
          <6>1. Uncopied = {} /\ entries' = entries
            BY <5>2 DEF MoveConverges
          <6>2. QED
            BY <4>2, <6>1 DEF Uncopied, Copied
        <5>3. QED
          BY <1>2, <4>2, <5>1, <5>2
      <4>3. QED
        BY <1>3, <4>1, <4>2 DEF Copied
    <3>2. mover.pc \in {"copy", "import", "delete"}
      BY <3>1 DEF CopyTrue, Copied
    <3>3. /\ Marked /\ leave.substitute \in Shards \ {Leaving}
          /\ Here(k) # Leaving
      BY <1>1, <2>2, <3>2, MovedAway DEF DrainTrue, Marked
    <3>4. Marked'
      BY <2>1 DEF RingInv, DrainTrue
    <3>5. leave'.substitute = leave.substitute
      BY <3>3, <3>4, MarkerMoves
    <3>6. Here(k)' = Here(k)
      BY <1>3, <2>2, <3>3, PlacesMove
    <3>7. \/ Outstanding(r, k) \/ <<r, k>> \in entries[leave.substitute]
          \/ mover.pc = "import" /\ mover.entry = <<r, k>>
      BY <1>3, <2>2, <2>3, <2>6, <3>1, <3>5, <3>6 DEF CopyTrue
    <3>8. CASE Outstanding(r, k)
      <4>1. ~Ahead(k)'
        BY <3>3, <3>6 DEF Ahead
      <4>2. QED
        BY <1>3, <2>2, <3>8, <4>1, OutstandingMoves
    <3>9. CASE <<r, k>> \in entries[leave.substitute]
      BY <2>2, <2>3, <2>6, <3>3, <3>5, <3>9, EntryStays
    <3>10. CASE mover.pc = "import" /\ mover.entry = <<r, k>>
      <4>1. CASE mover' = mover
        BY <3>10, <4>1
      <4>2. CASE mover' = NoMove
        BY <2>1, <4>2 DEF NoMove
      <4>3. CASE MoveImports
        BY <1>1, <3>3, <3>5, <3>10, <4>3 DEF MoveImports
      <4>4. QED
        BY <1>2, <3>10, <4>1, <4>2, <4>3
    <3>11. QED
      BY <3>7, <3>8, <3>9, <3>10
  <2>7. QED
    BY <1>3, <2>4, <2>5, <2>6, DueMoves
<1>4. QED
  BY <1>2, <1>3 DEF CopyTrue

-----------------------------------------------------------------------------
(* Queries find their row.                                                 *)

\* A query that begins has its row's entry before it.
LEMMA QueryBegins ==
  ASSUME RingInv, CloseTrue, FilledTrue, NEW r \in Rows, row[r] # Gone, Clean(r),
         rule[Home].status = "ready", rule[Home].ring # <<>>, rule[Home].ring = rule[Zero].ring,
         \A c \in Catalogs : Registered(c)
  PROVE  /\ row[r] \in Keys /\ Here(row[r]) \in Shards
         /\ \/ <<r, row[r]>> \in entries[Here(row[r])]
            \/ Leaving \in rule[Home].shadow /\ <<r, row[r]>> \in entries[Leaving]
<1> USE BoundsAreNat
<1>1. /\ row[r] \in Keys
      /\ rule[Home].ring \in Seq(Shards)
  BY RingsAreRegistered DEF RingInv, StoredTypes, Values
<1>2. Here(row[r]) \in Shards
  BY <1>1, PlaceInRing DEF Here
<1>3. Whole
  <2>1. ~ghost.forked
    BY DEF Clean
  <2>2. leave.draining /\ ~InRing(Leaving, rule[Owner].ring) => ~InRing(Leaving, rule[Home].ring)
    BY <2>1 DEF CloseTrue
  <2>3. QED
    BY <2>1, <2>2 DEF Whole
<1>4. Settled(r) /\ ~LetOff(r)
  <2>1. Settled(r)
    BY <1>3 DEF FilledTrue, Filled
  <2>2. ~LetOff(r)
    BY DEF Clean, LetOff
  <2>3. QED
    BY <2>1, <2>2
<1>5. Due(r, row[r])
  BY DEF Due, Clean, RowLocked, Deciding
<1>6. ~Outstanding(r, row[r])
  BY DEF Outstanding, Clean
<1>7. At(r, row[r])
  BY <1>1, <1>4, <1>5, <1>6 DEF Settled
<1>8. ~Ahead(row[r])
  BY DEF Ahead, Here, There
<1>9. QED
  BY <1>1, <1>2, <1>7, <1>8 DEF At, Shadowed

\* What a query counts on stays, or the query is let off.
LEMMA QueryStays ==
  ASSUME QueryTrue, query' = query,
         query.pc # "idle" /\ query.fair =>
           /\ \A c \in Catalogs : Registered(c) => Registered(c)'
           /\ row'[query.row] = row[query.row]
           /\ (\A u \in upkeep : u.row # query.row) => \A u \in upkeep' : u.row # query.row
           /\ \A s \in Shards : Looked(s) => <<query.row, query.key>> \in entries'[s]
  PROVE  QueryTrue'
<1> USE BoundsAreNat
<1>1. \A s : <<query.row, query.key>> \in entries'[s] => Looked(s)'
  BY DEF Looked
<1>2. query.shadow \in SUBSET {Leaving}
  BY DEF QueryTrue
<1>3. ASSUME query.pc # "idle" /\ query.fair
      PROVE  /\ query.pc = "ring" => Looked(query.ring)' \/ \E s \in query.shadow : Looked(s)'
             /\ query.pc = "shadow" => query.found \/ \E s \in query.shadow : Looked(s)'
             /\ query.pc = "answer" => query.found
  <2>1. query.ring \in Shards
    BY <1>3 DEF QueryTrue
  <2>2. \A s \in Shards : Looked(s) => <<query.row, query.key>> \in entries'[s]
    BY <1>3
  <2>3. Looked(query.ring) => Looked(query.ring)'
    BY <2>1, <2>2 DEF Looked
  <2>4. \A s \in query.shadow : Looked(s) => Looked(s)'
    BY <1>1, <1>2, <2>2
  <2>5. QED
    BY <1>3, <2>3, <2>4 DEF QueryTrue
<1>4. QED
  BY <1>3 DEF QueryTrue

\* A query that is disturbed is let off.
LEMMA QueryLetOff ==
  ASSUME QueryTrue, query' = [query EXCEPT !.fair = FALSE]
  PROVE  QueryTrue'
<1>1. query'.fair = FALSE
  BY DEF QueryTrue
<1>2. QED
  BY <1>1 DEF QueryTrue

\* A fair query has its row's entry before it, or has found it.
LEMMA QueryTrueStep ==
  ASSUME RingInv, OpsTrue, CloseTrue, FilledTrue, QueryTrue, [Next]_vars
  PROVE  QueryTrue'
<1> USE BoundsAreNat
<1> DEFINE e == <<query.row, query.key>>
           Look == [pc : {"idle", "ring", "shadow", "answer"}, row : 0 .. NRows, key : Values,
                    ring : Shards \cup {NoShard}, shadow : SUBSET {Leaving}, found : BOOLEAN,
                    fair : BOOLEAN]
<1>1. /\ StoredTypes /\ CallTypes /\ rule \in [Catalogs -> Rule] /\ row \in [Rows -> Values]
      /\ entries \in [Shards -> SUBSET Entry] /\ upkeep \in SUBSET Write /\ query \in Look
      /\ leave \in [draining : BOOLEAN, op : 0 .. MaxOps,
                    substitute : (Shards \ {Leaving}) \cup {NoShard}]
  BY DEF RingInv, StoredTypes, CallTypes, QueryTrue
<1>2. CASE Client
  <2>1. PICK w \in Clients : \/ Route(w) \/ PreRead(w) \/ Execute(w) \/ ExecuteUnanswered(w)
                             \/ Prepare(w) \/ AbortTx(w) \/ CommitTx(w) \/ CommitRow(w)
    BY <1>2 DEF Client
  <2> DEFINE f == flights[w]
  <2>2. UNCHANGED <<rule, entries>>
    BY <2>1 DEF Route, PreRead, Execute, ExecuteUnanswered, Prepare, AbortTx, CommitTx, CommitRow,
                shardVars, catalogVars
  <2>3. CASE UNCHANGED <<row, upkeep, query>>
    BY <2>2, <2>3, QueryStays DEF Looked, Registered
  <2>4. ASSUME flights[w].pc \in Live, Disturb(f.row),
               row' = row \/ row' = [row EXCEPT ![f.row] = After(w)],
               upkeep \subseteq upkeep', \A u \in upkeep' : u \in upkeep \/ u \in Deltas(w)
        PROVE  QueryTrue'
    <3>1. CASE query.row = f.row
      BY <2>4, <3>1, QueryLetOff DEF Disturb
    <3>2. CASE query.row # f.row
      <4>1. query' = query
        BY <2>4, <3>2 DEF Disturb
      <4>2. query.row \in Rows => row'[query.row] = row[query.row]
        BY <1>1, <2>4, <3>2
      <4>3. \A u \in Deltas(w) : u.row = f.row
        BY <1>1, <2>4, DeltasAre
      <4>4. (\A u \in upkeep : u.row # query.row) => \A u \in upkeep' : u.row # query.row
        BY <2>4, <3>2, <4>3
      <4>5. query.pc # "idle" /\ query.fair => query.row \in Rows
        BY DEF QueryTrue
      <4>6. QED
        BY <2>2, <4>1, <4>2, <4>4, <4>5, QueryStays DEF Looked, Registered
    <3>3. QED
      BY <3>1, <3>2
  <2>5. CASE Route(w) \/ PreRead(w) \/ Prepare(w) \/ AbortTx(w)
    BY <2>3, <2>5 DEF Route, PreRead, Prepare, AbortTx, shardVars
  <2>6. CASE Execute(w)
    <3>1. f.pc \in Live
      BY <2>6 DEF Execute, Ready, Live
    <3>2. \/ UNCHANGED <<row, upkeep, query>>
          \/ /\ row' = [row EXCEPT ![f.row] = After(w)] /\ Disturb(f.row)
             /\ upkeep' = upkeep \cup Deltas(w)
      BY <2>6 DEF Execute
    <3>3. QED
      BY <2>3, <2>4, <3>1, <3>2
  <2>7. CASE ExecuteUnanswered(w)
    <3>1. f.pc \in Live
      BY <2>7 DEF ExecuteUnanswered, Ready, Live
    <3>2. row' = [row EXCEPT ![f.row] = After(w)] /\ Disturb(f.row) /\ upkeep' = upkeep
      BY <2>7 DEF ExecuteUnanswered
    <3>3. QED
      BY <2>4, <3>1, <3>2
  <2>8. CASE CommitTx(w)
    <3>1. f.pc \in Live /\ Disturb(f.row) /\ row' = row /\ upkeep' = upkeep \cup Intents(w)
      BY <2>8 DEF CommitTx, shardVars, Live
    <3>2. Intents(w) \subseteq Deltas(w)
      BY DEF Intents
    <3>3. QED
      BY <2>4, <3>1, <3>2
  <2>9. CASE CommitRow(w)
    <3>1. /\ f.pc \in Live /\ Disturb(f.row) /\ row' = [row EXCEPT ![f.row] = After(w)]
          /\ upkeep' = upkeep
      BY <2>9 DEF CommitRow, Live
    <3>2. QED
      BY <2>4, <3>1
  <2>10. QED
    BY <2>1, <2>5, <2>6, <2>7, <2>8, <2>9
<1>3. CASE Upkeep
  <2>1. /\ UNCHANGED <<rule, query>> /\ row' = row
    BY <1>3, OthersLeaveRow
    DEF Upkeep, Deliver, Resolve, Fails, Unanswered, Lose, catalogVars, shardVars
  <2>2. (\A u \in upkeep : u.row # query.row) => \A u \in upkeep' : u.row # query.row
    BY <1>1, <1>3, UpkeepMoves
  <2>3. ASSUME \A u \in upkeep : u.row # query.row, NEW s \in Shards, e \in entries[s]
        PROVE  e \in entries'[s]
    <3>1. PICK u \in upkeep : Deliver(u) \/ Resolve(u) \/ Fails(u) \/ Unanswered(u) \/ Lose(u)
      BY <1>3 DEF Upkeep
    <3>2. u \in Write /\ u.row # query.row
      BY <1>1, <2>3
    <3>3. entries' = entries \/ Apply(u)
      BY <3>1 DEF Deliver, Resolve, Fails, Unanswered, Lose, shardVars
    <3>4. <<u.row, u.key>> # e
      BY <3>2
    <3> HIDE DEF e
    <3>5. CASE entries' = entries
      BY <2>3, <3>5
    <3>6. CASE entries' = [entries EXCEPT ![u.at] = @ \ {<<u.row, u.key>>}]
      BY <1>1, <2>3, <3>2, <3>4, <3>6
    <3>7. CASE entries' = [entries EXCEPT ![u.at] = @ \cup {<<u.row, u.key>>}]
      BY <1>1, <2>3, <3>2, <3>7
    <3>8. QED
      BY <3>3, <3>5, <3>6, <3>7 DEF Apply
  <2>4. query.pc # "idle" /\ query.fair => \A u \in upkeep : u.row # query.row
    BY DEF QueryTrue
  <2>5. QED
    BY <2>1, <2>2, <2>3, <2>4, QueryStays DEF Looked, Registered
<1>4. CASE Query
  <2>1. UNCHANGED <<row, entries, rule, upkeep>>
    BY <1>4 DEF Query, QueryLookup, QueryRing, QueryShadow, QueryAnswer, shardVars, catalogVars,
                clientVars
  <2>2. /\ \A c \in Catalogs : Registered(c)' <=> Registered(c)
    BY <2>1 DEF Registered
  <2>3. ASSUME NEW r \in Rows, QueryLookup(r)
        PROVE  QueryTrue'
    <3> DEFINE fair == /\ Clean(r) /\ rule[Home].ring = rule[Zero].ring
                       /\ \A c \in Catalogs : Registered(c)
    <3>1. /\ row[r] # Gone /\ rule[Home].status = "ready" /\ rule[Home].ring # <<>>
          /\ query' = [pc |-> "ring", row |-> r, key |-> row[r],
                       ring |-> Place(row[r], rule[Home].ring), shadow |-> rule[Home].shadow,
                       found |-> FALSE, fair |-> fair]
      BY <2>3 DEF QueryLookup
    <3>2. /\ query'.pc = "ring" /\ query'.row = r /\ query'.key = row[r] /\ query'.ring = Here(row[r])
          /\ query'.shadow = rule[Home].shadow /\ query'.fair = fair
      BY <3>1 DEF Here
    <3>3. row[r] \in Keys /\ rule[Home].shadow \in SUBSET {Leaving}
      BY <1>1, <3>1 DEF Values, Rule
    <3>4. Here(row[r]) \in Shards
      <4>1. rule[Home].ring \in Seq(Shards)
        BY RingsAreRegistered
      <4>2. QED
        BY <3>1, <3>3, <4>1, PlaceInRing DEF Here
    <3>5. query' \in Look
      <4>1. fair \in BOOLEAN
        OBVIOUS
      <4>2. r \in 0 .. NRows /\ row[r] \in Values /\ Place(row[r], rule[Home].ring) \in Shards
        BY <3>3, <3>4 DEF Rows, Values, Here
      <4> HIDE DEF fair
      <4>3. QED
        BY <3>1, <3>3, <4>1, <4>2
    <3>6. fair => /\ \/ <<r, row[r]>> \in entries[Here(row[r])]
                     \/ Leaving \in rule[Home].shadow /\ <<r, row[r]>> \in entries[Leaving]
                  /\ \A c \in Catalogs : Registered(c)
                  /\ \A u \in upkeep : u.row # r
      BY <3>1, QueryBegins DEF Clean
    <3> HIDE DEF fair
    <3>7. fair => Looked(query.ring)' \/ \E s \in query'.shadow : Looked(s)'
      BY <2>1, <3>2, <3>6 DEF Looked
    <3>8. QED
      BY <2>1, <2>2, <3>2, <3>3, <3>4, <3>5, <3>6, <3>7 DEF QueryTrue
  <2>4. query'.row = query.row /\ query'.key = query.key => \A s : Looked(s)' <=> Looked(s)
    BY <2>1 DEF Looked
  <2>5. CASE QueryRing
    <3> DEFINE b == e \in entries[query.ring]
    <3>1. /\ query.pc = "ring" /\ b \in BOOLEAN /\ (b <=> Looked(query.ring))
          /\ query' = [query EXCEPT !.pc = "shadow", !.found = b]
      BY <2>5 DEF QueryRing, Looked
    <3> HIDE DEF b
    <3>2. /\ query' \in Look /\ query'.pc = "shadow" /\ query'.found = b
          /\ query'.row = query.row /\ query'.key = query.key
          /\ query'.ring = query.ring /\ query'.shadow = query.shadow
          /\ query'.fair = query.fair
          /\ \A s : Looked(s)' <=> Looked(s)
      <4>1. /\ query' \in Look /\ query'.pc = "shadow" /\ query'.found = b
            /\ query'.row = query.row /\ query'.key = query.key
            /\ query'.ring = query.ring /\ query'.shadow = query.shadow
            /\ query'.fair = query.fair
        BY <1>1, <3>1
      <4>2. QED
        BY <2>4, <4>1
    <3>3. ASSUME query'.fair
          PROVE  /\ \A c \in Catalogs : Registered(c)'
                 /\ query.row \in Rows /\ row[query.row] = query.key /\ query.key \in Keys
                 /\ query.ring \in Shards
                 /\ \A u \in upkeep : u.row # query.row
                 /\ b \/ \E s \in query.shadow : Looked(s)
      BY <2>2, <3>1, <3>2, <3>3 DEF QueryTrue
    <3>4. QED
      BY <2>1, <3>2, <3>3 DEF QueryTrue
  <2>6. CASE QueryShadow
    <3> DEFINE b == query.found \/ \E s \in query.shadow : e \in entries[s]
    <3>1. /\ query.pc = "shadow" /\ b \in BOOLEAN
          /\ b <=> query.found \/ \E s \in query.shadow : Looked(s)
          /\ query' = [query EXCEPT !.pc = "answer", !.found = b]
      BY <2>6 DEF QueryShadow, Looked
    <3> HIDE DEF b
    <3>2. /\ query' \in Look /\ query'.pc = "answer" /\ query'.found = b
          /\ query'.row = query.row /\ query'.key = query.key
          /\ query'.ring = query.ring /\ query'.shadow = query.shadow
          /\ query'.fair = query.fair
          /\ \A s : Looked(s)' <=> Looked(s)
      <4>1. /\ query' \in Look /\ query'.pc = "answer" /\ query'.found = b
            /\ query'.row = query.row /\ query'.key = query.key
            /\ query'.ring = query.ring /\ query'.shadow = query.shadow
            /\ query'.fair = query.fair
        BY <1>1, <3>1
      <4>2. QED
        BY <2>4, <4>1
    <3>3. ASSUME query'.fair
          PROVE  /\ \A c \in Catalogs : Registered(c)'
                 /\ query.row \in Rows /\ row[query.row] = query.key /\ query.key \in Keys
                 /\ query.ring \in Shards
                 /\ \A u \in upkeep : u.row # query.row
                 /\ b
      BY <2>2, <3>1, <3>2, <3>3 DEF QueryTrue
    <3>4. QED
      BY <2>1, <3>2, <3>3 DEF QueryTrue
  <2>7. CASE QueryAnswer
    <3>1. query' = NoQuery
      BY <2>7 DEF QueryAnswer
    <3>2. NoQuery \in Look /\ NoQuery.pc = "idle"
      BY DEF NoQuery, Values
    <3>3. QED
      BY <3>1, <3>2 DEF QueryTrue
  <2>8. QED
    BY <1>4, <2>3, <2>5, <2>6, <2>7 DEF Query
\* The others leave the row and its writes, and keep the index and its entries.
<1>5. ASSUME ~Client, ~Upkeep, query' = query,
             query.pc # "idle" /\ query.fair =>
               /\ \A c \in Catalogs : Registered(c) => Registered(c)'
               /\ \A s \in Shards : Looked(s) => e \in entries'[s]
      PROVE  QueryTrue'
  BY <1>5, OthersLeaveRow, OthersLeaveUpkeep, QueryStays
<1>6. CASE UNCHANGED vars
  BY <1>6, QueryStays DEF vars, shardVars, catalogVars, clientVars, Looked, Registered
<1>7. CASE ~Client /\ ~Upkeep /\ Gateway
  <2>1. CASE \/ CreateBegins \/ CreateVerifies \/ DropBegins \/ GatewayStops \/ LeaseLapses
    <3>1. UNCHANGED <<query, rule, entries>>
      BY <2>1 DEF CreateBegins, CreateVerifies, DropBegins, GatewayStops, LeaseLapses, shardVars,
                  catalogVars
    <3>2. QED
      BY <1>5, <1>7, <3>1 DEF Looked, Registered
  <2>2. CASE StartBackfill
    <3>1. UNCHANGED <<query, entries>>
          /\ (rule' = rule \/ rule' = [rule EXCEPT ![Zero].status = "building"])
      BY <2>2 DEF StartBackfill, shardVars
    <3>2. \A c \in Catalogs : rule'[c].status \in {rule[c].status, "building"}
      <4>1. CASE rule' = rule
        BY <4>1
      <4>2. CASE rule' = [rule EXCEPT ![Zero].status = "building"]
        BY <1>1, <4>2 DEF Rule
      <4>3. QED
        BY <3>1, <4>1, <4>2
    <3>3. \A c \in Catalogs : Registered(c) => Registered(c)'
      BY <3>2 DEF Registered
    <3>4. QED
      BY <1>5, <1>7, <3>1, <3>3 DEF Looked
  <2>3. ASSUME NEW c \in Catalogs, Register(c)
        PROVE  QueryTrue'
    <3>1. UNCHANGED <<query, entries>> /\ (rule' = rule \/ ~Registered(c))
      BY <2>3 DEF Register, shardVars
    <3>2. \A d \in Catalogs : Registered(d) => Registered(d)'
      BY <1>1, <2>3, <3>1, RegisterEffect DEF Registered
    <3>3. QED
      BY <1>5, <1>7, <3>1, <3>2 DEF Looked
  <2>4. CASE \E c \in Catalogs : Unregister(c)
    BY <2>4, QueryLetOff DEF Unregister
  <2>5. ASSUME NEW s \in Shards, CleanShard(s)
        PROVE  QueryTrue'
    <3>1. UNCHANGED <<query, rule>> /\ gateway.pc = "clean"
      BY <2>5 DEF CleanShard
    <3>2. ~Registered(Home)
      BY <3>1 DEF OpsTrue
    <3>3. ~(query.pc # "idle" /\ query.fair)
      BY <3>2 DEF QueryTrue
    <3>4. QED
      BY <1>5, <1>7, <3>1, <3>3
  <2>6. CASE \E s \in Shards : AddShard(s)
    <3>1. UNCHANGED <<query, rule, entries>>
      BY <2>6 DEF AddShard, shardVars
    <3>2. QED
      BY <1>5, <1>7, <3>1 DEF Looked, Registered
  <2>7. QED
    BY <1>7, <2>1, <2>2, <2>3, <2>4, <2>5, <2>6 DEF Gateway
<1>8. CASE ~Client /\ ~Upkeep /\ Filler
  <2>1. CASE FillScan \/ FillRefresh \/ FillPageEnds \/ FillEnds \/ FillStops
    <3>1. UNCHANGED <<query, rule, entries>>
      BY <2>1 DEF FillScan, FillRefresh, FillPageEnds, FillEnds, FillStops, fillFrame
    <3>2. QED
      BY <1>5, <1>8, <3>1 DEF Looked, Registered
  <2>2. CASE FillWrite
    <3>1. UNCHANGED <<query, rule>> /\ \A s \in Shards : entries[s] \subseteq entries'[s]
      BY <1>1, <2>2 DEF FillWrite, fillFrame
    <3>2. QED
      BY <1>5, <1>8, <3>1 DEF Looked, Registered
  <2>3. CASE FillFails \/ \E c \in Catalogs : MarkReady(c)
    <3>1. /\ UNCHANGED <<query, entries>>
          /\ \/ rule' = rule
             \/ \E c \in Catalogs, s \in {"ready", "failed"} : rule' = [rule EXCEPT ![c].status = s]
      BY <2>3 DEF FillFails, MarkReady, Readied, fillFrame
    <3>2. \A c \in Catalogs : rule'[c].status \in {rule[c].status, "ready", "failed"}
      <4>1. CASE rule' = rule
        BY <4>1
      <4>2. ASSUME NEW d \in Catalogs, NEW s \in {"ready", "failed"},
                   rule' = [rule EXCEPT ![d].status = s]
            PROVE  \A c \in Catalogs : rule'[c].status \in {rule[c].status, "ready", "failed"}
        BY <1>1, <4>2 DEF Rule
      <4>3. QED
        BY <3>1, <4>1, <4>2
    <3>3. \A c \in Catalogs : Registered(c) => Registered(c)'
      BY <3>2 DEF Registered
    <3>4. QED
      BY <1>5, <1>8, <3>1, <3>3 DEF Looked
  <2>4. QED
    BY <1>8, <2>1, <2>2, <2>3 DEF Filler
<1>9. CASE ~Client /\ ~Upkeep /\ Mover
  <2>1. CASE \/ StartDrain \/ MoveFences \/ MoveMarks \/ MoveResumes \/ MoveRepoints
             \/ MoveEnds \/ MoveStops
    <3>1. UNCHANGED <<query, rule, entries>>
      BY <2>1 DEF StartDrain, MoveFences, MoveMarks, MoveResumes, MoveRepoints, MoveEnds, MoveStops,
                  shardVars
    <3>2. QED
      BY <1>5, <1>9, <3>1 DEF Looked, Registered
  <2>2. CASE MoveFlushes \/ MoveFlushesBlind \/ MoveConverges
    <3>1. UNCHANGED <<query, rule, entries>>
      BY <2>2 DEF MoveFlushes, MoveFlushesBlind, MoveConverges
    <3>2. QED
      BY <1>5, <1>9, <3>1 DEF Looked, Registered
  <2>3. CASE MoveExports
    <3>1. UNCHANGED <<query, rule, entries>>
      BY <2>3 DEF MoveExports
    <3>2. QED
      BY <1>5, <1>9, <3>1 DEF Looked, Registered
  <2>4. CASE MoveImports
    <3>1. UNCHANGED <<query, rule>> /\ \A s \in Shards : entries[s] \subseteq entries'[s]
      BY <1>1, <2>4 DEF MoveImports
    <3>2. QED
      BY <1>5, <1>9, <3>1 DEF Looked, Registered
  <2>5. CASE MoveDeletes
    BY <2>5, QueryLetOff DEF MoveDeletes
  <2>6. ASSUME NEW c \in Catalogs, FanRepoint(c) \/ FanUnshadow(c)
        PROVE  QueryTrue'
    <3>1. UNCHANGED <<query, entries>>
      BY <2>6 DEF FanRepoint, FanUnshadow
    <3>2. \A d \in Catalogs : Registered(d) => Registered(d)'
      BY <2>6, FansAreSet DEF RingIsSet
    <3>3. QED
      BY <1>5, <1>9, <3>1, <3>2 DEF Looked
  <2>7. QED
    BY <1>9, <2>1, <2>2, <2>3, <2>4, <2>5, <2>6 DEF Mover
<1>10. QED
  BY <1>2, <1>3, <1>4, <1>6, <1>7, <1>8, <1>9 DEF Next

\* An index that nobody has made has no query to fail.
LEMMA InitFind == Init => FindInv
<1> SUFFICES ASSUME Init
             PROVE  FindInv
  OBVIOUS
<1> USE BoundsAreNat
<1>1. RingInv
  BY InitRing
<1>2. /\ rule = [c \in Catalogs |-> NoRule] /\ fill = NoFill /\ lock = NoOp
      /\ gateway = NoCall /\ filler = NoTick /\ mover = NoMove
      /\ flights = [w \in Clients |-> NoFlight] /\ upkeep = {} /\ query = NoQuery
      /\ leave = [draining |-> FALSE, op |-> NoOp, substitute |-> NoShard]
      /\ used = [ops |-> 0, faults |-> 0]
  BY DEF Init
<1>3. \A c \in Catalogs : rule[c].ring = <<>> /\ ~Registered(c)
  BY <1>2 DEF Registered, NoRule
<1>4. ~Whole
  BY <1>3 DEF Whole
<1>5. OneWriter
  BY <1>2 DEF OneWriter, NoFlight, Writing
<1>6. OpsTrue
  BY <1>2, <1>3 DEF OpsTrue, NoCall, NoFill, NoOp, FillLive
<1>7. CloseTrue
  BY <1>2, <1>3 DEF CloseTrue, NoMove, Marked
<1>8. AimTrue /\ FilledTrue
  BY <1>4 DEF AimTrue, FilledTrue
<1>9. CopyTrue
  BY <1>2, <1>4 DEF CopyTrue, NoMove
<1>10. QueryTrue
  BY <1>2 DEF QueryTrue, NoQuery, Values
<1>11. QED
  BY <1>1, <1>5, <1>6, <1>7, <1>8, <1>9, <1>10 DEF FindInv

\* And every step keeps where the entries are.
LEMMA FindInvStep ==
  ASSUME FindInv, [Next]_vars
  PROVE  FindInv'
<1>1. RingInv'
  BY RingInvStep DEF FindInv
<1>2. StoredTypes /\ CallTypes /\ StoredTypes' /\ CallTypes'
  BY <1>1 DEF FindInv, RingInv
<1>3. OneWriter' /\ OpsTrue' /\ CloseTrue'
  BY <1>2, OneWriterStep, OpsTrueStep, CloseTrueStep DEF FindInv
<1>4. AimTrue' /\ FilledTrue'
  BY <1>2, AimTrueStep, FilledTrueStep DEF FindInv
<1>5. CopyTrue' /\ QueryTrue'
  BY <1>1, CopyTrueStep, QueryTrueStep DEF FindInv
<1>6. QED
  BY <1>1, <1>3, <1>4, <1>5 DEF FindInv

\* Every row that the code has not given up on has its entry where a query looks,
\* or an index write on its way there, through every backfill, drain, fence,
\* copy, repoint and deletion (src/catalog.ts:2886-2919,
\* src/catalog.ts:3406-3418, src/catalog.ts:3084-3112).
THEOREM FindSafe == Spec => []FindInv
<1>1. Init => FindInv
  BY InitFind
<1>2. FindInv /\ [Next]_vars => FindInv'
  BY FindInvStep
<1>3. QED
  BY <1>1, <1>2, PTL DEF Spec

\* A query of a ready index finds a row by the value it has had all along, if the
\* row's own index writes are done (src/index.ts:3104-3150).
THEOREM RowsAreFound == Spec => []QueriesFindRows
<1>1. FindInv => QueriesFindRows
  BY DEF FindInv, QueryTrue, QueriesFindRows
<1>2. QED
  BY <1>1, FindSafe, PTL
=============================================================================
