--------------------------- MODULE TableScanProofs ---------------------------
(***************************************************************************)
(* Proofs about TableScan, for any tables, shards, page sizes and limits.  *)
(***************************************************************************)
EXTENDS TableScan, FunctionTheorems, FiniteSetTheorems, TLAPS

Page == [rows : SUBSET Keys, scanned : Nat, last : 0 .. NKeys]

ScanState ==
  [pc : {"idle", "ready", "list", "fan", "done"}, limit : Nat \ {0},
   cursor : [Shards -> 0 .. NKeys], asked : SUBSET Shards,
   todo : SUBSET Shards, pages : [Shards -> Page], got : [Keys -> Nat],
   lasting : SUBSET Keys, still : SUBSET Keys, swept : SUBSET Keys,
   gap : BOOLEAN]

FillState ==
  [on : BOOLEAN, todo : SUBSET Shards, at : 0 .. NKeys, page : SUBSET Keys,
   last : BOOLEAN, bad : BOOLEAN, map : [Keys -> Shards]]

\* The shapes of the rows, the routes and the move.
RowTypes ==
  /\ base \in [Shards -> SUBSET Keys] /\ owner \in [Shards -> SUBSET Keys]
  /\ pool \in SUBSET Shards /\ home \in [Keys -> pool]
  /\ \/ move = NoMove
     \/ move \in [pc : {"copy", "purge"}, key : Keys, from : pool, to : pool]

\* The shapes of what the scan, the backfill and the operator are at.
CallTypes ==
  /\ complete \in BOOLEAN
  /\ tokens \in 0 .. Capacity
  /\ scan \in ScanState
  /\ fill \in FillState
  /\ \/ admin = [key |-> 0, shard |-> 0]
     \/ admin \in [key : Keys, shard : Shards]

\* The rows of a shard that have no owner entry.
Hidden(s) == base[s] \ owner[s]

\* A row is on the shard it is routed to, or on the other end of its move;
\* and a row that is moved has its owner at both ends.
RowsPlaced ==
  /\ \A s \in Shards : \A k \in base[s] :
       s = home[k] \/ (move.key = k /\ s \in {move.from, move.to})
  /\ move.pc # "idle" =>
       /\ move.from # move.to
       /\ home[move.key] = IF move.pc = "copy" THEN move.from ELSE move.to
       /\ move.key \notin Hidden(move.from) \cup Hidden(move.to)

\* What the backfill f has read, H being the hidden rows of each shard: the
\* shards behind it hide nothing, and on the one it reads only the page, and
\* what lies ahead, may be hidden.
Known(f, H) ==
  f.on /\ ~f.bad =>
    /\ \A s \in Shards \ f.todo : H[s] = {}
    /\ f.todo # {} =>
         \A k \in H[Min(f.todo)] : k \in f.page \/ (k > f.at /\ ~f.last)

HiddenRows == [s \in Shards |-> Hidden(s)]

FillKnows == Known(fill, HiddenRows)

OwnersInv == RowTypes /\ CallTypes /\ RowsPlaced /\ FillKnows /\ CompleteHidesNothing

\* The rows that the scan owes exactly once.
Owed == scan.lasting \cap scan.still

\* A row that lasts is visible where it is routed to, and one that is owed
\* is nowhere else.
OwedRowsStay ==
  /\ scan.pc = "idle" => scan.lasting = {}
  /\ \A k \in scan.lasting : k \in base[home[k]] \cap owner[home[k]]
  /\ \A k \in Owed : \A s \in Shards : k \in base[s] => s = home[k]

\* A page holds visible rows behind the cursor up to the last entry read, and
\* every owed row there is.
PageTrue(s) ==
  /\ \A k \in scan.pages[s].rows :
       scan.cursor[s] < k /\ k <= scan.pages[s].last
  /\ scan.pages[s].last = 0 \/ scan.cursor[s] < scan.pages[s].last
  /\ Consumed(s) => scan.pages[s].last # 0
  /\ \A k \in Owed :
       k \in scan.pages[s].rows <=>
         /\ s = home[k] /\ scan.cursor[s] < k
         /\ Consumed(s) => k <= scan.pages[s].last

\* What the scan has: an owed row was returned once, when the cursor passed it.
ScanCounts ==
  /\ scan.pc = "idle" => scan.cursor = NoCursor /\ scan.got = [k \in Keys |-> 0]
  /\ scan.pc # "fan" => scan.asked = {}
  /\ scan.todo \subseteq scan.asked
  /\ \A s \in Shards \ (scan.asked \ scan.todo) : scan.pages[s] = NoPage
  /\ \A s \in scan.asked \ scan.todo : PageTrue(s)
  /\ scan.pc = "fan" => \A k \in Owed : home[k] \in scan.asked
  /\ \A k \in Owed :
       scan.got[k] = IF k <= scan.cursor[home[k]] THEN 1 ELSE 0
  /\ scan.pc = "done" => \A k \in Owed : scan.got[k] = 1

ScanInv == OwnersInv /\ OwedRowsStay /\ ScanCounts

\* Where a row is until the migration that moves it ends: after the flip the
\* source keeps its copy, if it had one, to the purge.
Source(k) ==
  IF move.pc = "purge" /\ move.key = k /\ k \in base[move.from] \cap owner[move.from]
    THEN move.from ELSE home[k]

\* The rows that changed shards, but not in the middle of a call.
Followed == scan.lasting \ scan.swept

\* Each call asks the source of a row, all along.
SourcesAsked == scan.pc = "fan" => \A k \in Followed : Source(k) \in scan.asked

\* A page that was read without a gap is what its shard counted.
PageFull(s) ==
  /\ scan.pages[s].scanned = Cardinality(scan.pages[s].rows)
  /\ scan.pages[s].last = 0 \/ scan.pages[s].last \in scan.pages[s].rows

\* A row that is followed and was not returned yet: no shard's cursor is past
\* it, and its source has it on the page, or a full page of earlier rows.
Awaited(k) ==
  /\ scan.pc # "done"
  /\ \A s \in Shards : scan.cursor[s] < k
  /\ Source(k) \in scan.asked \ scan.todo =>
       \/ k \in scan.pages[Source(k)].rows
       \/ Consumed(Source(k)) /\ scan.pages[Source(k)].last < k

RowsFollowed ==
  ~scan.gap /\ scan.limit <= PageSize =>
    /\ \A s \in scan.asked \ scan.todo : PageFull(s)
    /\ \A k \in Followed : scan.got[k] = 0 => Awaited(k)

FollowInv == SourcesAsked /\ RowsFollowed

-----------------------------------------------------------------------------
(* Lemmas on numbers and pages.                                            *)

\* A set of naturals has a least element: Min picks it.
LEMMA MinIsLeast ==
  ASSUME NEW I \in SUBSET Nat, I # {}
  PROVE  Min(I) \in I /\ \A y \in I : Min(I) <= y
<1> DEFINE L == {ss \in Nat \X Nat : ss[1] < ss[2]}
<1>1. IsWellFoundedOn(L, Nat)
  BY NatLessThanWellFounded DEF OpToRel
<1> HIDE DEF L
<1>2. PICK x \in I : \A y \in I : ~(<<y, x>> \in L)
  BY <1>1, WFMin
<1>3. \A y \in I : ~(y < x)
  BY <1>2 DEF L
<1>4. \A y \in I : x <= y
  BY <1>3
<1> QED
  BY <1>4 DEF Min

\* A bounded set of naturals has a greatest element: Max picks it.
LEMMA MaxIsGreatest ==
  ASSUME NEW n \in Nat, NEW I \in SUBSET (0 .. n), I # {}
  PROVE  Max(I) \in I /\ \A y \in I : y <= Max(I)
<1> DEFINE U == {m \in Nat : \A y \in I : y <= m}
<1>1. U # {} /\ U \in SUBSET Nat
  <2>1. n \in U
    OBVIOUS
  <2> QED
    BY <2>1
<1>2. PICK m \in U : \A u \in U : m <= u
  BY <1>1, MinIsLeast
<1>3. m \in I
  <2> SUFFICES ASSUME m \notin I PROVE FALSE
    OBVIOUS
  <2>1. \A y \in I : y < m
    BY <1>2
  <2>2. PICK x \in I : TRUE
    OBVIOUS
  <2>3. m - 1 \in Nat /\ \A y \in I : y <= m - 1
    BY <2>1, <2>2
  <2>4. m - 1 \in U
    BY <2>3
  <2> QED
    BY <1>2, <2>4
<1>4. \A y \in I : y <= m
  BY <1>2
<1> QED
  BY <1>3, <1>4 DEF Max

\* ORDER BY partition_key LIMIT n: the page is a part of what there is, it
\* skips nothing below its last key, and it is all of it when it is short.
LEMMA SmallestIsPrefix ==
  ASSUME NKeys \in Nat, NEW n \in Nat, NEW S \in SUBSET Keys
  PROVE  /\ Smallest(n, S) \subseteq S
         /\ Cardinality(Smallest(n, S)) \in Nat
         /\ \A k \in Smallest(n, S) : \A j \in S : j < k => j \in Smallest(n, S)
         /\ Cardinality(Smallest(n, S)) < n => Smallest(n, S) = S
         /\ Smallest(n, S) = {} => Cardinality(Smallest(n, S)) = 0
<1> DEFINE below(k) == {j \in S : j < k}
<1>7. S \subseteq Nat
  BY DEF Keys
<1>1. IsFiniteSet(S) /\ Smallest(n, S) \in SUBSET S
  <2>1. IsFiniteSet(Keys)
    BY FS_Interval DEF Keys
  <2> QED
    BY <2>1, FS_Subset DEF Smallest
<1>2. \A k \in S : IsFiniteSet(below(k)) /\ Cardinality(below(k)) \in Nat
  BY <1>1, FS_Subset, FS_CardinalityType
<1>3. Cardinality(Smallest(n, S)) \in Nat
  BY <1>1, FS_Subset, FS_CardinalityType
<1>4. ASSUME NEW k \in Smallest(n, S), NEW j \in S, j < k
      PROVE  j \in Smallest(n, S)
  <2>1. k \in S /\ Cardinality(below(k)) < n
    BY DEF Smallest
  <2>2. below(j) \in SUBSET below(k)
    <3>1. ASSUME NEW i \in S, i < j PROVE i < k
      <4>1. i \in Nat /\ j \in Nat /\ k \in Nat
        BY <1>7, <2>1
      <4> QED
        BY <1>4, <3>1, <4>1
    <3> QED
      BY <3>1
  <2>3. Cardinality(below(j)) <= Cardinality(below(k))
    BY <1>2, <2>1, <2>2, FS_Subset
  <2>4. Cardinality(below(j)) < n
    BY <1>2, <2>1, <2>3
  <2> QED
    BY <2>4 DEF Smallest
<1>5. ASSUME Cardinality(Smallest(n, S)) < n, Smallest(n, S) # S PROVE FALSE
  <2>1. S \ Smallest(n, S) # {} /\ S \ Smallest(n, S) \in SUBSET Nat
    BY <1>1, <1>5, <1>7
  <2>2. PICK k \in S \ Smallest(n, S) : \A j \in S \ Smallest(n, S) : k <= j
    BY <2>1, MinIsLeast
  <2>3. below(k) \in SUBSET Smallest(n, S)
    <3>1. ASSUME NEW i \in S, i < k, i \notin Smallest(n, S) PROVE FALSE
      <4>1. i \in Nat /\ k \in Nat /\ k <= i
        BY <1>7, <2>2, <3>1
      <4> QED
        BY <3>1, <4>1
    <3> QED
      BY <3>1
  <2>4. Cardinality(below(k)) <= Cardinality(Smallest(n, S))
    BY <1>1, <2>3, FS_Subset
  <2>5. Cardinality(below(k)) < n
    BY <1>2, <1>3, <1>5, <2>2, <2>4
  <2> QED
    BY <2>2, <2>5 DEF Smallest
<1>6. Smallest(n, S) = {} => Cardinality(Smallest(n, S)) = 0
  BY FS_EmptySet
<1> QED
  BY <1>1, <1>3, <1>4, <1>5, <1>6

\* The greatest of a number and a set of keys.
LEMMA MaxOfKeys ==
  ASSUME NKeys \in Nat, NEW x \in 0 .. NKeys, NEW S \in SUBSET (0 .. NKeys)
  PROVE  /\ Max({x} \cup S) \in {x} \cup S
         /\ Max({x} \cup S) \in 0 .. NKeys
         /\ x <= Max({x} \cup S)
         /\ \A y \in S : y <= Max({x} \cup S)
<1>1. {x} \cup S \in SUBSET (0 .. NKeys) /\ {x} \cup S # {}
  OBVIOUS
<1>2. Max({x} \cup S) \in {x} \cup S /\ \A y \in {x} \cup S : y <= Max({x} \cup S)
  BY <1>1, MaxIsGreatest
<1> QED
  BY <1>1, <1>2

-----------------------------------------------------------------------------
(* Lemmas on a call of the scan.                                           *)

\* The LIMIT that a shard is asked for is at least 1.
LEMMA LimitIsPositive ==
  ASSUME scan \in ScanState, ScanAssumption
  PROVE  PerShardLimit \in Nat \ {0}
<1>1. PageSize \in Nat \ {0} /\ scan.limit \in Nat \ {0}
  BY DEF ScanAssumption, ScanState
<1>2. {PageSize, scan.limit} \in SUBSET Nat /\ {PageSize, scan.limit} # {}
  BY <1>1
<1>3. PerShardLimit \in {PageSize, scan.limit}
  BY <1>2, MinIsLeast DEF PerShardLimit
<1> QED
  BY <1>1, <1>3

\* What a shard answers: a page of visible rows behind the cursor, which, up
\* to the last entry read, or to the end when the LIMIT was not consumed,
\* misses none.
LEMMA PageOfScan ==
  ASSUME RowTypes, scan \in ScanState, NEW s \in Shards
  PROVE  LET p == ScanPage(s)
         IN  /\ p \in Page
             /\ p.rows \subseteq base[s] \cap owner[s]
             /\ \A k \in p.rows : scan.cursor[s] < k /\ k <= p.last
             /\ p.last = 0 \/ scan.cursor[s] < p.last
             /\ p.scanned >= PerShardLimit => p.last # 0
             /\ \A k \in base[s] \cap owner[s] :
                  /\ scan.cursor[s] < k
                  /\ p.scanned >= PerShardLimit => k <= p.last
                  => k \in p.rows
             /\ ~(p.scanned > Cardinality(p.rows)) =>
                  /\ p.scanned = Cardinality(p.rows)
                  /\ p.last = 0 \/ p.last \in p.rows
<1> DEFINE ahead == {k \in owner[s] : k > scan.cursor[s]}
           batch == Smallest(PerShardLimit, ahead)
           last == Max({0} \cup batch)
<1>1. ScanPage(s) = [rows |-> batch \cap base[s], scanned |-> Cardinality(batch), last |-> last]
  BY DEF ScanPage
<1>2. NKeys \in Nat /\ PerShardLimit \in Nat /\ PerShardLimit # 0
  BY ScanAssumption, LimitIsPositive DEF ScanAssumption
<1>3. base[s] \in SUBSET Keys /\ owner[s] \in SUBSET Keys /\ scan.cursor[s] \in 0 .. NKeys
  BY DEF RowTypes, ScanState
<1>4. Keys \subseteq Nat /\ Keys \subseteq 0 .. NKeys /\ 0 \notin Keys
  BY <1>2 DEF Keys
<1>5. ahead \in SUBSET Keys
  BY <1>3
<1>6. /\ batch \subseteq ahead
      /\ Cardinality(batch) \in Nat
      /\ \A k \in batch : \A j \in ahead : j < k => j \in batch
      /\ Cardinality(batch) < PerShardLimit => batch = ahead
      /\ batch = {} => Cardinality(batch) = 0
  <2> HIDE DEF ahead
  <2> QED
    BY <1>2, <1>5, SmallestIsPrefix
<1>7. /\ last \in {0} \cup batch /\ last \in 0 .. NKeys
      /\ \A y \in batch : y <= last
  <2>1. batch \in SUBSET (0 .. NKeys)
    BY <1>4, <1>5, <1>6
  <2> HIDE DEF batch
  <2> QED
    BY <1>2, <2>1, MaxOfKeys
<1>8. \A k \in batch : k \in owner[s] /\ scan.cursor[s] < k
  <2>1. \A k \in ahead : k \in owner[s] /\ scan.cursor[s] < k
    BY <1>3, <1>4
  <2> QED
    BY <1>6, <2>1
<1>9. \A k \in owner[s] : scan.cursor[s] < k => k \in ahead
  BY <1>3, <1>4
<1> HIDE DEF ahead, batch, last
<1>10. ScanPage(s) \in Page
  BY <1>1, <1>3, <1>6, <1>7 DEF Page
<1>11. Cardinality(batch) >= PerShardLimit => last # 0
  <2> SUFFICES ASSUME Cardinality(batch) >= PerShardLimit, last = 0 PROVE FALSE
    OBVIOUS
  <2>1. PICK k \in batch : TRUE
    BY <1>2, <1>6
  <2>2. k \in Keys /\ k <= 0
    BY <1>3, <1>7, <1>8, <2>1
  <2> QED
    BY <1>4, <2>2
<1>12. ASSUME NEW k \in base[s] \cap owner[s], scan.cursor[s] < k,
              Cardinality(batch) >= PerShardLimit => k <= last
       PROVE  k \in batch
  <2>1. k \in ahead /\ k \in Nat /\ k # 0
    BY <1>3, <1>4, <1>9, <1>12
  <2>2. CASE Cardinality(batch) < PerShardLimit
    BY <1>6, <2>1, <2>2
  <2>3. CASE Cardinality(batch) >= PerShardLimit
    <3>1. k <= last /\ last \in batch
      BY <1>7, <1>12, <2>1, <2>3
    <3>2. k = last \/ k < last
      BY <1>7, <2>1, <3>1
    <3> QED
      BY <1>6, <2>1, <3>1, <3>2
  <2> QED
    BY <1>2, <1>6, <2>2, <2>3
<1>13. last = 0 \/ scan.cursor[s] < last
  BY <1>7, <1>8
<1>14. \A k \in batch \cap base[s] : k \in base[s] \cap owner[s] /\ scan.cursor[s] < k /\ k <= last
  BY <1>7, <1>8
<1>15. ASSUME ~(Cardinality(batch) > Cardinality(batch \cap base[s]))
       PROVE  batch \cap base[s] = batch
  <2>1. IsFiniteSet(Keys)
    BY <1>2, FS_Interval DEF Keys
  <2>2. IsFiniteSet(batch) /\ batch \cap base[s] \in SUBSET batch
    BY <1>5, <1>6, <2>1, FS_Subset
  <2>3. Cardinality(batch \cap base[s]) \in Nat
    BY <2>2, FS_Subset, FS_CardinalityType
  <2>4. Cardinality(batch \cap base[s]) <= Cardinality(batch)
    BY <2>2, FS_Subset
  <2>5. Cardinality(batch) = Cardinality(batch \cap base[s])
    BY <1>6, <1>15, <2>3, <2>4
  <2> QED
    BY <2>2, <2>5, FS_Subset
<1> QED
  BY <1>1, <1>7, <1>10, <1>11, <1>12, <1>13, <1>14, <1>15

\* The entries that are merged are those of the pages, finitely many.
LEMMA FetchedRows ==
  ASSUME scan \in ScanState, ScanAssumption
  PROVE  /\ Fetched = {e \in Keys \X Shards : e[2] \in scan.asked /\ e[1] \in scan.pages[e[2]].rows}
         /\ IsFiniteSet(Fetched)
         /\ Kept \subseteq Fetched
<1>1. /\ scan.asked \subseteq Shards
      /\ \A s \in scan.asked : scan.pages[s].rows \subseteq Keys
  BY DEF ScanState, Page
<1>2. \A e : e \in Fetched <=> \E s \in scan.asked : \E k \in scan.pages[s].rows : e = <<k, s>>
  BY DEF Fetched
<1>3. Fetched = {e \in Keys \X Shards : e[2] \in scan.asked /\ e[1] \in scan.pages[e[2]].rows}
  BY <1>1, <1>2
<1>4. IsFiniteSet(Keys \X Shards)
  <2>1. IsFiniteSet(Keys) /\ IsFiniteSet(Shards)
    BY FS_Interval DEF ScanAssumption, Keys
  <2> QED
    BY <2>1, FS_Product
<1>5. IsFiniteSet(Fetched)
  BY <1>3, <1>4, FS_Subset
<1> QED
  BY <1>3, <1>5 DEF Kept

\* Before is the order of the merge, which is cut at a place: what comes
\* before an entry that is kept is kept.
LEMMA KeptIsPrefix ==
  ASSUME scan \in ScanState, ScanAssumption,
         NEW e \in Kept, NEW d \in Fetched, Before(d, e)
  PROVE  d \in Kept
<1> DEFINE first(x) == {c \in Fetched : Before(c, x)}
<1>1. Fetched \subseteq Keys \X Shards /\ IsFiniteSet(Fetched) /\ e \in Fetched
  BY FetchedRows
<1>2. Keys \subseteq Nat /\ Shards \subseteq Nat
  BY ScanAssumption DEF ScanAssumption, Keys
<1>3. ASSUME NEW c \in Fetched, Before(c, d) PROVE Before(c, e)
  <2>1. /\ c[1] \in Nat /\ c[2] \in Nat /\ d[1] \in Nat /\ d[2] \in Nat
        /\ e[1] \in Nat /\ e[2] \in Nat
    BY <1>1, <1>2
  <2> QED
    BY <1>3, <2>1 DEF Before
<1>4. first(d) \in SUBSET first(e)
  BY <1>3
<1>5. IsFiniteSet(first(e)) /\ IsFiniteSet(first(d))
  BY <1>1, FS_Subset
<1>6. Cardinality(first(d)) <= Cardinality(first(e))
  BY <1>4, <1>5, FS_Subset
<1>7. /\ Cardinality(first(d)) \in Nat /\ Cardinality(first(e)) \in Nat
      /\ scan.limit \in Nat
  BY <1>5, FS_CardinalityType DEF ScanState
<1>8. Cardinality(first(e)) < scan.limit
  BY DEF Kept
<1>9. Cardinality(first(d)) < scan.limit
  BY <1>6, <1>7, <1>8
<1> QED
  BY <1>9 DEF Kept

\* Something is kept when there is something: the first entry of all.
LEMMA FirstIsKept ==
  ASSUME scan \in ScanState, ScanAssumption, Fetched # {}
  PROVE  Kept # {}
<1>0. Fetched \subseteq Keys \X Shards
  BY FetchedRows
<1>1. \A d \in Fetched : d[1] \in Keys /\ d[2] \in Shards /\ d = <<d[1], d[2]>>
  BY <1>0
<1>2. Keys \subseteq Nat /\ Shards \subseteq Nat
  BY ScanAssumption DEF ScanAssumption, Keys
<1> DEFINE ks == {k \in Keys : \E s \in Shards : <<k, s>> \in Fetched}
<1>3. ks \in SUBSET Nat /\ ks # {}
  <2>1. PICK d \in Fetched : TRUE
    OBVIOUS
  <2>2. d[1] \in ks
    BY <1>1, <2>1
  <2> QED
    BY <1>2, <2>2
<1>4. PICK k \in ks : \A j \in ks : k <= j
  BY <1>3, MinIsLeast
<1> DEFINE ss == {s \in Shards : <<k, s>> \in Fetched}
<1>5. ss \in SUBSET Nat /\ ss # {}
  BY <1>2, <1>4
<1>6. PICK s \in ss : \A r \in ss : s <= r
  BY <1>5, MinIsLeast
<1>7. ASSUME NEW d \in Fetched, Before(d, <<k, s>>) PROVE FALSE
  <2>1. d[1] \in ks /\ d = <<d[1], d[2]>> /\ d[2] \in Shards
    BY <1>1
  <2>2. k \in Nat /\ s \in Nat /\ d[1] \in Nat /\ d[2] \in Nat /\ k <= d[1]
    BY <1>2, <1>3, <1>4, <1>5, <2>1
  <2>3. d[1] = k /\ d[2] < s
    BY <1>7, <2>2 DEF Before
  <2>4. d[2] \in ss
    BY <2>1, <2>3
  <2> QED
    BY <1>6, <2>2, <2>3, <2>4
<1>8. {d \in Fetched : Before(d, <<k, s>>)} = {}
  BY <1>7
<1>9. Cardinality({d \in Fetched : Before(d, <<k, s>>)}) = 0
  BY <1>8, FS_EmptySet
<1>10. scan.limit > 0
  BY DEF ScanState
<1>11. <<k, s>> \in Kept
  BY <1>6, <1>9, <1>10 DEF Kept
<1> QED
  BY <1>11

\* The rows of a shard that are delivered are of its page, from the front.
LEMMA DeliveredRows ==
  ASSUME scan \in ScanState, ScanAssumption, NEW s \in scan.asked
  PROVE  /\ Delivered(s) \subseteq scan.pages[s].rows
         /\ Delivered(s) \in SUBSET (0 .. NKeys)
         /\ \A k \in Delivered(s) : \A j \in scan.pages[s].rows :
              j < k => j \in Delivered(s)
         /\ Kept = Fetched => Delivered(s) = scan.pages[s].rows
<1>1. scan.pages[s].rows \subseteq Keys /\ s \in Shards
  BY DEF ScanState, Page
<1>2. \A k \in Keys : <<k, s>> \in Fetched <=> k \in scan.pages[s].rows
  BY <1>1, FetchedRows
<1>3. \A k \in Keys : k \in Delivered(s) <=> <<k, s>> \in Kept
  BY DEF Delivered
<1>4. Delivered(s) \subseteq Keys /\ Kept \subseteq Fetched
  BY FetchedRows DEF Delivered
<1>5. Delivered(s) \subseteq scan.pages[s].rows
  BY <1>2, <1>3, <1>4
<1>6. ASSUME NEW k \in Delivered(s), NEW j \in scan.pages[s].rows, j < k
      PROVE  j \in Delivered(s)
  <2>1. <<j, s>> \in Fetched /\ <<k, s>> \in Kept
    BY <1>1, <1>2, <1>3, <1>4
  <2>2. Before(<<j, s>>, <<k, s>>)
    BY <1>6 DEF Before
  <2>3. <<j, s>> \in Kept
    BY <2>1, <2>2, KeptIsPrefix
  <2> QED
    BY <1>1, <1>3, <2>3
<1>7. Kept = Fetched => Delivered(s) = scan.pages[s].rows
  BY <1>1, <1>2, <1>3, <1>5
<1>8. Keys \subseteq 0 .. NKeys
  BY ScanAssumption DEF ScanAssumption, Keys
<1> QED
  BY <1>4, <1>5, <1>6, <1>7, <1>8

\* The next position of a shard: nothing that was delivered lies behind it,
\* and it is a position that the scan has reached.
LEMMA NextPosition ==
  ASSUME scan \in ScanState, ScanAssumption, NEW s \in scan.asked
  PROVE  /\ NextCursor(s) \in 0 .. NKeys
         /\ scan.cursor[s] <= NextCursor(s)
         /\ \A k \in Delivered(s) : k <= NextCursor(s)
         /\ Consumed(s) /\ Delivered(s) = scan.pages[s].rows
              => scan.pages[s].last <= NextCursor(s)
         /\ \/ NextCursor(s) = scan.cursor[s]
            \/ NextCursor(s) \in Delivered(s)
            \/ /\ Consumed(s) /\ Delivered(s) = scan.pages[s].rows
               /\ NextCursor(s) = scan.pages[s].last
<1> DEFINE kept == Max({scan.cursor[s]} \cup Delivered(s))
           last == scan.pages[s].last
           whole == Consumed(s) /\ Delivered(s) = scan.pages[s].rows
<1>1. NKeys \in Nat /\ scan.cursor[s] \in 0 .. NKeys /\ last \in 0 .. NKeys
  BY ScanAssumption DEF ScanAssumption, ScanState, Page
<1>2. /\ kept \in {scan.cursor[s]} \cup Delivered(s) /\ kept \in 0 .. NKeys
      /\ scan.cursor[s] <= kept /\ \A k \in Delivered(s) : k <= kept
  BY <1>1, DeliveredRows, MaxOfKeys
<1>3. NextCursor(s) = IF whole THEN Max({kept, last}) ELSE kept
  BY DEF NextCursor
<1> HIDE DEF kept, last, whole
<1>4. /\ Max({kept, last}) \in {kept, last} /\ Max({kept, last}) \in 0 .. NKeys
      /\ kept <= Max({kept, last}) /\ last <= Max({kept, last})
  <2>1. {kept, last} = {kept} \cup {last} /\ {last} \in SUBSET (0 .. NKeys)
    BY <1>1
  <2> QED
    BY <1>1, <1>2, <2>1, MaxOfKeys
<1>5. NextCursor(s) \in 0 .. NKeys /\ kept <= NextCursor(s)
  BY <1>2, <1>3, <1>4
<1>6. whole => last <= NextCursor(s)
  BY <1>3, <1>4
<1>7. NextCursor(s) = kept \/ (whole /\ NextCursor(s) = last)
  BY <1>3, <1>4
<1>8. Delivered(s) \in SUBSET (0 .. NKeys)
  BY DeliveredRows
<1>9. scan.cursor[s] <= NextCursor(s) /\ \A k \in Delivered(s) : k <= NextCursor(s)
  BY <1>1, <1>2, <1>5, <1>8
<1> QED
  BY <1>2, <1>5, <1>6, <1>7, <1>9 DEF last, whole

-----------------------------------------------------------------------------
(* Types.                                                                  *)

\* Steps of the scan that change nothing else.
Outside == <<base, owner, home, pool, move, complete, fill, admin>>

\* Each step of the scan keeps the shape of the scan.
LEMMA ScanStepTypes ==
  ASSUME RowTypes, CallTypes, Scan \/ Refill
  PROVE  CallTypes' /\ UNCHANGED Outside
<1> USE ScanAssumption
<1>0. scan \in ScanState /\ tokens \in Nat /\ tokens \in 0 .. Capacity /\ Capacity \in Nat
  BY DEF CallTypes, ScanAssumption
<1>1. SUFFICES scan' \in ScanState /\ tokens' \in 0 .. Capacity /\ UNCHANGED Outside
  BY DEF CallTypes, Outside
<1>2. NoPages \in [Shards -> Page]
  BY DEF NoPages, NoPage, Page, ScanAssumption
<1>3. CASE \E l \in Limits : StartScan(l)
  <2>1. PICK l \in Limits : StartScan(l)
    BY <1>3
  <2> DEFINE visible == {k \in Keys : k \in base[home[k]] \cap owner[home[k]]}
             still == {k \in visible : move.pc = "idle" \/ move.key # k}
  <2>2. visible \in SUBSET Keys /\ still \in SUBSET Keys /\ l \in Nat \ {0}
    BY DEF ScanAssumption
  <2>3. scan' = [scan EXCEPT !.pc = "ready", !.limit = l, !.lasting = visible, !.still = still]
    BY <2>1 DEF StartScan
  <2> HIDE DEF visible, still
  <2>4. scan' \in ScanState
    BY <1>0, <2>2, <2>3 DEF ScanState
  <2> QED
    BY <1>0, <2>1, <2>4 DEF StartScan, Outside, rowVars
<1>4. CASE Lookup
  BY <1>0, <1>4 DEF Lookup, ScanState, Outside, rowVars
<1>5. CASE List
  BY <1>0, <1>5 DEF List, ScanState, Outside, rowVars, RowTypes
<1>6. CASE \E s \in Shards : Read(s)
  <2>1. PICK s \in Shards : Read(s)
    BY <1>6
  <2>2. ScanPage(s) \in Page
    BY <1>0, <2>1, PageOfScan
  <2>3. scan' \in ScanState
    BY <1>0, <2>1, <2>2 DEF Read, ScanState
  <2> QED
    BY <1>0, <2>1, <2>3 DEF Read, Outside, rowVars
<1>7. CASE Unreachable
  BY <1>0, <1>2, <1>7 DEF Unreachable, ScanState, Outside, rowVars
<1>8. CASE Merge
  <2> DEFINE cursor == [s \in Shards |-> IF s \in scan.asked THEN NextCursor(s) ELSE scan.cursor[s]]
             got == [k \in Keys |-> scan.got[k] + Cardinality({s \in Shards : <<k, s>> \in Kept})]
             pc == IF MayHaveMore THEN "ready" ELSE "done"
  <2>1. cursor \in [Shards -> 0 .. NKeys]
    BY <1>0, NextPosition DEF ScanState
  <2>2. got \in [Keys -> Nat]
    <3>1. ASSUME NEW k \in Keys
          PROVE  Cardinality({s \in Shards : <<k, s>> \in Kept}) \in Nat
      BY FS_Subset, FS_CardinalityType DEF ScanAssumption
    <3> QED
      BY <1>0, <3>1 DEF ScanState
  <2>3. scan' = [scan EXCEPT !.pc = pc, !.cursor = cursor, !.got = got,
                             !.asked = {}, !.pages = NoPages]
    BY <1>8 DEF Merge
  <2>4. pc \in {"ready", "done"}
    OBVIOUS
  <2> HIDE DEF cursor, got, pc
  <2>5. scan' \in ScanState
    BY <1>0, <1>2, <2>1, <2>2, <2>3, <2>4 DEF ScanState
  <2> QED
    BY <1>0, <1>8, <2>5 DEF Merge, Outside, rowVars
<1>9. CASE Refill
  BY <1>0, <1>9 DEF Refill, Outside, rowVars
<1> QED
  BY <1>3, <1>4, <1>5, <1>6, <1>7, <1>8, <1>9 DEF Scan

\* Writes and moves keep the shape of the rows, the routes and the owners.
LEMMA RowStepTypes ==
  ASSUME RowTypes, CallTypes, Rows
  PROVE  RowTypes' /\ CallTypes'
<1>0. /\ base \in [Shards -> SUBSET Keys] /\ owner \in [Shards -> SUBSET Keys]
      /\ pool \in SUBSET Shards /\ home \in [Keys -> pool]
      /\ scan \in ScanState
      /\ \/ move = NoMove
         \/ move \in [pc : {"copy", "purge"}, key : Keys, from : pool, to : pool]
  BY DEF RowTypes, CallTypes
<1>1. CASE \E k \in Keys : Insert(k)
  <2>1. PICK k \in Keys : Insert(k)
    BY <1>1
  <2>2. base' \in [Shards -> SUBSET Keys] /\ owner' \in [Shards -> SUBSET Keys]
    BY <1>0, <2>1 DEF Insert
  <2> QED
    BY <2>1, <2>2 DEF Insert, RowTypes, CallTypes, NoMove
<1>2. CASE \E k \in Keys : Delete(k)
  <2>1. PICK k \in Keys : Delete(k)
    BY <1>2
  <2>2. base' \in [Shards -> SUBSET Keys] /\ owner' \in [Shards -> SUBSET Keys]
    BY <1>0, <2>1 DEF Delete
  <2>3. scan' \in ScanState
    BY <1>0, <2>1 DEF Delete, ScanState
  <2> QED
    BY <2>1, <2>2, <2>3 DEF Delete, RowTypes, CallTypes, NoMove
<1>3. CASE \E s \in Shards : AddShard(s)
  <2>1. PICK s \in Shards : AddShard(s)
    BY <1>3
  <2>2. pool' \in SUBSET Shards /\ home' \in [Keys -> pool']
    BY <1>0, <2>1 DEF AddShard
  <2>3. \/ move' = NoMove
        \/ move' \in [pc : {"copy", "purge"}, key : Keys, from : pool', to : pool']
    BY <1>0, <2>1 DEF AddShard
  <2> QED
    BY <2>1, <2>2, <2>3 DEF AddShard, rowVars, RowTypes, CallTypes, NoMove
<1>4. CASE \E k \in Keys, t \in Shards : StartMove(k, t)
  <2>1. PICK k \in Keys, t \in Shards : StartMove(k, t)
    BY <1>4
  <2>2. move' \in [pc : {"copy", "purge"}, key : Keys, from : pool, to : pool]
    BY <1>0, <2>1 DEF StartMove
  <2> QED
    BY <2>1, <2>2 DEF StartMove, rowVars, RowTypes, CallTypes
<1>5. CASE CopyRow
  <2>1. move \in [pc : {"copy", "purge"}, key : Keys, from : pool, to : pool]
    BY <1>0, <1>5 DEF CopyRow, NoMove
  <2>2. base' \in [Shards -> SUBSET Keys] /\ owner' \in [Shards -> SUBSET Keys]
    BY <1>0, <1>5, <2>1 DEF CopyRow, Copied
  <2>3. scan' \in ScanState
    BY <1>0, <1>5 DEF CopyRow, ScanState
  <2> QED
    BY <1>5, <2>2, <2>3 DEF CopyRow, RowTypes, CallTypes, NoMove
<1>6. CASE FlipRow
  <2>1. move \in [pc : {"copy", "purge"}, key : Keys, from : pool, to : pool]
    BY <1>0, <1>6 DEF FlipRow, NoMove
  <2>2. home' \in [Keys -> pool]
    BY <1>0, <1>6, <2>1 DEF FlipRow
  <2>3. move' \in [pc : {"copy", "purge"}, key : Keys, from : pool, to : pool]
    BY <1>6, <2>1 DEF FlipRow
  <2> QED
    BY <1>6, <2>2, <2>3 DEF FlipRow, rowVars, RowTypes, CallTypes
<1>7. CASE PurgeRow
  <2>1. base' \in [Shards -> SUBSET Keys] /\ owner' \in [Shards -> SUBSET Keys]
    BY <1>0, <1>7 DEF PurgeRow, DeleteRow
  <2>2. move.key \in Keys
    BY <1>0, <1>7 DEF PurgeRow, NoMove
  <2>3. scan' \in ScanState
    BY <1>0, <1>7, <2>2 DEF PurgeRow, ScanState
  <2> QED
    BY <1>7, <2>1, <2>3 DEF PurgeRow, RowTypes, CallTypes, NoMove
<1>8. CASE AbortMove
  <2>1. base' \in [Shards -> SUBSET Keys] /\ owner' \in [Shards -> SUBSET Keys]
    BY <1>0, <1>8 DEF AbortMove, DeleteRow
  <2> QED
    BY <1>8, <2>1 DEF AbortMove, RowTypes, CallTypes, NoMove
<1> QED
  BY <1>1, <1>2, <1>3, <1>4, <1>5, <1>6, <1>7, <1>8 DEF Rows

\* The next shard's turn keeps the shape of a backfill.
LEMMA TurnedType ==
  ASSUME NKeys \in Nat, NEW f \in FillState
  PROVE  Turned(f) \in FillState
<1>1. CASE f.page = {} /\ f.last
  <2>1. Turned(f) = [f EXCEPT !.todo = @ \ {FillShard}, !.last = FALSE, !.at = 0]
    BY <1>1 DEF Turned
  <2>2. f.todo \ {FillShard} \in SUBSET Shards /\ 0 \in 0 .. NKeys
    BY DEF FillState
  <2> QED
    BY <2>1, <2>2 DEF FillState
<1>2. CASE ~(f.page = {} /\ f.last)
  BY <1>2 DEF Turned
<1> QED
  BY <1>1, <1>2

\* What the backfill and the operator do keeps every shape, and takes no row.
LEMMA OwnerStepTypes ==
  ASSUME RowTypes, CallTypes, Owners
  PROVE  /\ RowTypes' /\ CallTypes'
         /\ UNCHANGED <<base, home, pool, move, scan>>
         /\ \A s \in Shards : owner[s] \subseteq owner'[s]
<1>0. /\ owner \in [Shards -> SUBSET Keys] /\ base \in [Shards -> SUBSET Keys]
      /\ pool \in SUBSET Shards /\ home \in [Keys -> pool]
      /\ fill \in FillState /\ NKeys \in Nat /\ tokens \in 0 .. Capacity
      /\ complete \in BOOLEAN
  BY ScanAssumption DEF RowTypes, CallTypes, ScanAssumption
<1>1. SUFFICES /\ UNCHANGED <<base, home, pool, move, scan>>
               /\ owner' \in [Shards -> SUBSET Keys]
               /\ \A s \in Shards : owner[s] \subseteq owner'[s]
               /\ complete' \in BOOLEAN /\ tokens' \in 0 .. Capacity
               /\ fill' \in FillState
               /\ \/ admin' = [key |-> 0, shard |-> 0]
                  \/ admin' \in [key : Keys, shard : Shards]
  BY DEF RowTypes, CallTypes, NoMove
<1>2. NoFill \in FillState
  BY <1>0 DEF NoFill, FillState
<1>3. CASE StartFill
  <2>1. fill' \in FillState
    <3>1. fill' = [NoFill EXCEPT !.on = TRUE, !.todo = pool, !.map = home]
      BY <1>3 DEF StartFill
    <3>2. home \in [Keys -> Shards]
      BY <1>0
    <3> QED
      BY <1>0, <1>2, <3>1, <3>2 DEF FillState
  <2> QED
    BY <1>0, <1>3, <2>1 DEF StartFill, rowVars, CallTypes
<1>4. CASE FillReads
  <2> DEFINE page == Smallest(FillPage, {k \in base[FillShard] \ owner[FillShard] : k > fill.at})
             f == [fill EXCEPT !.page = page, !.last = Cardinality(page) < FillPage,
                               !.at = Max({fill.at} \cup page)]
  <2>0. fill' = Turned(f)
    BY <1>4 DEF FillReads
  <2>1. page \in SUBSET Keys
    <3>1. page \subseteq base[FillShard]
      BY DEF Smallest
    <3>2. fill.todo \in SUBSET Nat /\ fill.todo # {} /\ fill.todo \in SUBSET Shards
      BY <1>0, <1>4, ScanAssumption DEF FillReads, FillState, ScanAssumption
    <3>3. FillShard \in Shards
      BY <3>2, MinIsLeast DEF FillShard
    <3> QED
      BY <1>0, <3>1, <3>3
  <2>2. Max({fill.at} \cup page) \in 0 .. NKeys
    <3>1. page \in SUBSET (0 .. NKeys) /\ fill.at \in 0 .. NKeys
      BY <1>0, <2>1 DEF Keys, FillState
    <3> HIDE DEF page
    <3> QED
      BY <1>0, <3>1, MaxOfKeys
  <2> HIDE DEF page
  <2>3. f \in FillState
    <3> DEFINE at == Max({fill.at} \cup page)
               last == Cardinality(page) < FillPage
    <3>1. at \in 0 .. NKeys /\ last \in BOOLEAN
      BY <2>2
    <3> HIDE DEF at, last
    <3>2. [fill EXCEPT !.page = page, !.last = last, !.at = at] \in FillState
      BY <1>0, <2>1, <3>1 DEF FillState
    <3> QED
      BY <3>2 DEF at, last
  <2>4. fill' \in FillState
    BY <1>0, <2>0, <2>3, TurnedType
  <2> QED
    BY <1>0, <1>4, <2>4 DEF FillReads, rowVars, CallTypes
<1>5. CASE \E k \in Keys : FillRow(k)
  <2>1. PICK k \in Keys : FillRow(k)
    BY <1>5
  <2>2. [fill EXCEPT !.page = @ \ {k}, !.bad = @ \/ CandidatesOf(k) # 1] \in FillState
    BY <1>0 DEF FillState
  <2>3. fill' \in FillState
    BY <1>0, <2>1, <2>2, TurnedType DEF FillRow
  <2>4. /\ owner' \in [Shards -> SUBSET Keys]
        /\ \A s \in Shards : owner[s] \subseteq owner'[s]
    <3>1. owner' = owner \/ owner' = [owner EXCEPT ![FillShard] = @ \cup {k}]
      BY <2>1 DEF FillRow
    <3>2. CASE owner' = owner
      BY <1>0, <3>2
    <3>3. CASE owner' = [owner EXCEPT ![FillShard] = @ \cup {k}]
      BY <1>0, <3>3
    <3> QED
      BY <3>1, <3>2, <3>3
  <2> QED
    BY <1>0, <2>1, <2>3, <2>4 DEF FillRow, CallTypes
<1>6. CASE \E k \in Keys : FillRowFails(k)
  <2>1. PICK k \in Keys : FillRowFails(k)
    BY <1>6
  <2>2. [fill EXCEPT !.page = @ \ {k}, !.bad = TRUE] \in FillState
    BY <1>0 DEF FillState
  <2>3. fill' \in FillState
    BY <1>0, <2>1, <2>2, TurnedType DEF FillRowFails
  <2> QED
    BY <1>0, <2>1, <2>3 DEF FillRowFails, rowVars, CallTypes
<1>7. CASE FillFails
  BY <1>0, <1>2, <1>7 DEF FillFails, rowVars, CallTypes
<1>8. CASE FillEnds
  <2>1. complete' \in BOOLEAN
    BY <1>0, <1>8 DEF FillEnds
  <2> QED
    BY <1>0, <1>2, <1>8, <2>1 DEF FillEnds, rowVars, CallTypes
<1>9. CASE \E k \in Keys : AdminReads(k)
  <2>1. PICK k \in Keys : AdminReads(k)
    BY <1>9
  <2>2. admin' \in [key : Keys, shard : Shards]
    BY <1>0, <2>1 DEF AdminReads
  <2> QED
    BY <1>0, <2>1, <2>2 DEF AdminReads, rowVars
<1>10. CASE AdminWrites
  <2>1. admin \in [key : Keys, shard : Shards]
    BY <1>10 DEF AdminWrites, CallTypes
  <2> QED
    BY <1>0, <1>10, <2>1 DEF AdminWrites
<1> QED
  BY <1>3, <1>4, <1>5, <1>6, <1>7, <1>8, <1>9, <1>10 DEF Owners

-----------------------------------------------------------------------------
(* Rows stay where they are routed, and none gets hidden.                  *)

\* The contents of the shards after a write, a copy and a deletion.
LEMMA RowsAfter ==
  ASSUME RowTypes
  PROVE  /\ \A k \in Keys : Insert(k) => \A s \in Shards :
              /\ base'[s] = IF s = home[k] THEN base[s] \cup {k} ELSE base[s]
              /\ owner'[s] = IF s = home[k] THEN owner[s] \cup {k} ELSE owner[s]
         /\ \A k \in Keys : Delete(k) => \A s \in Shards :
              /\ base'[s] = IF s = home[k] THEN base[s] \ {k} ELSE base[s]
              /\ owner'[s] = IF s = home[k] THEN owner[s] \ {k} ELSE owner[s]
         /\ CopyRow => \A s \in Shards :
              IF s = move.to
                THEN IF move.key \in base[move.from] \cap owner[move.from]
                       THEN /\ base'[s] = base[s] \cup {move.key}
                            /\ owner'[s] = owner[s] \cup {move.key}
                       ELSE /\ base'[s] = base[s] \ {move.key}
                            /\ owner'[s] = owner[s] \ {move.key}
                ELSE base'[s] = base[s] /\ owner'[s] = owner[s]
         /\ \A k, r : DeleteRow(k, r) => \A s \in Shards :
              IF s = r
                THEN /\ base'[s] = base[s] \ ({k} \cap owner[s])
                     /\ owner'[s] = owner[s] \ {k}
                ELSE base'[s] = base[s] /\ owner'[s] = owner[s]
<1>1. base \in [Shards -> SUBSET Keys] /\ owner \in [Shards -> SUBSET Keys]
  BY DEF RowTypes
<1>2. ASSUME NEW k \in Keys, Insert(k), NEW s \in Shards
      PROVE  /\ base'[s] = IF s = home[k] THEN base[s] \cup {k} ELSE base[s]
             /\ owner'[s] = IF s = home[k] THEN owner[s] \cup {k} ELSE owner[s]
  BY <1>1, <1>2 DEF Insert
<1>3. ASSUME NEW k \in Keys, Delete(k), NEW s \in Shards
      PROVE  /\ base'[s] = IF s = home[k] THEN base[s] \ {k} ELSE base[s]
             /\ owner'[s] = IF s = home[k] THEN owner[s] \ {k} ELSE owner[s]
  BY <1>1, <1>3 DEF Delete
<1>4. ASSUME CopyRow, NEW s \in Shards
      PROVE  IF s = move.to
               THEN IF move.key \in base[move.from] \cap owner[move.from]
                      THEN /\ base'[s] = base[s] \cup {move.key}
                           /\ owner'[s] = owner[s] \cup {move.key}
                      ELSE /\ base'[s] = base[s] \ {move.key}
                           /\ owner'[s] = owner[s] \ {move.key}
               ELSE base'[s] = base[s] /\ owner'[s] = owner[s]
  BY <1>1, <1>4 DEF CopyRow, Copied
<1>5. ASSUME NEW k, NEW r, DeleteRow(k, r), NEW s \in Shards
      PROVE  IF s = r
               THEN /\ base'[s] = base[s] \ ({k} \cap owner[s])
                    /\ owner'[s] = owner[s] \ {k}
               ELSE base'[s] = base[s] /\ owner'[s] = owner[s]
  BY <1>1, <1>5 DEF DeleteRow
<1> QED
  BY <1>2, <1>3, <1>4, <1>5

\* No write or move hides a row that was not hidden: export, import and the
\* purge treat a row and its owner as one.
LEMMA NoRowGetsHidden ==
  ASSUME RowTypes, Rows
  PROVE  \A s \in Shards : Hidden(s)' \subseteq Hidden(s)
<1> SUFFICES ASSUME NEW s \in Shards PROVE Hidden(s)' \subseteq Hidden(s)
  OBVIOUS
<1>1. CASE \E k \in Keys : Insert(k)
  BY <1>1, RowsAfter DEF Hidden
<1>2. CASE \E k \in Keys : Delete(k)
  BY <1>2, RowsAfter DEF Hidden
<1>3. CASE UNCHANGED rowVars
  BY <1>3 DEF Hidden, rowVars
<1>4. CASE CopyRow
  BY <1>4, RowsAfter DEF Hidden
<1>5. ASSUME NEW k, NEW r, DeleteRow(k, r) PROVE Hidden(s)' \subseteq Hidden(s)
  BY <1>5, RowsAfter DEF Hidden
<1> QED
  BY <1>1, <1>2, <1>3, <1>4, <1>5 DEF Rows, AddShard, StartMove, FlipRow, PurgeRow, AbortMove

\* A row is on the shard it is routed to, or at an end of its move.
LEMMA RowsStayPlaced ==
  ASSUME RowTypes, RowsPlaced, Rows
  PROVE  RowsPlaced'
<1>0. /\ base \in [Shards -> SUBSET Keys] /\ owner \in [Shards -> SUBSET Keys]
      /\ pool \in SUBSET Shards /\ home \in [Keys -> pool]
      /\ \/ move = NoMove
         \/ move \in [pc : {"copy", "purge"}, key : Keys, from : pool, to : pool]
  BY DEF RowTypes
<1>1. \A s \in Shards : Hidden(s)' \subseteq Hidden(s)
  BY NoRowGetsHidden
<1>2. 0 \notin Keys
  BY DEF Keys
<1> DEFINE Placed == \A s \in Shards : \A k \in base[s] :
                       s = home[k] \/ (move.key = k /\ s \in {move.from, move.to})
           Ends == move.pc # "idle" =>
                     /\ move.from # move.to
                     /\ home[move.key] = IF move.pc = "copy" THEN move.from ELSE move.to
                     /\ move.key \notin Hidden(move.from) \cup Hidden(move.to)
<1>3. Placed /\ Ends
  BY DEF RowsPlaced
<1>4. SUFFICES Placed' /\ Ends'
  BY DEF RowsPlaced
<1>5. ASSUME UNCHANGED <<home, move>> PROVE Ends'
  <2>1. CASE move = NoMove
    BY <1>5, <2>1 DEF NoMove
  <2>2. CASE move.from \in Shards /\ move.to \in Shards
    BY <1>1, <1>3, <1>5, <2>2
  <2> QED
    BY <1>0, <2>1, <2>2
<1> HIDE DEF Ends
<1>6. CASE \E k \in Keys : Insert(k)
  <2>1. PICK k \in Keys : Insert(k)
    BY <1>6
  <2>2. Placed'
    BY <1>0, <1>3, <2>1, RowsAfter DEF Insert
  <2> QED
    BY <1>5, <2>1, <2>2 DEF Insert
<1>7. CASE \E k \in Keys : Delete(k)
  <2>1. PICK k \in Keys : Delete(k)
    BY <1>7
  <2>2. Placed'
    BY <1>0, <1>3, <2>1, RowsAfter DEF Delete
  <2> QED
    BY <1>5, <2>1, <2>2 DEF Delete
<1>8. CASE \E s \in Shards : AddShard(s)
  BY <1>3, <1>5, <1>8 DEF AddShard, rowVars
<1>9. CASE \E k \in Keys, t \in Shards : StartMove(k, t)
  <2>1. PICK k \in Keys, t \in Shards : StartMove(k, t)
    BY <1>9
  <2>2. move = NoMove
    BY <1>0, <2>1 DEF StartMove
  <2>3. \A s \in Shards : \A j \in base[s] : s = home[j]
    BY <1>0, <1>2, <1>3, <2>2 DEF NoMove
  <2>4. Placed'
    BY <2>1, <2>3 DEF StartMove, rowVars
  <2>5. k \notin Hidden(home[k]) /\ k \notin Hidden(t)
    BY <1>0, <2>1, <2>3 DEF StartMove, Attributed, Hidden
  <2>6. Ends'
    BY <2>1, <2>5 DEF StartMove, rowVars, Ends, Hidden
  <2> QED
    BY <2>4, <2>6
<1>10. CASE CopyRow
  <2>1. Placed'
    BY <1>0, <1>3, <1>10, RowsAfter DEF CopyRow
  <2> QED
    BY <1>5, <1>10, <2>1 DEF CopyRow
<1>11. CASE FlipRow
  <2>1. move.pc = "copy" /\ home' = [home EXCEPT ![move.key] = move.to]
        /\ move' = [move EXCEPT !.pc = "purge"] /\ base' = base /\ owner' = owner
    BY <1>11 DEF FlipRow, rowVars
  <2>2. move \in [pc : {"copy", "purge"}, key : Keys, from : pool, to : pool]
    BY <1>0, <2>1 DEF NoMove
  <2>3. home[move.key] = move.from
    BY <1>3, <2>1 DEF Ends
  <2>4. Placed'
    BY <1>0, <1>3, <2>1, <2>2, <2>3
  <2>5. Ends'
    BY <1>0, <1>3, <2>1, <2>2 DEF Ends, Hidden
  <2> QED
    BY <2>4, <2>5
<1>12. CASE PurgeRow
  <2>1. move.pc = "purge" /\ DeleteRow(move.key, move.from) /\ move' = NoMove /\ home' = home
    BY <1>12 DEF PurgeRow
  <2>2. /\ move \in [pc : {"copy", "purge"}, key : Keys, from : pool, to : pool]
        /\ home[move.key] = move.to /\ move.key \notin Hidden(move.from)
    BY <1>0, <1>3, <2>1 DEF NoMove, Ends
  <2>3. Placed'
    BY <1>0, <1>3, <2>1, <2>2, RowsAfter DEF Hidden
  <2> QED
    BY <2>1, <2>3 DEF Ends, NoMove
<1>13. CASE AbortMove
  <2>1. move.pc = "copy" /\ DeleteRow(move.key, move.to) /\ move' = NoMove /\ home' = home
    BY <1>13 DEF AbortMove
  <2>2. /\ move \in [pc : {"copy", "purge"}, key : Keys, from : pool, to : pool]
        /\ home[move.key] = move.from /\ move.key \notin Hidden(move.to)
    BY <1>0, <1>3, <2>1 DEF NoMove, Ends
  <2>3. Placed'
    BY <1>0, <1>3, <2>1, <2>2, RowsAfter DEF Hidden
  <2> QED
    BY <2>1, <2>3 DEF Ends, NoMove
<1> QED
  BY <1>6, <1>7, <1>8, <1>9, <1>10, <1>11, <1>12, <1>13 DEF Rows

-----------------------------------------------------------------------------
(* What the backfill knows.                                                *)

\* What the backfill knows stays true while nothing gets hidden.
LEMMA KnownStays ==
  ASSUME Known(fill, HiddenRows), fill \in FillState, fill' = fill,
         \A s \in Shards : Hidden(s)' \subseteq Hidden(s)
  PROVE  Known(fill, HiddenRows)'
<1>1. \A s \in Shards : HiddenRows[s] = Hidden(s) /\ HiddenRows'[s] = Hidden(s)'
  BY DEF HiddenRows
<1>2. fill.todo # {} => Min(fill.todo) \in Shards
  <2>1. fill.todo \in SUBSET Shards /\ fill.todo \in SUBSET Nat
    BY ScanAssumption DEF FillState, ScanAssumption
  <2> QED
    BY <2>1, MinIsLeast
<1> QED
  BY <1>1, <1>2 DEF Known

\* When the page is used up and was the last, nothing is hidden on the shard:
\* the backfill may turn to the next.
LEMMA TurnedKnows ==
  ASSUME NKeys \in Nat, NEW H \in [Shards -> SUBSET Keys],
         NEW f \in FillState, f.todo = fill.todo, Known(f, H)
  PROVE  Known(Turned(f), H)
<1>1. CASE f.page = {} /\ f.last
  <2> DEFINE g == Turned(f)
  <2>1. /\ g.on = f.on /\ g.bad = f.bad /\ g.page = {} /\ ~g.last /\ g.at = 0
        /\ g.todo = f.todo \ {FillShard}
    BY <1>1 DEF Turned, FillState
  <2>2. ASSUME f.on, ~f.bad, NEW s \in Shards \ g.todo PROVE H[s] = {}
    <3>1. CASE s \notin f.todo
      BY <2>2, <3>1 DEF Known
    <3>2. CASE s = FillShard /\ s \in f.todo
      BY <1>1, <2>2, <3>2 DEF Known, FillShard
    <3> QED
      BY <2>1, <3>1, <3>2
  <2>3. ASSUME g.todo # {}, NEW k \in H[Min(g.todo)]
        PROVE  k > g.at /\ ~g.last
    <3>1. g.todo \in SUBSET Shards /\ g.todo \in SUBSET Nat
      BY <2>1, ScanAssumption DEF FillState, ScanAssumption
    <3>2. Min(g.todo) \in Shards
      BY <2>3, <3>1, MinIsLeast
    <3>3. k \in Keys
      BY <3>2
    <3>4. k > 0
      BY <3>3 DEF Keys
    <3> QED
      BY <2>1, <3>4
  <2> HIDE DEF g
  <2>4. Known(g, H)
    BY <2>1, <2>2, <2>3 DEF Known
  <2> QED
    BY <2>4 DEF g
<1>2. CASE ~(f.page = {} /\ f.last)
  BY <1>2 DEF Turned
<1> QED
  BY <1>1, <1>2

\* Each step of the backfill and of the operator leaves it knowing the truth:
\* a page that is read misses no hidden row up to its last.
LEMMA OwnerStepKnows ==
  ASSUME RowTypes, CallTypes, RowsPlaced, Known(fill, HiddenRows), Owners
  PROVE  Known(fill, HiddenRows)'
<1>0. /\ fill \in FillState /\ NKeys \in Nat /\ Shards \subseteq Nat
      /\ base \in [Shards -> SUBSET Keys] /\ owner \in [Shards -> SUBSET Keys]
  BY ScanAssumption DEF RowTypes, CallTypes, ScanAssumption
<1>1. /\ \A s \in Shards : Hidden(s)' \subseteq Hidden(s)
      /\ RowTypes' /\ CallTypes'
  BY OwnerStepTypes DEF Hidden
<1>2. HiddenRows \in [Shards -> SUBSET Keys] /\ HiddenRows' \in [Shards -> SUBSET Keys]
  BY <1>0, <1>1 DEF HiddenRows, Hidden, RowTypes
<1>3. \A s \in Shards : HiddenRows[s] = Hidden(s) /\ HiddenRows'[s] \subseteq HiddenRows[s]
  BY <1>1 DEF HiddenRows
<1>4. fill.todo # {} => FillShard \in fill.todo /\ FillShard \in Shards
  <2>1. fill.todo \in SUBSET Shards /\ fill.todo \in SUBSET Nat
    BY <1>0 DEF FillState
  <2> QED
    BY <2>1, MinIsLeast DEF FillShard
<1>5. CASE UNCHANGED fill
  BY <1>0, <1>1, <1>5, KnownStays
<1>6. ASSUME fill' = NoFill PROVE Known(fill, HiddenRows)'
  BY <1>6 DEF Known, NoFill
<1>7. CASE StartFill
  <2>1. /\ fill'.todo = pool /\ fill'.page = {} /\ fill'.at = 0 /\ ~fill'.last
        /\ UNCHANGED <<base, owner, home, pool, move>>
    BY <1>7 DEF StartFill, NoFill, rowVars
  <2>2. \A s \in Shards \ pool : base[s] = {}
    BY DEF RowTypes, RowsPlaced, NoMove, Keys
  <2>3. \A s \in Shards \ pool : HiddenRows'[s] = {}
    BY <1>3, <2>2 DEF Hidden
  <2>4. pool # {} => Min(pool) \in Shards
    BY <1>0, MinIsLeast DEF RowTypes
  <2>5. pool # {} => \A k \in HiddenRows'[Min(pool)] : k > 0
    BY <1>2, <2>4 DEF Keys
  <2> HIDE DEF HiddenRows
  <2> QED
    BY <2>1, <2>3, <2>5 DEF Known
<1>8. CASE FillReads
  <2> DEFINE hid == Hidden(FillShard)
             ahead == {k \in hid : k > fill.at}
             page == Smallest(FillPage, ahead)
             last == Cardinality(page) < FillPage
             at == Max({fill.at} \cup page)
             f == [fill EXCEPT !.page = page, !.last = last, !.at = at]
  <2>1. /\ fill' = Turned(f) /\ base' = base /\ owner' = owner
        /\ fill.todo # {} /\ fill.page = {}
    BY <1>8 DEF FillReads, Hidden, rowVars
  <2>2. hid \in SUBSET Keys /\ fill.at \in 0 .. NKeys /\ FillPage \in Nat
    BY <1>0, <1>4, <2>1, ScanAssumption DEF Hidden, FillState, ScanAssumption
  <2>3. ahead \in SUBSET Keys /\ Keys \subseteq Nat /\ Keys \subseteq 0 .. NKeys
    BY <1>0, <2>2 DEF Keys
  <2>4. fill.on /\ ~fill.bad => \A k \in hid : k \in ahead
    BY <1>3, <1>4, <2>1 DEF Known, FillShard
  <2> HIDE DEF hid, ahead
  <2>5. /\ page \subseteq ahead
        /\ \A k \in page : \A j \in ahead : j < k => j \in page
        /\ last => page = ahead
    BY <1>0, <2>2, <2>3, SmallestIsPrefix
  <2>6. last \in BOOLEAN
    OBVIOUS
  <2> HIDE DEF page, last
  <2>7. at \in {fill.at} \cup page /\ at \in 0 .. NKeys
    <3>1. page \in SUBSET (0 .. NKeys)
      BY <2>3, <2>5
    <3> QED
      BY <1>0, <2>2, <3>1, MaxOfKeys
  <2> HIDE DEF at
  <2>8. f \in FillState
    BY <1>0, <2>2, <2>3, <2>5, <2>6, <2>7 DEF FillState
  <2>9. ASSUME fill.on, ~fill.bad, NEW k \in hid, k \notin page
        PROVE  k > at /\ ~last
    <3>1. k \in ahead /\ k \in Nat /\ at \in Nat
      BY <2>2, <2>3, <2>4, <2>7, <2>9
    <3>2. k > fill.at
      BY <3>1 DEF ahead
    <3>3. k > at
      BY <2>2, <2>3, <2>5, <2>7, <2>9, <3>1, <3>2
    <3> QED
      BY <2>5, <2>9, <3>1, <3>3
  <2>10. Known(f, HiddenRows)
    <3>1. /\ f.on = fill.on /\ f.bad = fill.bad /\ f.todo = fill.todo
          /\ f.page = page /\ f.at = at /\ f.last = last
      BY <1>0 DEF FillState
    <3>2. HiddenRows[Min(fill.todo)] = hid
      BY <1>3, <1>4, <2>1 DEF hid, FillShard
    <3> HIDE DEF f
    <3> QED
      BY <2>9, <3>1, <3>2 DEF Known
  <2>11. HiddenRows' = HiddenRows
    BY <2>1 DEF HiddenRows, Hidden
  <2>12. f.todo = fill.todo
    BY <1>0 DEF FillState
  <2> HIDE DEF f, HiddenRows
  <2>13. Known(Turned(f), HiddenRows)
    BY <1>0, <1>2, <2>8, <2>10, <2>12, TurnedKnows
  <2> QED
    BY <2>1, <2>11, <2>13
<1>9. CASE \E k \in Keys : FillRow(k)
  <2>1. PICK k \in Keys : FillRow(k)
    BY <1>9
  <2> DEFINE f == [fill EXCEPT !.page = @ \ {k}, !.bad = @ \/ CandidatesOf(k) # 1]
  <2>2. fill' = Turned(f) /\ f \in FillState
    BY <1>0, <2>1 DEF FillRow, FillState
  <2>3. /\ f.on = fill.on /\ f.todo = fill.todo /\ f.page = fill.page \ {k}
        /\ f.at = fill.at /\ f.last = fill.last
        /\ f.bad <=> (fill.bad \/ CandidatesOf(k) # 1)
    BY <1>0 DEF FillState
  <2>4. ~f.bad /\ fill.todo # {} => k \notin HiddenRows'[FillShard]
    BY <1>0, <1>4, <2>1, <2>3 DEF FillRow, HiddenRows, Hidden
  <2> HIDE DEF f, HiddenRows
  <2>5. Known(f, HiddenRows')
    BY <1>3, <1>4, <2>3, <2>4 DEF Known, FillShard
  <2>6. Known(Turned(f), HiddenRows')
    BY <1>0, <1>2, <2>2, <2>3, <2>5, TurnedKnows
  <2> QED
    BY <2>2, <2>6
<1>10. CASE \E k \in Keys : FillRowFails(k)
  <2>1. PICK k \in Keys : FillRowFails(k)
    BY <1>10
  <2> DEFINE f == [fill EXCEPT !.page = @ \ {k}, !.bad = TRUE]
  <2>2. fill' = Turned(f) /\ f \in FillState /\ f.bad /\ f.todo = fill.todo
    BY <1>0, <2>1 DEF FillRowFails, FillState
  <2> HIDE DEF f, HiddenRows
  <2>3. Known(f, HiddenRows')
    BY <2>2 DEF Known
  <2>4. Known(Turned(f), HiddenRows')
    BY <1>0, <1>2, <2>2, <2>3, TurnedKnows
  <2> QED
    BY <2>2, <2>4
<1> QED
  BY <1>5, <1>6, <1>7, <1>8, <1>9, <1>10
     DEF Owners, FillFails, FillEnds, AdminReads, AdminWrites

-----------------------------------------------------------------------------
(* The invariant of the rows and their owners.                             *)

\* At first every row is where it is routed to, and nothing is certified.
LEMMA OwnersInit == Init => OwnersInv
<1> SUFFICES ASSUME Init PROVE OwnersInv
  OBVIOUS
<1> USE ScanAssumption
<1>1. pool \in SUBSET Shards /\ home \in [Keys -> pool] /\ move = NoMove
  BY DEF Init
<1>2. base \in [Shards -> SUBSET Keys] /\ owner \in [Shards -> SUBSET Keys]
  BY DEF Init
<1>3. RowTypes
  BY <1>1, <1>2 DEF RowTypes
<1>4. NoPages \in [Shards -> Page] /\ NoCursor \in [Shards -> 0 .. NKeys]
  BY DEF NoPages, NoPage, Page, NoCursor, ScanAssumption
<1>5. scan \in ScanState
  BY <1>4 DEF Init, ScanState
<1>6. fill \in FillState /\ ~fill.on
  <2>1. home \in [Keys -> Shards]
    BY <1>1
  <2>2. 0 \in 0 .. NKeys
    BY DEF ScanAssumption
  <2>3. fill = NoFill
    BY DEF Init
  <2> QED
    BY <2>1, <2>2, <2>3 DEF NoFill, FillState
<1>7. CallTypes
  <2>1. /\ complete \in BOOLEAN /\ tokens = Capacity
        /\ admin = [key |-> 0, shard |-> 0]
    BY DEF Init
  <2>2. Capacity \in 0 .. Capacity
    BY DEF ScanAssumption
  <2> QED
    BY <1>5, <1>6, <2>1, <2>2 DEF CallTypes
<1>8. RowsPlaced
  <2>1. \A s \in Shards : \A k \in base[s] : s = home[k]
    BY DEF Init
  <2>2. move.pc = "idle"
    BY <1>1 DEF NoMove
  <2> QED
    BY <2>1, <2>2 DEF RowsPlaced
<1>9. FillKnows /\ CompleteHidesNothing
  <2>1. ~complete
    BY DEF Init
  <2> QED
    BY <1>6, <2>1 DEF FillKnows, Known, CompleteHidesNothing
<1> QED
  BY <1>3, <1>7, <1>8, <1>9 DEF OwnersInv

\* Every step keeps it.  Only the end of a backfill certifies the table, when
\* it is behind every shard and has nothing to report.
LEMMA OwnersStep == OwnersInv /\ [Next]_vars => OwnersInv'
<1> SUFFICES ASSUME OwnersInv, [Next]_vars PROVE OwnersInv'
  OBVIOUS
<1>0. RowTypes /\ CallTypes /\ RowsPlaced /\ FillKnows /\ CompleteHidesNothing
  BY DEF OwnersInv
<1>1. fill \in FillState /\ fill.on \in BOOLEAN
  BY <1>0 DEF CallTypes, FillState
<1>2. ASSUME \A s \in Shards : Hidden(s)' \subseteq Hidden(s), complete' = complete
      PROVE  CompleteHidesNothing'
  BY <1>0, <1>2 DEF CompleteHidesNothing, Hidden
<1>3. ASSUME UNCHANGED Outside, CallTypes' PROVE OwnersInv'
  <2>1. RowTypes' /\ RowsPlaced' /\ FillKnows' /\ CompleteHidesNothing'
    BY <1>0, <1>3 DEF Outside, RowTypes, RowsPlaced, FillKnows, Known, HiddenRows,
      Hidden, CompleteHidesNothing, NoMove
  <2> QED
    BY <1>3, <2>1 DEF OwnersInv
<1>4. CASE Scan \/ Refill
  BY <1>0, <1>3, <1>4, ScanStepTypes
<1>5. CASE Rows
  <2>1. RowTypes' /\ CallTypes' /\ RowsPlaced'
    BY <1>0, <1>5, RowStepTypes, RowsStayPlaced
  <2>2. /\ \A s \in Shards : Hidden(s)' \subseteq Hidden(s)
        /\ fill' = fill /\ complete' = complete
    BY <1>0, <1>5, NoRowGetsHidden
      DEF Rows, Insert, Delete, AddShard, StartMove, CopyRow, FlipRow, PurgeRow, AbortMove
  <2>3. FillKnows' /\ CompleteHidesNothing'
    BY <1>0, <1>1, <1>2, <2>2, KnownStays DEF FillKnows
  <2> QED
    BY <2>1, <2>3 DEF OwnersInv
<1>6. CASE Owners
  <2>1. /\ RowTypes' /\ CallTypes'
        /\ UNCHANGED <<base, home, pool, move>>
        /\ \A s \in Shards : Hidden(s)' \subseteq Hidden(s)
    BY <1>0, <1>6, OwnerStepTypes DEF Hidden
  <2>2. FillKnows'
    BY <1>0, <1>6, OwnerStepKnows DEF FillKnows
  <2>3. RowsPlaced'
    <3>1. move # NoMove => move.from \in Shards /\ move.to \in Shards
      BY <1>0 DEF RowTypes
    <3>2. move.pc # "idle" => /\ move.key \notin Hidden(move.from)'
                              /\ move.key \notin Hidden(move.to)'
      BY <1>0, <2>1, <3>1 DEF RowsPlaced, NoMove
    <3> QED
      BY <1>0, <2>1, <3>2 DEF RowsPlaced
  <2>4. CASE complete' = complete
    BY <1>2, <2>1, <2>2, <2>3, <2>4 DEF OwnersInv
  <2>5. CASE FillEnds
    <3>1. fill.on /\ fill.todo = {} /\ complete' = (complete \/ ~fill.bad)
      BY <2>5 DEF FillEnds
    <3>2. ~fill.bad => \A s \in Shards : Hidden(s) = {}
      BY <1>0, <3>1 DEF FillKnows, Known, HiddenRows
    <3>3. complete => \A s \in Shards : Hidden(s) = {}
      BY <1>0 DEF CompleteHidesNothing, Hidden
    <3>4. complete' => \A s \in Shards : Hidden(s)' = {}
      BY <2>1, <3>1, <3>2, <3>3
    <3>5. CompleteHidesNothing'
      BY <3>4 DEF CompleteHidesNothing, Hidden
    <3> QED
      BY <2>1, <2>2, <2>3, <3>5 DEF OwnersInv
  <2> QED
    BY <1>6, <2>4, <2>5
      DEF Owners, StartFill, FillReads, FillRow, FillRowFails, FillFails, AdminReads, AdminWrites
<1>7. CASE UNCHANGED vars
  <2>1. UNCHANGED Outside /\ UNCHANGED <<tokens, scan>>
    BY <1>7 DEF vars, Outside
  <2>2. CallTypes'
    BY <1>0, <2>1 DEF CallTypes, Outside
  <2> QED
    BY <1>3, <2>1, <2>2
<1> QED
  BY <1>4, <1>5, <1>6, <1>7 DEF Next

-----------------------------------------------------------------------------
(* The rows that a scan owes.                                              *)

\* What a step of the rows or of the owners leaves of the scan.
ScanKept == UNCHANGED <<scan.pc, scan.limit, scan.cursor, scan.asked, scan.todo, scan.pages, scan.got>>

\* A row that the scan owes stays visible where it is routed to, and nowhere
\* else, or is not owed any more: only the two ends of a migration hold a row
\* twice, and what migrates is not owed once it was copied.
LEMMA OwedStays ==
  ASSUME RowTypes, CallTypes, RowsPlaced, OwedRowsStay, Rows \/ Owners
  PROVE  /\ OwedRowsStay' /\ Owed' \subseteq Owed /\ ScanKept
         /\ \A k \in Owed' : home'[k] = home[k]
<1>0. /\ base \in [Shards -> SUBSET Keys] /\ owner \in [Shards -> SUBSET Keys]
      /\ pool \in SUBSET Shards /\ home \in [Keys -> pool] /\ scan \in ScanState
      /\ \/ move = NoMove
         \/ move \in [pc : {"copy", "purge"}, key : Keys, from : pool, to : pool]
  BY DEF RowTypes, CallTypes
<1> DEFINE Visible == \A k \in scan.lasting : k \in base[home[k]] \cap owner[home[k]]
           Alone == \A k \in Owed : \A s \in Shards : k \in base[s] => s = home[k]
<1>1. /\ Visible /\ Alone
      /\ scan.pc = "idle" => scan.lasting = {}
      /\ scan.lasting \in SUBSET Keys /\ scan.still \in SUBSET Keys
  BY <1>0 DEF OwedRowsStay, ScanState
<1>2. SUFFICES /\ Visible' /\ Alone' /\ ScanKept
               /\ scan'.lasting \subseteq scan.lasting /\ scan'.still \subseteq scan.still
               /\ \A k \in Owed' : home'[k] = home[k]
  BY <1>1 DEF OwedRowsStay, Owed, ScanKept
<1>3. CASE \E k \in Keys : Insert(k)
  <2>1. PICK k \in Keys : Insert(k)
    BY <1>3
  <2>2. k \notin scan.lasting
    BY <1>1, <2>1 DEF Insert
  <2>3. scan' = scan /\ home' = home
    BY <2>1 DEF Insert
  <2>4. ASSUME NEW s \in Shards, NEW j \in Keys, j # k
        PROVE  (j \in base'[s] <=> j \in base[s]) /\ (j \in owner'[s] <=> j \in owner[s])
    BY <1>0, <2>1, <2>4 DEF Insert
  <2>5. Visible'
    BY <1>0, <1>1, <2>2, <2>3, <2>4
  <2>6. Alone'
    BY <1>0, <1>1, <2>2, <2>3, <2>4 DEF Owed
  <2> QED
    BY <2>3, <2>5, <2>6 DEF ScanKept
<1>4. CASE \E k \in Keys : Delete(k)
  <2>1. PICK k \in Keys : Delete(k)
    BY <1>4
  <2>2. /\ scan'.lasting = scan.lasting \ {k} /\ scan'.still = scan.still
        /\ ScanKept /\ home' = home
    BY <1>0, <2>1 DEF Delete, ScanState, ScanKept
  <2>3. ASSUME NEW s \in Shards, NEW j \in Keys, j # k
        PROVE  (j \in base'[s] <=> j \in base[s]) /\ (j \in owner'[s] <=> j \in owner[s])
    BY <1>0, <2>1, <2>3 DEF Delete
  <2>4. Visible'
    BY <1>0, <1>1, <2>2, <2>3
  <2>5. Alone'
    BY <1>0, <1>1, <2>2, <2>3 DEF Owed
  <2> QED
    BY <2>2, <2>4, <2>5
<1>5. CASE UNCHANGED <<base, owner, home, scan>>
  BY <1>1, <1>5 DEF Owed, ScanKept
<1>6. CASE CopyRow
  <2>1. /\ move \in [pc : {"copy", "purge"}, key : Keys, from : pool, to : pool]
        /\ move.from # move.to /\ home[move.key] = move.from
    BY <1>0, <1>6 DEF CopyRow, NoMove, RowsPlaced
  <2>2. /\ scan'.lasting = scan.lasting /\ scan'.still = scan.still \ {move.key}
        /\ ScanKept /\ home' = home
    BY <1>0, <1>6 DEF CopyRow, ScanState, ScanKept
  <2>3. ASSUME NEW s \in Shards, NEW k \in Keys, k # move.key \/ s # move.to
        PROVE  (k \in base'[s] <=> k \in base[s]) /\ (k \in owner'[s] <=> k \in owner[s])
    BY <1>6, <2>3, RowsAfter
  <2>4. Visible'
    BY <1>0, <1>1, <2>1, <2>2, <2>3
  <2>5. Alone'
    BY <1>0, <1>1, <2>2, <2>3 DEF Owed
  <2> QED
    BY <2>2, <2>4, <2>5
<1>7. CASE FlipRow
  <2>1. /\ move.pc = "copy" /\ home' = [home EXCEPT ![move.key] = move.to]
        /\ base' = base /\ owner' = owner /\ scan' = scan
        /\ move.key \in base[move.from] => move.key \in base[move.to]
        /\ move.key \in owner[move.from] => move.key \in owner[move.to]
    BY <1>7 DEF FlipRow, rowVars
  <2>2. /\ move \in [pc : {"copy", "purge"}, key : Keys, from : pool, to : pool]
        /\ move.from # move.to /\ home[move.key] = move.from
    BY <1>0, <2>1 DEF NoMove, RowsPlaced
  <2>3. /\ home'[move.key] = move.to
        /\ \A k \in Keys : k # move.key => home'[k] = home[k]
    BY <1>0, <2>1, <2>2
  <2>4. Visible'
    BY <1>1, <2>1, <2>2, <2>3
  <2>5. move.key \notin Owed
    BY <1>0, <1>1, <2>1, <2>2 DEF Owed
  <2>6. Owed' = Owed /\ Owed \subseteq Keys
    BY <1>1, <2>1 DEF Owed
  <2>7. Alone' /\ \A k \in Owed' : home'[k] = home[k]
    BY <1>1, <2>1, <2>3, <2>5, <2>6
  <2> QED
    BY <2>1, <2>4, <2>7 DEF ScanKept
<1>8. ASSUME NEW s \in Shards, DeleteRow(move.key, s), move.pc # "idle", s # home[move.key],
             home' = home, ScanKept, scan'.lasting = scan.lasting, scan'.still = scan.still
      PROVE  Visible' /\ Alone'
  <2>1. \A r \in Shards : base'[r] \subseteq base[r]
    BY <1>8, RowsAfter
  <2>2. ASSUME NEW r \in Shards, NEW k \in Keys, k # move.key \/ s # r
        PROVE  (k \in base'[r] <=> k \in base[r]) /\ (k \in owner'[r] <=> k \in owner[r])
    BY <1>8, <2>2, RowsAfter
  <2>3. Visible'
    BY <1>0, <1>1, <1>8, <2>2
  <2>4. Alone'
    BY <1>0, <1>1, <1>8, <2>1 DEF Owed
  <2> QED
    BY <2>3, <2>4
<1>9. CASE PurgeRow
  <2>1. /\ move.pc = "purge" /\ DeleteRow(move.key, move.from) /\ home' = home
        /\ scan'.lasting = scan.lasting /\ scan'.still = scan.still /\ ScanKept
    BY <1>0, <1>9 DEF PurgeRow, ScanState, ScanKept
  <2>2. move.from \in Shards /\ move.from # home[move.key]
    BY <1>0, <2>1 DEF NoMove, RowsPlaced
  <2> QED
    BY <1>8, <2>1, <2>2
<1>10. CASE AbortMove
  <2>1. /\ move.pc = "copy" /\ DeleteRow(move.key, move.to) /\ home' = home /\ scan' = scan
    BY <1>10 DEF AbortMove
  <2>2. move.to \in Shards /\ move.to # home[move.key]
    BY <1>0, <2>1 DEF NoMove, RowsPlaced
  <2>3. ScanKept
    BY <2>1 DEF ScanKept
  <2> QED
    BY <1>8, <2>1, <2>2, <2>3
<1>11. CASE Owners
  <2>1. /\ UNCHANGED <<base, home, scan>>
        /\ \A s \in Shards : owner[s] \subseteq owner'[s]
    BY <1>11, OwnerStepTypes
  <2> QED
    BY <1>0, <1>1, <2>1 DEF Owed, ScanKept
<1> QED
  BY <1>3, <1>4, <1>5, <1>6, <1>7, <1>9, <1>10, <1>11 DEF Rows, AddShard, StartMove, rowVars

-----------------------------------------------------------------------------
(* What the scan has returned.                                             *)

\* A page stays true while its cursor is where it was and less is owed.
LEMMA PageStays ==
  ASSUME scan \in ScanState, NEW s \in Shards, PageTrue(s),
         scan'.pages[s] = scan.pages[s], scan'.cursor[s] = scan.cursor[s],
         scan'.limit = scan.limit,
         Owed' \subseteq Owed, \A k \in Owed' : home'[k] = home[k]
  PROVE  PageTrue(s)'
<1>1. Consumed(s)' = Consumed(s)
  BY DEF Consumed, PerShardLimit
<1> QED
  BY <1>1 DEF PageTrue

\* Writes, moves and owner entries leave the scan what it has.
LEMMA CountsStay ==
  ASSUME scan \in ScanState, ScanCounts, ScanKept,
         Owed' \subseteq Owed, \A k \in Owed' : home'[k] = home[k]
  PROVE  ScanCounts'
<1>1. \A s \in scan.asked \ scan.todo : PageTrue(s)'
  BY PageStays DEF ScanCounts, ScanKept, ScanState
<1> QED
  BY <1>1 DEF ScanCounts, ScanKept

\* A read page is true: what the shard answered misses no owed row.
LEMMA ReadPageIsTrue ==
  ASSUME RowTypes, CallTypes, OwedRowsStay, NEW s \in Shards, Read(s)
  PROVE  PageTrue(s)'
<1>0. /\ scan \in ScanState /\ base[s] \in SUBSET Keys /\ Owed \subseteq Keys
      /\ home \in [Keys -> Shards]
  BY DEF RowTypes, CallTypes, Owed, ScanState
<1> DEFINE p == ScanPage(s)
<1>1. /\ p \in Page
      /\ p.rows \subseteq base[s] \cap owner[s]
      /\ \A k \in p.rows : scan.cursor[s] < k /\ k <= p.last
      /\ p.last = 0 \/ scan.cursor[s] < p.last
      /\ p.scanned >= PerShardLimit => p.last # 0
      /\ \A k \in base[s] \cap owner[s] :
           /\ scan.cursor[s] < k
           /\ p.scanned >= PerShardLimit => k <= p.last
           => k \in p.rows
  BY <1>0, PageOfScan
<1>2. /\ scan'.pages[s] = p /\ scan'.cursor = scan.cursor /\ scan'.limit = scan.limit
      /\ scan'.lasting = scan.lasting /\ scan'.still = scan.still /\ home' = home
  BY <1>0 DEF Read, ScanState
<1> HIDE DEF p
<1>3. Owed' = Owed /\ (Consumed(s)' <=> p.scanned >= PerShardLimit)
  BY <1>2 DEF Owed, Consumed, PerShardLimit
<1>4. \A k \in Owed : /\ k \in base[home[k]] \cap owner[home[k]]
                      /\ k \in base[s] => s = home[k]
  BY DEF Owed, OwedRowsStay
<1>5. ASSUME NEW k \in Owed
      PROVE  k \in p.rows <=> /\ s = home[k] /\ scan.cursor[s] < k
                              /\ p.scanned >= PerShardLimit => k <= p.last
  BY <1>1, <1>4
<1> QED
  BY <1>1, <1>2, <1>3, <1>5 DEF PageTrue

\* The merge passes a row that is owed exactly when it returns it, and ends
\* only when none is left.
LEMMA MergeCounts ==
  ASSUME RowTypes, CallTypes, ScanCounts, Merge, NEW k \in Owed
  PROVE  /\ scan'.got[k] = IF k <= scan'.cursor[home[k]] THEN 1 ELSE 0
         /\ ~MayHaveMore => scan'.got[k] = 1
<1> USE ScanAssumption
<1>0. /\ scan \in ScanState /\ k \in Keys /\ k \in Nat /\ k # 0
      /\ home \in [Keys -> Shards]
  <2>1. scan \in ScanState /\ home \in [Keys -> Shards] /\ k \in scan.lasting
    BY DEF RowTypes, CallTypes, Owed
  <2>2. k \in Keys
    BY <2>1 DEF ScanState
  <2>3. k \in Nat /\ k # 0
    BY <2>2 DEF Keys
  <2> QED
    BY <2>1, <2>2, <2>3
<1> DEFINE s == home[k]
           n == Cardinality({r \in Shards : <<k, r>> \in Kept})
<1>1. /\ s \in scan.asked /\ s \in Shards
      /\ \A r \in scan.asked : PageTrue(r)
      /\ scan.got[k] = IF k <= scan.cursor[s] THEN 1 ELSE 0
  BY <1>0 DEF ScanCounts, Merge
<1>2. scan'.cursor[s] = NextCursor(s) /\ scan'.got[k] = scan.got[k] + n
  <2>1. scan'.cursor = [r \in Shards |-> IF r \in scan.asked THEN NextCursor(r) ELSE scan.cursor[r]]
    BY <1>0 DEF Merge, ScanState
  <2>2. scan'.got = [j \in Keys |-> scan.got[j] + Cardinality({r \in Shards : <<j, r>> \in Kept})]
    BY <1>0 DEF Merge, ScanState
  <2> QED
    BY <1>0, <1>1, <2>1, <2>2
<1>3. \A j \in Keys : \A r \in Shards :
        <<j, r>> \in Fetched <=> r \in scan.asked /\ j \in scan.pages[r].rows
  BY <1>0, FetchedRows
<1>4. Kept \subseteq Fetched
  BY <1>0, FetchedRows
<1>5. \A r \in Shards : <<k, r>> \in Kept => r = s
  BY <1>0, <1>1, <1>3, <1>4 DEF PageTrue
<1>6. n = IF k \in Delivered(s) THEN 1 ELSE 0
  <2>1. CASE k \in Delivered(s)
    <3>1. {r \in Shards : <<k, r>> \in Kept} = {s}
      BY <1>1, <1>5, <2>1 DEF Delivered
    <3> QED
      BY <2>1, <3>1, FS_Singleton
  <2>2. CASE k \notin Delivered(s)
    <3>1. {r \in Shards : <<k, r>> \in Kept} = {}
      BY <1>0, <1>5, <2>2 DEF Delivered
    <3> QED
      BY <2>2, <3>1, FS_EmptySet
  <2> QED
    BY <2>1, <2>2
<1> HIDE DEF n
<1>7. /\ NextCursor(s) \in 0 .. NKeys /\ scan.cursor[s] \in 0 .. NKeys
      /\ scan.cursor[s] <= NextCursor(s)
      /\ \A j \in Delivered(s) : j <= NextCursor(s)
      /\ \/ NextCursor(s) = scan.cursor[s]
         \/ NextCursor(s) \in Delivered(s)
         \/ /\ Consumed(s) /\ Delivered(s) = scan.pages[s].rows
            /\ NextCursor(s) = scan.pages[s].last
  BY <1>0, <1>1, NextPosition DEF ScanState
<1>8. /\ Delivered(s) \subseteq scan.pages[s].rows
      /\ \A j \in Delivered(s) : \A i \in scan.pages[s].rows : i < j => i \in Delivered(s)
      /\ Kept = Fetched => Delivered(s) = scan.pages[s].rows
  BY <1>0, <1>1, DeliveredRows
<1>9. /\ \A j \in scan.pages[s].rows : scan.cursor[s] < j /\ j <= scan.pages[s].last
      /\ k \in scan.pages[s].rows <=> /\ scan.cursor[s] < k
                                      /\ Consumed(s) => k <= scan.pages[s].last
  BY <1>1 DEF PageTrue
<1>10. scan.pages[s].last \in Nat
  <2>1. scan.pages[s] \in Page
    BY <1>0, <1>1 DEF ScanState
  <2> QED
    BY <2>1 DEF Page
<1> HIDE DEF s
<1>11. ASSUME k <= NextCursor(s), ~(k <= scan.cursor[s]) PROVE k \in Delivered(s)
  <2>1. CASE NextCursor(s) \in Delivered(s)
    <3>1. NextCursor(s) <= scan.pages[s].last
      BY <1>8, <1>9, <2>1
    <3>2. k \in scan.pages[s].rows
      BY <1>0, <1>7, <1>9, <1>10, <1>11, <3>1
    <3>3. k = NextCursor(s) \/ k < NextCursor(s)
      BY <1>0, <1>7, <1>11
    <3> QED
      BY <1>8, <2>1, <3>2, <3>3
  <2>2. CASE Delivered(s) = scan.pages[s].rows /\ NextCursor(s) = scan.pages[s].last
    BY <1>0, <1>7, <1>9, <1>11, <2>2
  <2> QED
    BY <1>0, <1>7, <1>11, <2>1, <2>2
<1>12. k \in Delivered(s) => scan.cursor[s] < k /\ k <= NextCursor(s)
  BY <1>7, <1>8, <1>9
<1>13. scan'.got[k] = IF k <= NextCursor(s) THEN 1 ELSE 0
  BY <1>0, <1>1, <1>2, <1>6, <1>7, <1>11, <1>12
<1>14. ~MayHaveMore => scan'.got[k] = 1
  <2> SUFFICES ASSUME ~MayHaveMore PROVE scan'.got[k] = 1
    OBVIOUS
  <2>1. Delivered(s) = scan.pages[s].rows /\ ~Consumed(s)
    BY <1>1, <1>8 DEF MayHaveMore
  <2>2. k <= scan.cursor[s] \/ k \in Delivered(s)
    BY <1>0, <1>7, <1>9, <2>1
  <2> QED
    BY <1>0, <1>1, <1>2, <1>6, <1>7, <1>12, <2>2
<1> QED
  BY <1>2, <1>13, <1>14 DEF s

\* At first the scan has and owes nothing.
LEMMA ScanInit == Init => OwedRowsStay /\ ScanCounts
<1> SUFFICES ASSUME Init PROVE OwedRowsStay /\ ScanCounts
  OBVIOUS
<1>1. /\ scan.pc = "idle" /\ scan.cursor = NoCursor /\ scan.got = [k \in Keys |-> 0]
      /\ scan.asked = {} /\ scan.todo = {} /\ scan.lasting = {} /\ scan.pages = NoPages
  BY DEF Init
<1>2. \A s \in Shards : scan.pages[s] = NoPage
  BY <1>1 DEF NoPages
<1>3. Owed = {}
  BY <1>1 DEF Owed
<1> HIDE DEF Init
<1> QED
  BY <1>1, <1>2, <1>3 DEF OwedRowsStay, ScanCounts

\* A step of the scan keeps the account of the rows that are owed.
LEMMA ScanStep ==
  ASSUME RowTypes, CallTypes, RowsPlaced, OwedRowsStay, ScanCounts, Scan
  PROVE  OwedRowsStay' /\ ScanCounts'
<1> USE ScanAssumption
<1>0. /\ scan \in ScanState /\ scan' \in ScanState
      /\ UNCHANGED <<base, owner, home, pool, move>>
      /\ home \in [Keys -> pool] /\ pool \in SUBSET Shards
      /\ base \in [Shards -> SUBSET Keys]
  BY ScanStepTypes DEF CallTypes, Outside, RowTypes
<1>1. ASSUME UNCHANGED <<scan.lasting, scan.still>>, scan'.pc # "idle"
      PROVE  OwedRowsStay' /\ Owed' = Owed
  BY <1>0, <1>1 DEF OwedRowsStay, Owed
<1>2. \A s \in Shards : NoPages[s] = NoPage
  BY DEF NoPages
<1>3. CASE \E l \in Limits : StartScan(l)
  <2>1. PICK l \in Limits : StartScan(l)
    BY <1>3
  <2>2. /\ scan.pc = "idle" /\ scan'.pc = "ready"
        /\ scan'.cursor = scan.cursor /\ scan'.got = scan.got
        /\ scan'.asked = scan.asked /\ scan'.todo = scan.todo /\ scan'.pages = scan.pages
        /\ scan'.lasting = {k \in Keys : k \in base[home[k]] \cap owner[home[k]]}
        /\ scan'.still = {k \in scan'.lasting : move.pc = "idle" \/ move.key # k}
    BY <1>0, <2>1 DEF StartScan, ScanState
  <2>3. ASSUME NEW k \in Owed', NEW s \in Shards, k \in base[s] PROVE s = home[k]
    <3>1. move.pc = "idle" \/ move.key # k
      BY <2>2, <2>3 DEF Owed
    <3>2. s = home[k] \/ move.key = k
      BY <2>3 DEF RowsPlaced
    <3>3. move.pc = "idle" => move.key \notin Keys
      BY DEF RowTypes, NoMove, Keys
    <3>4. k \in Keys
      BY <1>0, <2>3
    <3> QED
      BY <3>1, <3>2, <3>3, <3>4
  <2>4. OwedRowsStay'
    BY <1>0, <2>2, <2>3 DEF OwedRowsStay
  <2>5. \A k \in Keys : scan.got[k] = 0 /\ scan.cursor[home[k]] = 0 /\ ~(k <= 0)
    <3>1. scan.cursor = NoCursor /\ scan.got = [k \in Keys |-> 0]
      BY <2>2 DEF ScanCounts
    <3>2. \A k \in Keys : ~(k <= 0)
      BY DEF Keys
    <3>3. \A k \in Keys : home[k] \in Shards
      BY <1>0
    <3> QED
      BY <3>1, <3>2, <3>3 DEF NoCursor
  <2>6. Owed' \subseteq Keys /\ scan.asked = {} /\ scan.todo = {}
    BY <1>0, <2>2 DEF ScanCounts, Owed
  <2> QED
    BY <1>0, <2>2, <2>4, <2>5, <2>6 DEF ScanCounts
<1>4. CASE Lookup
  <2>1. /\ scan'.pc = "list" /\ scan.pc = "ready"
        /\ UNCHANGED <<scan.limit, scan.cursor, scan.got, scan.asked, scan.todo, scan.pages,
                       scan.lasting, scan.still>>
    BY <1>0, <1>4 DEF Lookup, ScanState
  <2>2. OwedRowsStay' /\ Owed' = Owed
    BY <1>1, <2>1
  <2>3. scan.asked = {} /\ scan.todo = {}
    BY <2>1 DEF ScanCounts
  <2> QED
    BY <1>0, <2>1, <2>2, <2>3 DEF ScanCounts
<1>5. CASE List
  <2>1. /\ scan'.pc = "fan" /\ scan.pc = "list" /\ scan'.asked = pool /\ scan'.todo = pool
        /\ UNCHANGED <<scan.limit, scan.cursor, scan.got, scan.pages, scan.lasting, scan.still>>
    BY <1>0, <1>5 DEF List, ScanState
  <2>2. OwedRowsStay' /\ Owed' = Owed /\ Owed \subseteq Keys
    BY <1>0, <1>1, <2>1 DEF Owed, ScanState
  <2>3. scan.asked = {} /\ scan.todo = {}
    BY <2>1 DEF ScanCounts
  <2> QED
    BY <1>0, <2>1, <2>2, <2>3 DEF ScanCounts
<1>6. CASE \E s \in Shards : Read(s)
  <2>1. PICK s \in Shards : Read(s)
    BY <1>6
  <2>2. /\ scan.pc = "fan" /\ scan'.pc = "fan" /\ s \in scan.todo /\ scan'.todo = scan.todo \ {s}
        /\ UNCHANGED <<scan.limit, scan.cursor, scan.got, scan.asked, scan.lasting, scan.still>>
        /\ \A r \in Shards : r # s => scan'.pages[r] = scan.pages[r]
    BY <1>0, <2>1 DEF Read, ScanState
  <2>3. OwedRowsStay' /\ Owed' = Owed
    BY <1>1, <2>2
  <2>4. scan.todo \subseteq scan.asked /\ scan.asked \subseteq Shards
    BY <1>0 DEF ScanCounts, ScanState
  <2>5. PageTrue(s)'
    BY <2>1, ReadPageIsTrue
  <2>6. ASSUME NEW r \in scan.asked \ scan.todo PROVE PageTrue(r)'
    <3>1. r \in Shards /\ r # s /\ PageTrue(r)
      BY <2>2, <2>4, <2>6 DEF ScanCounts
    <3> QED
      BY <1>0, <2>2, <2>3, <3>1, PageStays
  <2>7. \A r \in scan'.asked \ scan'.todo : PageTrue(r)'
    BY <2>2, <2>5, <2>6
  <2>8. \A r \in Shards \ (scan'.asked \ scan'.todo) : scan'.pages[r] = NoPage
    BY <2>2, <2>4 DEF ScanCounts
  <2> QED
    BY <1>0, <2>2, <2>3, <2>4, <2>7, <2>8 DEF ScanCounts
<1>7. CASE Unreachable
  <2>1. /\ scan.pc = "fan" /\ scan'.pc = "ready" /\ scan'.asked = {} /\ scan'.todo = {}
        /\ scan'.pages = NoPages
        /\ UNCHANGED <<scan.limit, scan.cursor, scan.got, scan.lasting, scan.still>>
    BY <1>0, <1>7 DEF Unreachable, ScanState
  <2>2. OwedRowsStay' /\ Owed' = Owed
    BY <1>1, <2>1
  <2> QED
    BY <1>0, <1>2, <2>1, <2>2 DEF ScanCounts
<1>8. CASE Merge
  <2>1. /\ scan'.pc = IF MayHaveMore THEN "ready" ELSE "done"
        /\ scan'.asked = {} /\ scan'.todo = {} /\ scan'.pages = NoPages
        /\ UNCHANGED <<scan.lasting, scan.still>>
    BY <1>0, <1>8 DEF Merge, ScanState
  <2>2. scan'.pc \in {"ready", "done"}
    BY <2>1
  <2>3. OwedRowsStay' /\ Owed' = Owed
    BY <1>1, <2>1, <2>2
  <2>4. \A k \in Owed : /\ scan'.got[k] = IF k <= scan'.cursor[home[k]] THEN 1 ELSE 0
                        /\ ~MayHaveMore => scan'.got[k] = 1
    BY <1>8, MergeCounts
  <2> HIDE DEF MayHaveMore
  <2> QED
    BY <1>0, <1>2, <2>1, <2>3, <2>4 DEF ScanCounts
<1> QED
  BY <1>3, <1>4, <1>5, <1>6, <1>7, <1>8 DEF Scan

\* The invariant of the scan is kept by every step.
LEMMA ScanInvStep == ScanInv /\ [Next]_vars => ScanInv'
<1> SUFFICES ASSUME ScanInv, [Next]_vars PROVE ScanInv'
  OBVIOUS
<1>0. /\ OwnersInv /\ RowTypes /\ CallTypes /\ RowsPlaced /\ OwedRowsStay /\ ScanCounts
      /\ scan \in ScanState
  BY DEF ScanInv, OwnersInv, CallTypes
<1>1. OwnersInv'
  BY <1>0, OwnersStep
<1>2. CASE Scan
  BY <1>0, <1>1, <1>2, ScanStep DEF ScanInv
<1>3. CASE Rows \/ Owners
  BY <1>0, <1>1, <1>3, OwedStays, CountsStay DEF ScanInv
<1>4. CASE UNCHANGED <<base, owner, home, scan>>
  <2>1. OwedRowsStay' /\ Owed' = Owed /\ ScanKept
    BY <1>0, <1>4 DEF OwedRowsStay, Owed, ScanKept
  <2> QED
    BY <1>0, <1>1, <1>4, <2>1, CountsStay DEF ScanInv
<1> QED
  BY <1>2, <1>3, <1>4 DEF Next, Refill, vars, rowVars

\* ScanInv is an invariant of every run.
LEMMA ScanInvHolds == Spec => []ScanInv
<1>1. Init => ScanInv
  BY OwnersInit, ScanInit DEF ScanInv
<1>2. ScanInv /\ [Next]_vars => ScanInv'
  BY ScanInvStep
<1> QED
  BY <1>1, <1>2, PTL DEF Spec

-----------------------------------------------------------------------------
(* Rows that change shards while they are scanned.                         *)

\* Rows of a shard are as many as the entries that are merged of them.
LEMMA EntriesOfRows ==
  ASSUME NEW R, IsFiniteSet(R), NEW w
  PROVE  LET T == {<<i, w>> : i \in R}
         IN  IsFiniteSet(T) /\ Cardinality(T) = Cardinality(R)
<1> DEFINE T == {<<i, w>> : i \in R}
           F == [i \in R |-> <<i, w>>]
<1>1. F \in [R -> T] /\ \A a, b \in R : F[a] = F[b] => a = b
  OBVIOUS
<1>2. \A t \in T : \E s \in R : F[s] = t
  OBVIOUS
<1>3. F \in Bijection(R, T)
  BY <1>1, <1>2, Fun_IsBij
<1>4. ExistsBijection(R, T)
  BY <1>3, Fun_ExistsBij
<1> QED
  BY <1>4, FS_Bijection

\* What a step of the rows or of the owners leaves of a row that is followed:
\* its source is another one only after a purge, which no call may see.
LEMMA SourceStays ==
  ASSUME RowTypes, CallTypes, RowsPlaced, OwedRowsStay, Rows \/ Owners,
         NEW k \in Followed'
  PROVE  k \in Followed /\ (scan.pc = "fan" => Source(k)' = Source(k))
<1>0. /\ base \in [Shards -> SUBSET Keys] /\ owner \in [Shards -> SUBSET Keys]
      /\ pool \in SUBSET Shards /\ home \in [Keys -> pool]
      /\ scan \in ScanState
      /\ \/ move = NoMove
         \/ move \in [pc : {"copy", "purge"}, key : Keys, from : pool, to : pool]
  BY DEF RowTypes, CallTypes
<1>1. \A j \in scan.lasting : j \in base[home[j]] \cap owner[home[j]] /\ j \in Keys
  BY <1>0 DEF OwedRowsStay, ScanState
<1>2. k \in scan'.lasting /\ k \notin scan'.swept
  BY DEF Followed
<1>3. ASSUME scan' = scan PROVE k \in Followed /\ k \in Keys
  BY <1>1, <1>2, <1>3 DEF Followed
<1>4. CASE \E j \in Keys : Insert(j)
  <2>1. PICK j \in Keys : Insert(j)
    BY <1>4
  <2>2. j \notin scan.lasting /\ scan' = scan /\ home' = home /\ move' = move
    BY <1>1, <2>1 DEF Insert
  <2>3. k # j /\ k \in scan.lasting /\ k \in Keys
    BY <1>1, <1>2, <2>2
  <2>4. \A s \in Shards : /\ k \in base'[s] <=> k \in base[s]
                          /\ k \in owner'[s] <=> k \in owner[s]
    BY <1>0, <2>1, <2>3 DEF Insert
  <2> QED
    BY <1>0, <1>3, <2>2, <2>3, <2>4 DEF Source, NoMove
<1>5. CASE \E j \in Keys : Delete(j)
  <2>1. PICK j \in Keys : Delete(j)
    BY <1>5
  <2>2. /\ scan'.lasting = scan.lasting \ {j} /\ scan'.swept = scan.swept
        /\ home' = home /\ move' = move
    BY <1>0, <2>1 DEF Delete, ScanState
  <2>3. k # j /\ k \in scan.lasting /\ k \in Keys /\ k \in Followed
    BY <1>1, <1>2, <2>2 DEF Followed
  <2>4. \A s \in Shards : /\ k \in base'[s] <=> k \in base[s]
                          /\ k \in owner'[s] <=> k \in owner[s]
    BY <1>0, <2>1, <2>3 DEF Delete
  <2> QED
    BY <1>0, <2>2, <2>3, <2>4 DEF Source, NoMove
<1>6. CASE \E s \in Shards : AddShard(s)
  BY <1>3, <1>6 DEF AddShard, rowVars, Source
<1>7. CASE \E j \in Keys, t \in Shards : StartMove(j, t)
  BY <1>0, <1>3, <1>7 DEF StartMove, rowVars, Source, NoMove
<1>8. CASE CopyRow
  <2>1. /\ scan'.lasting = scan.lasting /\ scan'.swept = scan.swept
        /\ move.pc = "copy" /\ move' = move /\ home' = home
    BY <1>0, <1>8 DEF CopyRow, ScanState
  <2> QED
    BY <1>2, <2>1 DEF Followed, Source
<1>9. CASE FlipRow
  <2>1. /\ move.pc = "copy" /\ home' = [home EXCEPT ![move.key] = move.to]
        /\ move' = [move EXCEPT !.pc = "purge"]
        /\ base' = base /\ owner' = owner /\ scan' = scan
    BY <1>9 DEF FlipRow, rowVars
  <2>2. /\ move \in [pc : {"copy", "purge"}, key : Keys, from : pool, to : pool]
        /\ home[move.key] = move.from
    BY <1>0, <2>1 DEF NoMove, RowsPlaced
  <2>3. k \in Followed /\ k \in base[home[k]] \cap owner[home[k]] /\ k \in Keys
    BY <1>1, <1>3, <2>1 DEF Followed
  <2> QED
    BY <1>0, <2>1, <2>2, <2>3 DEF Source
<1>10. CASE PurgeRow
  <2>1. /\ move.pc = "purge" /\ DeleteRow(move.key, move.from) /\ home' = home /\ move' = NoMove
        /\ scan'.lasting = scan.lasting
        /\ scan'.swept = IF scan.pc = "fan" THEN scan.swept \cup {move.key} ELSE scan.swept
    BY <1>0, <1>10 DEF PurgeRow, ScanState
  <2>2. k \in Followed /\ (scan.pc = "fan" => k # move.key)
    BY <1>2, <2>1 DEF Followed
  <2> QED
    BY <2>1, <2>2 DEF Source, NoMove
<1>11. CASE AbortMove
  <2>1. move.pc = "copy" /\ move' = NoMove /\ home' = home /\ scan' = scan
    BY <1>11 DEF AbortMove
  <2> QED
    BY <1>3, <2>1 DEF Source, NoMove
<1>12. CASE Owners
  <2>1. /\ UNCHANGED <<base, home, move, scan>>
        /\ \A s \in Shards : owner[s] \subseteq owner'[s]
    BY <1>12, OwnerStepTypes
  <2>2. move.pc = "purge" => move.key \notin Hidden(move.from) /\ move.from \in Shards
    BY <1>0 DEF RowsPlaced, NoMove
  <2> QED
    BY <1>3, <2>1, <2>2 DEF Source, Hidden
<1> QED
  BY <1>4, <1>5, <1>6, <1>7, <1>8, <1>9, <1>10, <1>11, <1>12 DEF Rows

\* A row that is followed is visible at its source, which is in the pool.
LEMMA SourceHolds ==
  ASSUME RowTypes, CallTypes, OwedRowsStay, NEW k \in Followed
  PROVE  /\ k \in Keys /\ Source(k) \in pool
         /\ k \in base[Source(k)] \cap owner[Source(k)]
<1>1. k \in scan.lasting
  BY DEF Followed
<1>2. k \in Keys
  BY <1>1 DEF CallTypes, ScanState
<1> QED
  BY <1>1, <1>2 DEF Source, OwedRowsStay, RowTypes, NoMove

\* A shard that is read without a gap has on its page a followed row of which
\* it is the source, or a full page of earlier rows.
LEMMA ReadFollows ==
  ASSUME RowTypes, CallTypes, OwedRowsStay, NEW s \in Shards, Read(s)
  PROVE  /\ ~scan'.gap => PageFull(s)' /\ ~scan.gap
         /\ \A k \in Followed :
              Source(k) = s /\ scan.cursor[s] < k =>
                \/ k \in scan'.pages[s].rows
                \/ Consumed(s)' /\ scan'.pages[s].last < k
<1>0. scan \in ScanState
  BY DEF CallTypes
<1> DEFINE p == ScanPage(s)
<1>1. /\ p \in Page
      /\ \A k \in base[s] \cap owner[s] :
           /\ scan.cursor[s] < k
           /\ p.scanned >= PerShardLimit => k <= p.last
           => k \in p.rows
      /\ ~(p.scanned > Cardinality(p.rows)) =>
           /\ p.scanned = Cardinality(p.rows)
           /\ p.last = 0 \/ p.last \in p.rows
  BY <1>0, PageOfScan
<1>2. /\ scan'.pages[s] = p /\ scan'.limit = scan.limit
      /\ scan'.gap = (scan.gap \/ p.scanned > Cardinality(p.rows))
  BY <1>0 DEF Read, ScanState
<1> HIDE DEF p
<1>3. Consumed(s)' <=> p.scanned >= PerShardLimit
  BY <1>2 DEF Consumed, PerShardLimit
<1>4. ~scan'.gap => PageFull(s)' /\ ~scan.gap
  BY <1>1, <1>2 DEF PageFull
<1>5. ASSUME NEW k \in Followed, Source(k) = s, scan.cursor[s] < k, k \notin p.rows
      PROVE  p.scanned >= PerShardLimit /\ p.last < k
  <2>1. k \in base[s] \cap owner[s] /\ k \in Keys
    BY <1>5, SourceHolds
  <2>2. p.last \in 0 .. NKeys /\ k \in Nat
    BY <1>1, <2>1 DEF Page, Keys
  <2> QED
    BY <1>1, <1>5, <2>1, <2>2
<1> QED
  BY <1>2, <1>3, <1>4, <1>5

\* A merge that does not return a followed row brings no cursor past it, and
\* is not the last: the row's source has it, or as many earlier rows as the
\* merge returns at most.
LEMMA MergeFollows ==
  ASSUME RowTypes, CallTypes, OwedRowsStay, ScanCounts, SourcesAsked, RowsFollowed, Merge,
         ~scan.gap, scan.limit <= PageSize, NEW k \in Followed, scan'.got[k] = 0
  PROVE  MayHaveMore /\ \A s \in Shards : scan'.cursor[s] < k
<1> USE ScanAssumption
<1> DEFINE w == Source(k)
           n == Cardinality({r \in Shards : <<k, r>> \in Kept})
<1>0. scan \in ScanState /\ k \in Keys /\ w \in Shards
  BY SourceHolds DEF CallTypes, RowTypes
<1>1. /\ w \in scan.asked \ scan.todo /\ scan.asked \subseteq Shards
      /\ \A s \in scan.asked : PageTrue(s) /\ PageFull(s)
  BY <1>0 DEF SourcesAsked, RowsFollowed, ScanCounts, Merge, ScanState
<1>2. k \in Nat /\ k # 0
  BY <1>0 DEF Keys
<1>3. /\ scan'.cursor = [s \in Shards |-> IF s \in scan.asked THEN NextCursor(s) ELSE scan.cursor[s]]
      /\ scan'.got[k] = scan.got[k] + n
  BY <1>0 DEF Merge, ScanState
<1>4. n = 0 /\ scan.got[k] = 0 /\ \A r \in Shards : <<k, r>> \notin Kept
  <2> DEFINE R == {r \in Shards : <<k, r>> \in Kept}
  <2>1. IsFiniteSet(Shards)
    BY DEF ScanAssumption
  <2>2. IsFiniteSet(R) /\ R \in SUBSET Shards
    BY <2>1, FS_Subset
  <2>3. n \in Nat /\ scan.got[k] \in Nat
    BY <1>0, <2>2, FS_CardinalityType DEF ScanState
  <2>4. n = 0 /\ scan.got[k] = 0
    BY <1>3, <2>3
  <2>5. R = {}
    BY <2>2, <2>4, FS_EmptySet
  <2> QED
    BY <2>4, <2>5
<1> HIDE DEF n
<1>5. Awaited(k)
  BY <1>4 DEF RowsFollowed
<1>6. /\ \A s \in Shards : scan.cursor[s] < k
      /\ \/ k \in scan.pages[w].rows
         \/ Consumed(w) /\ scan.pages[w].last < k
  BY <1>1, <1>5 DEF Awaited
<1> HIDE DEF w
<1>7. \A j \in Keys : \A r \in Shards :
        <<j, r>> \in Fetched <=> r \in scan.asked /\ j \in scan.pages[r].rows
  BY <1>0, FetchedRows
<1>8. Kept \subseteq Fetched /\ IsFiniteSet(Fetched) /\ Fetched \subseteq Keys \X Shards
  BY <1>0, FetchedRows
<1>9. PerShardLimit = scan.limit /\ scan.limit \in Nat
  <2>1. PageSize \in Nat /\ scan.limit \in Nat
    BY <1>0 DEF ScanAssumption, ScanState
  <2>2. {PageSize, scan.limit} \in SUBSET Nat /\ {PageSize, scan.limit} # {}
    BY <2>1
  <2>3. /\ PerShardLimit \in {PageSize, scan.limit}
        /\ \A y \in {PageSize, scan.limit} : PerShardLimit <= y
    BY <2>2, MinIsLeast DEF PerShardLimit
  <2> QED
    BY <2>1, <2>3
<1>10. ASSUME NEW j \in Keys, NEW s \in Shards, <<j, s>> \in Kept PROVE j < k
  <2> SUFFICES ASSUME ~(j < k) PROVE FALSE
    OBVIOUS
  <2>1. k < j /\ j \in Nat
    BY <1>2, <1>4, <1>10 DEF Keys
  <2>2. CASE k \in scan.pages[w].rows
    <3>1. <<k, w>> \in Fetched
      BY <1>0, <1>1, <1>7, <2>2
    <3>2. Before(<<k, w>>, <<j, s>>)
      BY <2>1 DEF Before
    <3>3. <<k, w>> \in Kept
      BY <1>0, <1>10, <3>1, <3>2, KeptIsPrefix
    <3> QED
      BY <1>0, <1>4, <3>3
  <2>3. CASE Consumed(w) /\ scan.pages[w].last < k
    <3> DEFINE R == scan.pages[w].rows
               T == {<<i, w>> : i \in R}
               first == {d \in Fetched : Before(d, <<j, s>>)}
    <3>1. R \in SUBSET Keys /\ scan.pages[w].last \in Nat
      <4>1. scan.pages[w] \in Page
        BY <1>0 DEF ScanState
      <4> QED
        BY <4>1 DEF Page
    <3>2. IsFiniteSet(R)
      <4>1. IsFiniteSet(Keys)
        BY FS_Interval DEF ScanAssumption, Keys
      <4> QED
        BY <3>1, <4>1, FS_Subset
    <3>3. ASSUME NEW i \in R PROVE <<i, w>> \in first
      <4>1. i <= scan.pages[w].last /\ i \in Nat
        BY <1>1, <3>1, <3>3 DEF PageTrue, Keys
      <4>2. i < j
        BY <1>2, <2>1, <2>3, <3>1, <4>1
      <4>3. <<i, w>> \in Fetched
        BY <1>0, <1>1, <1>7, <3>1, <3>3
      <4> QED
        BY <4>2, <4>3 DEF Before
    <3>4. T \in SUBSET first
      BY <3>3
    <3>5. IsFiniteSet(first) /\ Cardinality(first) \in Nat
      BY <1>8, FS_Subset, FS_CardinalityType
    <3>6. Cardinality(T) = Cardinality(R)
      BY <3>2, EntriesOfRows
    <3>7. Cardinality(T) <= Cardinality(first)
      BY <3>4, <3>5, FS_Subset
    <3>8. Cardinality(first) < scan.limit
      BY <1>10 DEF Kept
    <3>9. Cardinality(R) >= scan.limit /\ Cardinality(R) \in Nat
      BY <1>1, <1>9, <2>3, <3>2, FS_CardinalityType DEF Consumed, PageFull
    <3> HIDE DEF R, T, first
    <3> QED
      BY <1>9, <3>5, <3>6, <3>7, <3>8, <3>9
  <2> QED
    BY <1>6, <2>2, <2>3
<1>11. MayHaveMore
  <2>1. CASE k \in scan.pages[w].rows
    <3>1. <<k, w>> \in Fetched /\ <<k, w>> \notin Kept
      BY <1>0, <1>1, <1>4, <1>7, <2>1
    <3> QED
      BY <3>1 DEF MayHaveMore
  <2>2. CASE Consumed(w)
    BY <1>1, <2>2 DEF MayHaveMore
  <2> QED
    BY <1>6, <2>1, <2>2
<1>12. ASSUME NEW s \in scan.asked PROVE NextCursor(s) < k
  <2>1. \A j \in Delivered(s) : j < k
    BY <1>1, <1>10 DEF Delivered
  <2>2. \/ NextCursor(s) = scan.cursor[s]
        \/ NextCursor(s) \in Delivered(s)
        \/ /\ Consumed(s) /\ Delivered(s) = scan.pages[s].rows
           /\ NextCursor(s) = scan.pages[s].last
    BY <1>0, NextPosition
  <2>3. scan.pages[s].last = 0 \/ scan.pages[s].last \in scan.pages[s].rows
    BY <1>1 DEF PageFull
  <2>4. CASE NextCursor(s) = scan.cursor[s]
    BY <1>1, <1>6, <2>4
  <2>5. CASE NextCursor(s) \in Delivered(s)
    BY <2>1, <2>5
  <2>6. CASE Delivered(s) = scan.pages[s].rows /\ NextCursor(s) = scan.pages[s].last
    BY <1>2, <2>1, <2>3, <2>6
  <2> QED
    BY <2>2, <2>4, <2>5, <2>6
<1> QED
  BY <1>3, <1>6, <1>11, <1>12

\* Every step keeps following the rows.
LEMMA FollowStep == ScanInv /\ FollowInv /\ [Next]_vars => FollowInv'
<1> SUFFICES ASSUME ScanInv, FollowInv, [Next]_vars PROVE FollowInv'
  OBVIOUS
<1> USE ScanAssumption
<1>0. /\ RowTypes /\ CallTypes /\ RowsPlaced /\ OwedRowsStay /\ ScanCounts
      /\ scan \in ScanState /\ SourcesAsked /\ RowsFollowed
      /\ scan.asked \subseteq Shards /\ scan.todo \subseteq scan.asked
  BY DEF ScanInv, OwnersInv, CallTypes, FollowInv, ScanState, ScanCounts
<1>1. \A k \in Followed : k \in Keys /\ Source(k) \in pool
  BY <1>0, SourceHolds
<1>2. \A k \in Keys : k \in Nat /\ k # 0
  BY DEF Keys
<1>3. ASSUME ScanKept, scan'.gap = scan.gap, \A k \in Followed' :
               k \in Followed /\ (scan.pc = "fan" => Source(k)' = Source(k))
      PROVE  FollowInv'
  <2>1. scan.pc # "fan" => scan.asked = {}
    BY <1>0 DEF ScanCounts
  <2>2. SourcesAsked'
    BY <1>0, <1>3 DEF SourcesAsked, ScanKept
  <2>3. ASSUME NEW k \in Followed', Awaited(k) PROVE Awaited(k)'
    BY <1>3, <2>1, <2>3 DEF Awaited, ScanKept, Consumed, PerShardLimit
  <2>4. ASSUME NEW s \in Shards, PageFull(s) PROVE PageFull(s)'
    BY <1>3, <2>4 DEF PageFull, ScanKept
  <2>5. RowsFollowed'
    BY <1>0, <1>3, <2>3, <2>4 DEF RowsFollowed, ScanKept
  <2> QED
    BY <2>2, <2>5 DEF FollowInv
<1>4. CASE Rows \/ Owners
  <2>1. ScanKept /\ \A k \in Followed' : k \in Followed /\ (scan.pc = "fan" => Source(k)' = Source(k))
    BY <1>0, <1>4, OwedStays, SourceStays
  <2>2. scan'.gap = scan.gap
    <3>1. CASE Owners
      BY <1>0, <3>1, OwnerStepTypes
    <3>2. CASE Rows
      BY <1>0, <3>2 DEF Rows, Insert, Delete, AddShard, StartMove, CopyRow, FlipRow,
        PurgeRow, AbortMove, ScanState
    <3> QED
      BY <1>4, <3>1, <3>2
  <2> QED
    BY <1>3, <2>1, <2>2
<1>5. CASE UNCHANGED <<base, owner, home, move, scan>>
  BY <1>3, <1>5 DEF ScanKept, Followed, Source
<1>6. ASSUME Scan PROVE \A k : Source(k)' = Source(k)
  <2>1. UNCHANGED <<base, owner, home, move>>
    BY <1>0, <1>6, ScanStepTypes DEF Outside
  <2> QED
    BY <2>1 DEF Source
<1>7. CASE \E l \in Limits : StartScan(l)
  <2>1. PICK l \in Limits : StartScan(l)
    BY <1>7
  <2>2. /\ scan.pc = "idle" /\ scan'.pc = "ready"
        /\ scan'.cursor = scan.cursor /\ scan'.asked = scan.asked
        /\ scan'.lasting \subseteq Keys
    BY <1>0, <2>1 DEF StartScan, ScanState
  <2>3. scan'.asked = {} /\ scan'.cursor = NoCursor
    BY <1>0, <2>2 DEF ScanCounts
  <2>4. \A k \in Followed' : Awaited(k)'
    BY <1>2, <2>2, <2>3 DEF Awaited, Followed, NoCursor
  <2> QED
    BY <2>2, <2>3, <2>4 DEF FollowInv, SourcesAsked, RowsFollowed
<1>8. CASE Lookup \/ Unreachable
  <2>1. /\ scan'.pc \in {"ready", "list"} /\ scan.pc # "idle"
        /\ UNCHANGED <<scan.limit, scan.cursor, scan.got, scan.lasting, scan.swept, scan.gap>>
        /\ scan'.asked = {}
    BY <1>0, <1>8 DEF Lookup, Unreachable, ScanState, ScanCounts
  <2>2. \A k \in Followed' : k \in Followed /\ (Awaited(k) => Awaited(k)')
    BY <2>1 DEF Awaited, Followed
  <2> QED
    BY <1>0, <2>1, <2>2 DEF FollowInv, SourcesAsked, RowsFollowed
<1>9. CASE List
  <2>1. /\ scan'.pc = "fan" /\ scan'.asked = pool /\ scan'.todo = pool
        /\ UNCHANGED <<scan.limit, scan.cursor, scan.got, scan.lasting, scan.swept, scan.gap>>
    BY <1>0, <1>9 DEF List, ScanState
  <2>2. \A k : Source(k)' = Source(k)
    BY <1>6, <1>9 DEF Scan
  <2>3. \A k \in Followed' : k \in Followed /\ (Awaited(k) => Awaited(k)')
    BY <2>1 DEF Awaited, Followed
  <2>4. SourcesAsked'
    BY <1>1, <2>1, <2>2, <2>3 DEF SourcesAsked
  <2> QED
    BY <1>0, <2>1, <2>3, <2>4 DEF FollowInv, RowsFollowed
<1>10. CASE \E s \in Shards : Read(s)
  <2>1. PICK s \in Shards : Read(s)
    BY <1>10
  <2>2. /\ scan.pc = "fan" /\ scan'.pc = "fan" /\ s \in scan.todo /\ scan'.todo = scan.todo \ {s}
        /\ UNCHANGED <<scan.limit, scan.cursor, scan.got, scan.asked, scan.lasting, scan.swept>>
        /\ \A r \in Shards : r # s => scan'.pages[r] = scan.pages[r]
    BY <1>0, <2>1 DEF Read, ScanState
  <2>3. \A k : Source(k)' = Source(k)
    BY <1>6, <1>10 DEF Scan
  <2>4. Followed' = Followed
    BY <2>2 DEF Followed
  <2>5. SourcesAsked'
    BY <1>0, <2>2, <2>3, <2>4 DEF SourcesAsked
  <2>6. /\ ~scan'.gap => PageFull(s)' /\ ~scan.gap
        /\ \A k \in Followed :
             Source(k) = s /\ scan.cursor[s] < k =>
               \/ k \in scan'.pages[s].rows
               \/ Consumed(s)' /\ scan'.pages[s].last < k
    BY <1>0, <2>1, ReadFollows
  <2>7. ASSUME NEW r \in Shards, r # s
        PROVE  /\ PageFull(r)' = PageFull(r)
               /\ Consumed(r)' = Consumed(r)
               /\ scan'.pages[r] = scan.pages[r]
    BY <2>2, <2>7 DEF PageFull, Consumed, PerShardLimit
  <2>8. ASSUME NEW k \in Followed, Awaited(k) PROVE Awaited(k)'
    <3>1. Source(k) \in Shards
      BY <1>0, <1>1 DEF RowTypes
    <3>2. CASE Source(k) = s
      BY <2>2, <2>3, <2>6, <2>8, <3>2 DEF Awaited
    <3>3. CASE Source(k) # s
      BY <2>2, <2>3, <2>7, <2>8, <3>1, <3>3 DEF Awaited
    <3> QED
      BY <3>2, <3>3
  <2>9. RowsFollowed'
    BY <1>0, <2>2, <2>4, <2>6, <2>7, <2>8 DEF RowsFollowed
  <2> QED
    BY <2>5, <2>9 DEF FollowInv
<1>11. CASE Merge
  <2>1. /\ scan'.pc = IF MayHaveMore THEN "ready" ELSE "done"
        /\ scan'.asked = {}
        /\ UNCHANGED <<scan.limit, scan.lasting, scan.swept, scan.gap>>
    BY <1>0, <1>11 DEF Merge, ScanState
  <2> HIDE DEF MayHaveMore
  <2>2. scan'.pc \in {"ready", "done"} /\ Followed' = Followed
    BY <2>1 DEF Followed
  <2>3. ASSUME ~scan.gap, scan.limit <= PageSize, NEW k \in Followed, scan'.got[k] = 0
        PROVE  Awaited(k)'
    <3>1. MayHaveMore /\ \A s \in Shards : scan'.cursor[s] < k
      BY <1>0, <1>11, <2>3, MergeFollows
    <3> QED
      BY <2>1, <3>1 DEF Awaited
  <2> QED
    BY <2>1, <2>2, <2>3 DEF FollowInv, SourcesAsked, RowsFollowed
<1> QED
  BY <1>4, <1>5, <1>7, <1>8, <1>9, <1>10, <1>11 DEF Next, Scan, Refill, vars, rowVars

-----------------------------------------------------------------------------
(* What holds in every run.                                                *)

\* The rows, owners, routes and cursors keep their shapes; a shard that was
\* not asked has no page (tableScanCore).
THEOREM ScanTypes == Spec => []ScanTypeOK
<1>1. ScanInv => ScanTypeOK
  BY DEF ScanInv, OwnersInv, RowTypes, CallTypes, ScanCounts, ScanState, ScanTypeOK
<1> QED
  BY <1>1, ScanInvHolds, PTL

\* A table that adminBackfillProvenanceCore certified has no row without an
\* owner entry, from then on: writes, moves, aborts and late answers of
\* /admin/set-row-owner included.
THEOREM CertifiedTablesHideNothing == Spec => []CompleteHidesNothing
<1>1. ScanInv => CompleteHidesNothing
  BY DEF ScanInv, OwnersInv
<1> QED
  BY <1>1, ScanInvHolds, PTL

\* mergeTableScanPages returns each row that lasts and stays where it is
\* exactly once, whatever the page sizes and the limits.
THEOREM ScansAreExact == Spec => []ScanIsExact
<1>1. ScanInv => ScanIsExact
  BY DEF ScanInv, ScanCounts, Owed, ScanIsExact
<1> QED
  BY <1>1, ScanInvHolds, PTL

\* A merge after which the caller has to ask again moved a cursor forward:
\* either a row was returned, or a shard whose LIMIT was consumed found only
\* entries without row.
THEOREM CallsAdvance == Spec => PagesAdvance
<1> USE ScanAssumption
<1> DEFINE Forth == scan.pc = "fan" /\ scan'.pc = "ready" /\ scan.todo = {}
                      => \E s \in Shards : scan'.cursor[s] > scan.cursor[s]
<1>1. ASSUME ScanInv, [Next]_vars PROVE Forth
  <2> SUFFICES ASSUME scan.pc = "fan", scan'.pc = "ready", scan.todo = {}
               PROVE  \E s \in Shards : scan'.cursor[s] > scan.cursor[s]
    OBVIOUS
  <2>0. /\ RowTypes /\ CallTypes /\ RowsPlaced /\ OwedRowsStay /\ ScanCounts
        /\ scan \in ScanState
    BY <1>1 DEF ScanInv, OwnersInv, CallTypes
  <2>1. Merge
    <3>1. CASE Rows \/ Owners
      BY <2>0, <3>1, OwedStays DEF ScanKept
    <3>2. CASE Scan
      BY <2>0, <3>2 DEF Scan, StartScan, Lookup, List, Read, Unreachable, ScanState
    <3> QED
      BY <1>1, <3>1, <3>2 DEF Next, Refill, vars
  <2>2. /\ scan'.cursor = [s \in Shards |-> IF s \in scan.asked THEN NextCursor(s) ELSE scan.cursor[s]]
        /\ MayHaveMore
    BY <2>0, <2>1 DEF Merge, ScanState
  <2>3. scan.asked \subseteq Shards /\ \A s \in scan.asked : PageTrue(s)
    BY <2>0 DEF ScanCounts, ScanState
  <2>4. SUFFICES \E s \in scan.asked : NextCursor(s) > scan.cursor[s]
    BY <2>2, <2>3
  <2>5. ASSUME NEW s \in scan.asked
        PROVE  /\ NextCursor(s) \in Nat /\ scan.cursor[s] \in Nat
               /\ scan.pages[s].last \in Nat
    <3>1. NextCursor(s) \in 0 .. NKeys
      BY <2>0, NextPosition
    <3>2. scan.cursor[s] \in 0 .. NKeys /\ scan.pages[s] \in Page
      BY <2>0, <2>3 DEF ScanState
    <3> QED
      BY <3>1, <3>2 DEF Page
  <2>6. CASE Kept # {}
    <3>1. PICK e \in Kept : TRUE
      BY <2>6
    <3>2. e \in Fetched /\ e = <<e[1], e[2]>> /\ e[1] \in Keys /\ e[2] \in scan.asked
      BY <2>0, <3>1, FetchedRows
    <3>3. e[1] \in Delivered(e[2])
      BY <3>1, <3>2 DEF Delivered
    <3>4. e[1] <= NextCursor(e[2])
      BY <2>0, <3>2, <3>3, NextPosition
    <3>5. scan.cursor[e[2]] < e[1]
      BY <2>0, <2>3, <3>2, <3>3, DeliveredRows DEF PageTrue
    <3>6. e[1] \in Nat
      BY <3>2 DEF Keys
    <3> QED
      BY <2>5, <3>2, <3>4, <3>5, <3>6
  <2>7. CASE Kept = {}
    <3>1. Fetched = {}
      BY <2>0, <2>7, FirstIsKept
    <3>2. PICK s \in scan.asked : Consumed(s)
      BY <2>2, <2>7, <3>1 DEF MayHaveMore
    <3>3. Delivered(s) = scan.pages[s].rows
      BY <2>0, <2>7, <3>1, DeliveredRows
    <3>4. scan.pages[s].last <= NextCursor(s)
      BY <2>0, <3>2, <3>3, NextPosition
    <3>5. scan.cursor[s] < scan.pages[s].last
      BY <2>3, <3>2 DEF PageTrue
    <3> QED
      BY <2>5, <3>4, <3>5
  <2> QED
    BY <2>6, <2>7
<1>2. ScanInv /\ [Next]_vars => [Forth]_vars
  BY <1>1
<1> QED
  BY <1>2, ScanInvHolds, PTL DEF Spec, PagesAdvance

\* A row that changes shards during a scan is returned at least once, when its
\* source was not purged in the middle of a call, no shard's page is shorter
\* than the limit and no entry without row was skipped (mergeTableScanPages).
THEOREM MovedRowsSeen == Spec => []MovedRowsAreSeen
<1>1. Init => FollowInv
  <2> SUFFICES ASSUME Init PROVE FollowInv
    OBVIOUS
  <2>1. scan.pc = "idle" /\ scan.asked = {} /\ scan.lasting = {}
    BY DEF Init
  <2> QED
    BY <2>1 DEF FollowInv, SourcesAsked, RowsFollowed, Followed
<1>2. ScanInv /\ FollowInv /\ [Next]_vars => FollowInv'
  BY FollowStep
<1>3. ScanInv /\ FollowInv => MovedRowsAreSeen
  <2> SUFFICES ASSUME ScanInv, FollowInv, scan.pc = "done", scan.limit <= PageSize, ~scan.gap,
                      NEW k \in scan.lasting \ scan.swept
               PROVE  scan.got[k] >= 1
    BY DEF MovedRowsAreSeen
  <2>1. scan.got[k] # 0
    BY DEF FollowInv, RowsFollowed, Followed, Awaited
  <2>2. scan.got[k] \in Nat
    BY DEF ScanInv, OwnersInv, CallTypes, ScanState
  <2> QED
    BY <2>1, <2>2
<1> QED
  BY <1>1, <1>2, <1>3, ScanInvHolds, PTL DEF Spec
=============================================================================
