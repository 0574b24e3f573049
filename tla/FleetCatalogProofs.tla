------------------------- MODULE FleetCatalogProofs -------------------------
(***************************************************************************)
(* Proofs about FleetCatalog, for any transactions, partitions, cutoffs,   *)
(* page sizes and bounds.                                                  *)
(***************************************************************************)
EXTENDS FleetCatalog, FiniteSetTheorems, TLAPS

MetaRec == [floor : Nat, seq : 0 .. MaxEvents, gen : 0 .. MaxGens,
            required : Nat, admitted : Nat, grid : Nat, scanned : Nat]

ActiveRec == [seq : Nat, retired : BOOLEAN]

Row == [seq : Event, b : Bucket, until : Nat, at : Nat]

SnapRec == [status : {"none", "BUILDING", "COMPLETE", "deleted"},
            cutoff : Nat, floor : Nat, fence : Nat, cursor : Nat,
            entries : SUBSET Entry, live : SUBSET Entry, done : Nat]

CloseRec == [status : {"none", "pending", "complete"}, gen : 0 .. MaxGens,
             cursor : Nat, listed : SUBSET Entry, sealed : SUBSET Evidence,
             count : Nat, total : Nat, root : SUBSET Evidence, upd : Nat]

PageRec == [gen : Gen, cursor : Nat, seen : SUBSET Entry,
            rows : SUBSET Entry, more : BOOLEAN]

BatchRec == [c : Cutoffs, cursor : Nat, rows : SUBSET Entry]

RootRec == [c : Cutoffs, sealed : SUBSET Evidence]

BucketRec == [floor : Nat, v1closed : BOOLEAN, v1 : SUBSET Nat]

TxRec == [st : {"new", "routed", "reserved", "done"}, b : Bucket]

\* The shapes of what the catalog stores.
CatalogTypes ==
  /\ meta \in MetaRec
  /\ active \in [Bucket -> ActiveRec] /\ history \subseteq Row
  /\ snaps \in [Gen -> SnapRec] /\ closes \in [Cutoffs -> CloseRec]
  /\ pages \subseteq PageRec /\ batches \subseteq BatchRec /\ roots \subseteq RootRec

\* The shapes of the buckets and of what the coordinators are at.
ClientTypes ==
  /\ bucket \in [Bucket -> BucketRec]
  /\ log \subseteq [tx : Txs, b : Bucket, at : Time]
  /\ receipts \subseteq Receipt
  /\ tx \in [Txs -> TxRec]
  /\ requests \subseteq [tx : Txs, floor : Nat]
  /\ admitted \subseteq [b : Bucket, at : Nat]

Types == now \in Time /\ CatalogTypes /\ ClientTypes

\* V1 decisions are before the boundary, and no route is served without one.
LegacyIsBehind ==
  /\ \A b \in Bucket : \A at \in bucket[b].v1 : at <= meta.admitted
  /\ \A a \in admitted : a.at <= meta.admitted
  /\ meta.required # 0 => meta.admitted < meta.required
  /\ meta.required = 0 => \A t \in Txs : tx[t].st = "new"
  /\ \A r \in requests : tx[r.tx].st # "new"

\* A reservation holds its bucket's floor at the boundary, and so does a call
\* that will make one.
FloorsAtBoundary ==
  /\ \A r \in requests : r.floor + 1 >= meta.required
  /\ \A t \in Txs : tx[t].st = "reserved" => bucket[tx[t].b].floor + 1 >= meta.required
  /\ \A d \in log : d.at >= meta.required /\ tx[d.tx].st # "new"

CoverageInv == LegacyIsBehind /\ FloorsAtBoundary

\* Every activation has its own event, and an active bucket its open row.
RowsTrue ==
  /\ \A h \in history : h.seq <= meta.seq
  /\ \A h, k \in history : h.seq = k.seq => h = k
  /\ \A b \in Bucket : IsActive(b) =>
       \E h \in history : h.seq = active[b].seq /\ h.b = b /\ h.until = 0

\* A bucket in use is active.
Actives == {b \in Bucket : IsActive(b)}

UsedIsActive ==
  /\ \A t \in Txs : tx[t].st = "reserved" => tx[t].b \in Actives
  /\ \A r \in requests : tx[r.tx].st = "routed" => tx[r.tx].b \in Actives
  /\ \A d \in log : d.b \in Actives

SameSeqs(rows) == \A e, f \in rows : e.seq = f.seq => e = f

\* The entries that a fence f selects of the rows H.
LiveEntries(H, f) ==
  EntriesOf({h \in H : h.seq <= f /\ (h.until = 0 \/ h.until > f)})

Held(g) == snaps[g].status \in {"BUILDING", "COMPLETE"}

\* What is stored of a snapshot is the prefix of its fence that was read.
SnapsTrue ==
  /\ \A g \in Gen : g > meta.gen => snaps[g].status = "none"
  /\ \A g \in Gen : Held(g) => SameSeqs(snaps[g].live)
  /\ \A g \in Gen : snaps[g].status = "BUILDING" =>
       /\ snaps[g].fence <= meta.seq
       /\ snaps[g].live = LiveEntries(history, snaps[g].fence)
       /\ snaps[g].entries = {e \in snaps[g].live : e.seq <= snaps[g].cursor}
  /\ \A g \in Gen : Complete(g) => snaps[g].entries = snaps[g].live

\* A page that was read is the next rows of the fence.
PageTrue(p) ==
  /\ p.rows \subseteq {e \in snaps[p.gen].live : e.seq > p.cursor}
  /\ p.more => p.rows # {}
  /\ \A e \in snaps[p.gen].live : e.seq > p.cursor /\ e \notin p.rows =>
       p.more /\ \A q \in p.rows : q.seq < e.seq

PagesTrue ==
  \A p \in pages :
    /\ snaps[p.gen].status # "none"
    /\ snaps[p.gen].status = "BUILDING" => PageTrue(p)

SnapInv == RowsTrue /\ SnapsTrue /\ PagesTrue

\* A receipt that is recorded for a listed entry is its bucket's.
EvidenceFor(c, s) ==
  /\ s.receipt \in receipts /\ s.receipt.cutoff = c
  /\ \E e \in closes[c].listed : e.seq = s.seq /\ e.b = s.receipt.b

\* A close lists the entries of the complete snapshot of its cutoff.
CloseTrue(c) ==
  /\ closes[c].gen \in Gen
  /\ Complete(closes[c].gen) /\ snaps[closes[c].gen].cutoff = c
  /\ closes[c].listed \subseteq snaps[closes[c].gen].entries
  /\ closes[c].total = Cardinality(snaps[closes[c].gen].entries)
  /\ \A s \in closes[c].sealed : EvidenceFor(c, s)

CloseOk(c) ==
  /\ closes[c].status = "none" => closes[c].listed = {} /\ closes[c].sealed = {}
  /\ closes[c].status # "complete" => closes[c].root = {}
  /\ closes[c].status # "none" => CloseTrue(c)

ClosesTrue ==
  /\ \A c \in Cutoffs : CloseOk(c)
  /\ \A b \in batches : closes[b.c].status # "none" =>
       b.rows \subseteq snaps[closes[b.c].gen].entries

\* What the receipt of a bucket says stays true.
ReceiptsTrue ==
  \A r \in receipts :
    /\ bucket[r.b].floor >= r.cutoff
    /\ r.members = {d \in log : d.b = r.b /\ d.at <= r.cutoff}

\* Nothing more will be decided in a bucket up to c.
ClosedAt(c, b) ==
  /\ \A t \in Txs : tx[t].st = "reserved" /\ tx[t].b = b => bucket[b].floor >= c
  /\ \A r \in requests :
       tx[r.tx].st = "routed" /\ tx[r.tx].b = b => r.floor >= c \/ bucket[b].floor >= c

\* A bucket that a snapshot does not have is closed up to its cutoff, and has
\* no decision there.
SnapsCover ==
  \A g \in Gen, c \in Cutoffs : Held(g) /\ snaps[g].cutoff = c =>
    /\ snaps[g].floor >= c /\ meta.floor >= c
    /\ \A b \in Bucket :
         \/ \E e \in snaps[g].live : e.b = b
         \/ ClosedAt(c, b) /\ \A d \in log : d.b = b => d.at > c

\* The evidence names the whole log up to c, for ever.
Rooted(c, evidence) ==
  /\ \A s \in evidence : s.receipt \in receipts /\ s.receipt.cutoff = c
  /\ meta.floor >= c
  /\ \A b \in Bucket : ClosedAt(c, b)
  /\ \A d \in log : d.at <= c => \E s \in evidence : d \in s.receipt.members

RootsTrue ==
  /\ \A r \in roots : Rooted(r.c, r.sealed)
  /\ \A c \in Cutoffs : closes[c].status = "complete" => Rooted(c, closes[c].root)

CloseInv == UsedIsActive /\ ClosesTrue /\ ReceiptsTrue /\ SnapsCover /\ RootsTrue

FleetInv == Types /\ CoverageInv /\ SnapInv /\ CloseInv
-----------------------------------------------------------------------------
(* Lemmas on numbers, days and buckets.                                    *)

\* The larger of two times.
LEMMA MaxOfTwo ==
  ASSUME NEW a \in Nat, NEW b \in Nat
  PROVE  Max({a, b}) \in Nat /\ Max({a, b}) \in {a, b} /\ Max({a, b}) >= a /\ Max({a, b}) >= b
<1>1. \E x \in {a, b} : \A y \in {a, b} : x >= y
  OBVIOUS
<1>2. Max({a, b}) \in {a, b} /\ \A y \in {a, b} : Max({a, b}) >= y
  BY <1>1 DEF Max
<1>3. QED
  BY <1>2

\* A set of naturals has a least element.
LEMMA HasLeast ==
  ASSUME NEW I \in SUBSET Nat, I # {}
  PROVE  \E m \in I : \A y \in I : m <= y
<1> DEFINE L == {ss \in Nat \X Nat : ss[1] < ss[2]}
<1>1. IsWellFoundedOn(L, Nat)
  BY NatLessThanWellFounded DEF OpToRel
<1> HIDE DEF L
<1>2. PICK m \in I : \A y \in I : ~(<<y, m>> \in L)
  BY <1>1, WFMin
<1>3. \A y \in I : ~(y < m)
  BY <1>2 DEF L
<1>4. \A y \in I : m <= y
  BY <1>3
<1>5. QED
  BY <1>4

\* A bounded set of naturals has a greatest element: Max picks it.
LEMMA MaxIsGreatest ==
  ASSUME NEW n \in Nat, NEW I \in SUBSET (0 .. n), I # {}
  PROVE  Max(I) \in I /\ \A y \in I : Max(I) >= y
<1> DEFINE U == {m \in Nat : \A y \in I : y <= m}
<1>1. n \in U
  OBVIOUS
<1>2. PICK m \in U : \A y \in U : m <= y
  <2> HIDE DEF U
  <2>1. U \subseteq Nat
    BY DEF U
  <2>2. QED
    BY <1>1, <2>1, HasLeast
<1>3. m \in I
  <2>1. SUFFICES ASSUME m \notin I
                 PROVE  FALSE
    OBVIOUS
  <2>2. \A y \in I : y < m
    BY <2>1, <1>2
  <2>3. PICK y0 : y0 \in I
    OBVIOUS
  <2>4. m - 1 \in U
    BY <2>2, <2>3, <1>2
  <2>5. QED
    BY <2>4, <1>2
<1>4. \E x \in I : \A y \in I : x >= y
  BY <1>2, <1>3
<1>5. QED
  BY <1>4 DEF Max

\* A day is a number.
LEMMA DaysAreNat ==
  ASSUME NEW t \in Nat
  PROVE  Day(t) \in Nat
  BY FleetAssumption DEF Day

\* There is a bucket.
LEMMA SomeBucket == \E b : b \in Bucket
<1>1. Day(1) \in Days
  BY FleetAssumption DEF Days, Time
<1>2. PICK p : p \in Partitions
  BY FleetAssumption
<1>3. [day |-> Day(1), part |-> p] \in Bucket
  BY <1>1, <1>2 DEF Bucket
<1>4. QED
  BY <1>3

-----------------------------------------------------------------------------
(* The shapes.                                                             *)

\* The empty catalog and the empty buckets have the shapes.
LEMMA InitTypes == Init => Types
<1> SUFFICES ASSUME Init PROVE Types
  OBVIOUS
<1> USE DEF Init
<1>1. now \in Time
  BY FleetAssumption DEF Time
<1>2. meta \in MetaRec
  <2>1. 0 \in 0 .. MaxEvents /\ 0 \in 0 .. MaxGens
    BY FleetAssumption
  <2>2. QED
    BY <2>1 DEF MetaRec
<1>3. active \in [Bucket -> ActiveRec] /\ history \subseteq Row
  BY DEF ActiveRec
<1>4. snaps \in [Gen -> SnapRec]
  <2>1. NoSnap \in SnapRec
    BY DEF NoSnap, SnapRec
  <2>2. QED
    BY <2>1
<1>5. closes \in [Cutoffs -> CloseRec]
  <2>1. 0 \in 0 .. MaxGens
    BY FleetAssumption
  <2>2. NoClose \in CloseRec
    BY <2>1 DEF NoClose, CloseRec
  <2>3. QED
    BY <2>2
<1>6. bucket \in [Bucket -> BucketRec]
  BY DEF BucketRec
<1>7. tx \in [Txs -> TxRec]
  <2>1. (CHOOSE b \in Bucket : TRUE) \in Bucket
    BY SomeBucket
  <2>2. QED
    BY <2>1 DEF TxRec
<1>8. QED
  BY <1>1, <1>2, <1>3, <1>4, <1>5, <1>6, <1>7 DEF Types, CatalogTypes, ClientTypes

\* Activation keeps the shapes of what it writes.
LEMMA ActivationTypes ==
  ASSUME CatalogTypes, NEW b \in Bucket, Activation(b)
  PROVE  meta' \in MetaRec /\ active' \in [Bucket -> ActiveRec] /\ history' \subseteq Row
<1>1. CASE IsActive(b)
  BY <1>1 DEF Activation, CatalogTypes
<1>2. CASE ~IsActive(b)
  <2>1. meta.seq + 1 \in Event /\ meta.seq + 1 \in 0 .. MaxEvents
    BY <1>2, FleetAssumption DEF Activation, CatalogTypes, MetaRec, Event
  <2>2. meta' \in MetaRec
    BY <1>2, <2>1 DEF Activation, CatalogTypes, MetaRec
  <2>3. active' \in [Bucket -> ActiveRec]
    <3>1. [seq |-> meta.seq + 1, retired |-> FALSE] \in ActiveRec
      BY <2>1 DEF ActiveRec, Event
    <3>2. QED
      BY <1>2, <3>1 DEF Activation, CatalogTypes
  <2>4. [seq |-> meta.seq + 1, b |-> b, until |-> 0, at |-> 0] \in Row
    BY <2>1 DEF Row
  <2>5. QED
    BY <1>2, <2>2, <2>3, <2>4 DEF Activation, CatalogTypes
<1>3. QED
  BY <1>1, <1>2

\* The floor that an activation answers is a time.
LEMMA RequiredFloorIsNat ==
  ASSUME meta \in MetaRec
  PROVE  /\ RequiredFloor \in Nat /\ RequiredFloor >= meta.floor
         /\ meta.required # 0 => RequiredFloor + 1 >= meta.required
<1> DEFINE r == IF meta.required = 0 THEN 0 ELSE meta.required - 1
<1>1. meta.floor \in Nat /\ r \in Nat
  BY DEF MetaRec
<1>2. RequiredFloor = Max({meta.floor, r})
  BY DEF RequiredFloor
<1>3. RequiredFloor \in Nat /\ RequiredFloor >= meta.floor /\ RequiredFloor >= r
  <2> HIDE DEF r
  <2> QED
    BY <1>1, <1>2, MaxOfTwo
<1>4. meta.required \in Nat
  BY DEF MetaRec
<1>5. QED
  BY <1>3, <1>4

\* Retirement keeps them.
LEMMA RetireTypes ==
  ASSUME CatalogTypes, now \in Time, NEW b \in Bucket, Retire(b)
  PROVE  meta' \in MetaRec /\ active' \in [Bucket -> ActiveRec] /\ history' \subseteq Row
<1>1. meta.seq + 1 \in 0 .. MaxEvents
  <2>1. meta.seq \in 0 .. MaxEvents
    BY DEF CatalogTypes, MetaRec
  <2>2. meta.seq < MaxEvents
    BY DEF Retire
  <2>3. QED
    BY <2>1, <2>2, FleetAssumption
<1>2. meta' \in MetaRec
  BY <1>1 DEF Retire, CatalogTypes, MetaRec
<1>3. active' \in [Bucket -> ActiveRec]
  BY DEF Retire, CatalogTypes, ActiveRec
<1>4. ASSUME NEW h \in history
      PROVE  [h EXCEPT !.until = meta.seq + 1, !.at = now] \in Row
  <2>1. h \in Row /\ meta.seq + 1 \in Nat /\ now \in Nat
    BY <1>1, FleetAssumption DEF CatalogTypes, Time
  <2>2. QED
    BY <2>1 DEF Row
<1>5. QED
  BY <1>2, <1>3, <1>4 DEF Retire, CatalogTypes

\* The entries of rows.
LEMMA EntriesTypes ==
  ASSUME NEW rows \in SUBSET Row
  PROVE  EntriesOf(rows) \subseteq Entry
  BY DEF EntriesOf, Row, Entry
\* Routes and activations keep the shapes.
LEMMA RouteTypes ==
  ASSUME Types, NEW t \in Txs, NEW b \in Bucket
  PROVE  /\ AssignRoute(t, b) => Types'
         /\ ActivateForReserve(t) => Types'
<1>1. ASSUME AssignRoute(t, b) PROVE Types'
  <2>1. meta' \in MetaRec
    <3>1. meta.admitted + 1 \in Nat /\ now \in Nat
      BY FleetAssumption DEF Types, CatalogTypes, MetaRec, Time
    <3>2. Boundary \in Nat
      BY <3>1, MaxOfTwo DEF Boundary
    <3>3. QED
      BY <1>1, <3>2 DEF AssignRoute, Types, CatalogTypes, MetaRec
  <2>2. tx' \in [Txs -> TxRec]
    BY <1>1 DEF AssignRoute, Types, ClientTypes, TxRec
  <2>3. QED
    BY <1>1, <2>1, <2>2 DEF AssignRoute, Types, CatalogTypes, ClientTypes, bucketVars
<1>2. ASSUME ActivateForReserve(t) PROVE Types'
  <2>1. tx[t].b \in Bucket
    BY DEF Types, ClientTypes, TxRec
  <2>2. meta' \in MetaRec /\ active' \in [Bucket -> ActiveRec] /\ history' \subseteq Row
    BY <1>2, <2>1, ActivationTypes DEF ActivateForReserve, Types
  <2>3. RequiredFloor \in Nat
    BY RequiredFloorIsNat DEF Types, CatalogTypes
  <2>4. requests' \subseteq [tx : Txs, floor : Nat]
    BY <1>2, <2>3 DEF ActivateForReserve, Types, ClientTypes
  <2>5. QED
    BY <1>2, <2>2, <2>4 DEF ActivateForReserve, Types, CatalogTypes, ClientTypes, bucketVars
<1>3. QED
  BY <1>1, <1>2

\* So do the steps of the buckets and the coordinators.
LEMMA ClientStepTypes ==
  ASSUME Types
  PROVE  /\ \A r \in requests : DeliverReserve(r) => Types'
         /\ \A t \in Txs, at \in Time : Decide(t, at) => Types'
         /\ \A t \in Txs : Abandon(t) => Types'
         /\ \A a \in admitted : DeliverLegacy(a) => Types'
<1>1. ASSUME NEW r \in requests, DeliverReserve(r) PROVE Types'
  <2>1. r.tx \in Txs /\ r.floor \in Nat
    BY DEF Types, ClientTypes
  <2>2. tx[r.tx].b \in Bucket
    BY <2>1 DEF Types, ClientTypes, TxRec
  <2>3. bucket[tx[r.tx].b].floor \in Nat
    BY <2>2 DEF Types, ClientTypes, BucketRec
  <2>4. Max({bucket[tx[r.tx].b].floor, r.floor}) \in Nat
    BY <2>1, <2>3, MaxOfTwo
  <2>5. bucket' \in [Bucket -> BucketRec]
    BY <1>1, <2>2, <2>4 DEF DeliverReserve, Types, ClientTypes, BucketRec
  <2>6. tx' \in [Txs -> TxRec]
    BY <1>1, <2>1 DEF DeliverReserve, Types, ClientTypes, TxRec
  <2>7. QED
    BY <1>1, <2>5, <2>6 DEF DeliverReserve, Types, CatalogTypes, ClientTypes, catalogVars
<1>2. ASSUME NEW t \in Txs, NEW at \in Time, Decide(t, at) PROVE Types'
  <2>1. tx[t].b \in Bucket
    BY DEF Types, ClientTypes, TxRec
  <2>2. tx' \in [Txs -> TxRec]
    BY <1>2 DEF Decide, Types, ClientTypes, TxRec
  <2>3. QED
    BY <1>2, <2>1, <2>2 DEF Decide, Types, CatalogTypes, ClientTypes, catalogVars
<1>3. ASSUME NEW t \in Txs, Abandon(t) PROVE Types'
  <2>1. tx' \in [Txs -> TxRec]
    BY <1>3 DEF Abandon, Types, ClientTypes, TxRec
  <2>2. QED
    BY <1>3, <2>1 DEF Abandon, Types, CatalogTypes, ClientTypes, catalogVars, bucketVars
<1>4. ASSUME NEW a \in admitted, DeliverLegacy(a) PROVE Types'
  <2>1. a.b \in Bucket /\ a.at \in Nat
    BY DEF Types, ClientTypes
  <2>2. bucket' \in [Bucket -> BucketRec]
    BY <1>4, <2>1 DEF DeliverLegacy, Types, ClientTypes, BucketRec
  <2>3. QED
    BY <1>4, <2>2 DEF DeliverLegacy, Types, CatalogTypes, ClientTypes, catalogVars
<1>5. QED
  BY <1>1, <1>2, <1>3, <1>4

\* So do retirement, V1 registration and the days of the grid.
LEMMA BucketStepTypes ==
  ASSUME Types, NEW b \in Bucket
  PROVE  /\ Retire(b) => Types'
         /\ \A at \in Time : AdmitLegacy(b, at) => Types'
         /\ MaterializeGrid(b) => Types'
<1>1. ASSUME Retire(b) PROVE Types'
  <2>1. meta' \in MetaRec /\ active' \in [Bucket -> ActiveRec] /\ history' \subseteq Row
    BY <1>1, RetireTypes DEF Types
  <2>2. QED
    BY <1>1, <2>1 DEF Retire, Types, CatalogTypes, ClientTypes, bucketVars, clientVars
<1>2. ASSUME NEW at \in Time, AdmitLegacy(b, at) PROVE Types'
  <2>1. at \in Nat /\ meta.admitted \in Nat
    BY FleetAssumption DEF Time, Types, CatalogTypes, MetaRec
  <2>2. Max({meta.admitted, at}) \in Nat
    BY <2>1, MaxOfTwo
  <2>3. meta' \in MetaRec /\ active' \in [Bucket -> ActiveRec] /\ history' \subseteq Row
    <3>1. CASE IsActive(b)
      <4>1. meta' \in MetaRec
        BY <1>2, <2>2, <3>1 DEF AdmitLegacy, Types, CatalogTypes, MetaRec
      <4>2. QED
        BY <1>2, <3>1, <4>1 DEF AdmitLegacy, Types, CatalogTypes
    <3>2. CASE ~IsActive(b)
      <4>1. meta.seq + 1 \in Event /\ meta.seq + 1 \in 0 .. MaxEvents /\ meta.seq + 1 \in Nat
        BY <1>2, <3>2, FleetAssumption DEF AdmitLegacy, Types, CatalogTypes, MetaRec, Event
      <4>2. meta' \in MetaRec
        BY <1>2, <2>2, <3>2, <4>1 DEF AdmitLegacy, Types, CatalogTypes, MetaRec
      <4>3. active' \in [Bucket -> ActiveRec]
        <5>1. [seq |-> meta.seq + 1, retired |-> FALSE] \in ActiveRec
          BY <4>1 DEF ActiveRec
        <5>2. QED
          BY <1>2, <3>2, <5>1 DEF AdmitLegacy, Types, CatalogTypes
      <4>4. [seq |-> meta.seq + 1, b |-> b, until |-> 0, at |-> 0] \in Row
        BY <4>1 DEF Row
      <4>5. QED
        BY <1>2, <3>2, <4>2, <4>3, <4>4 DEF AdmitLegacy, Types, CatalogTypes
    <3>3. QED
      BY <3>1, <3>2
  <2>4. admitted' \subseteq [b : Bucket, at : Nat]
    BY <1>2, <2>1 DEF AdmitLegacy, Types, ClientTypes
  <2>5. QED
    BY <1>2, <2>3, <2>4 DEF AdmitLegacy, Types, CatalogTypes, ClientTypes, bucketVars
<1>3. ASSUME MaterializeGrid(b) PROVE Types'
  <2>1. meta' \in MetaRec /\ active' \in [Bucket -> ActiveRec] /\ history' \subseteq Row
    BY <1>3, ActivationTypes DEF MaterializeGrid, Types
  <2>2. QED
    BY <1>3, <2>1 DEF MaterializeGrid, Types, CatalogTypes, ClientTypes, bucketVars, clientVars
<1>4. QED
  BY <1>1, <1>2, <1>3

\* The two cursors over the days stay numbers.
LEMMA DayStepTypes ==
  ASSUME Types
  PROVE  /\ AdvanceGrid => Types'
         /\ \A c \in Cutoffs : AdvanceScanned(c) => Types'
<1>1. Day(meta.required) \in Nat /\ meta.grid \in Nat /\ meta.scanned \in Nat
  BY DaysAreNat DEF Types, CatalogTypes, MetaRec
<1>2. FirstUnmaterialized + 1 \in Nat /\ FirstUnscanned + 1 \in Nat
  BY <1>1 DEF FirstUnmaterialized, FirstUnscanned
<1>3. ASSUME AdvanceGrid PROVE Types'
  <2>1. meta' \in MetaRec
    BY <1>2, <1>3 DEF AdvanceGrid, Types, CatalogTypes, MetaRec
  <2>2. QED
    BY <1>3, <2>1 DEF AdvanceGrid, Types, CatalogTypes, ClientTypes, bucketVars, clientVars
<1>4. ASSUME NEW c \in Cutoffs, AdvanceScanned(c) PROVE Types'
  <2>1. meta' \in MetaRec
    BY <1>2, <1>4 DEF AdvanceScanned, Types, CatalogTypes, MetaRec
  <2>2. QED
    BY <1>4, <2>1 DEF AdvanceScanned, Types, CatalogTypes, ClientTypes, bucketVars, clientVars
<1>5. QED
  BY <1>3, <1>4
\* The cursor after a page: its last event.
LEMMA LastSeqIsGreatest ==
  ASSUME NEW rows \in SUBSET Entry, NEW d \in Nat
  PROVE  /\ LastSeq(rows, d) \in Nat
         /\ rows = {} => LastSeq(rows, d) = d
         /\ rows # {} =>
              /\ \E r \in rows : r.seq = LastSeq(rows, d)
              /\ \A r \in rows : r.seq <= LastSeq(rows, d)
<1>1. CASE rows = {}
  BY <1>1 DEF LastSeq
<1>2. CASE rows # {}
  <2> DEFINE I == {r.seq : r \in rows}
  <2>1. I \in SUBSET (0 .. MaxEvents) /\ I # {}
    BY <1>2, FleetAssumption DEF Entry, Event
  <2>2. Max(I) \in I /\ \A y \in I : Max(I) >= y
    <3> HIDE DEF I
    <3> QED
      BY <2>1, FleetAssumption, MaxIsGreatest
  <2>3. LastSeq(rows, d) = Max(I)
    BY <1>2 DEF LastSeq
  <2>4. LastSeq(rows, d) \in I /\ \A y \in I : LastSeq(rows, d) >= y /\ y \in Nat
    <3> HIDE DEF I
    <3> QED
      BY <2>1, <2>2, <2>3, FleetAssumption
  <2>5. LastSeq(rows, d) \in Nat
    BY <2>4
  <2>6. \E r \in rows : r.seq = LastSeq(rows, d)
    BY <2>4
  <2>7. \A r \in rows : r.seq <= LastSeq(rows, d)
    <3> TAKE r \in rows
    <3>1. r.seq \in I
      OBVIOUS
    <3> HIDE DEF I
    <3>2. QED
      BY <2>4, <2>5, <3>1
  <2>8. QED
    BY <1>2, <2>5, <2>6, <2>7
<1>3. QED
  BY <1>1, <1>2

\* Entries of different events are finitely many.
LEMMA FiniteBySeq ==
  ASSUME NEW S, \A e \in S : e.seq \in Event, SameSeqs(S)
  PROVE  IsFiniteSet(S)
<1> DEFINE f == [e \in S |-> e.seq]
<1>1. f \in [S -> Event]
  OBVIOUS
<1>2. \A e, k \in S : f[e] = f[k] => e = k
  BY DEF SameSeqs
<1>3. f \in Injection(S, Event)
  <2> HIDE DEF f
  <2> QED
    BY <1>1, <1>2 DEF Injection, IsInjective
<1>4. IsFiniteSet(Event)
  BY FS_Interval, FleetAssumption DEF Event
<1>5. QED
  <2> HIDE DEF f
  <2> QED
    BY <1>3, <1>4, FS_Injection

\* What the catalog reads of a page keeps the shapes.
LEMMA SnapStepTypes ==
  ASSUME Types
  PROVE  /\ \A c \in Cutoffs : NewSnapshot(c) => Types'
         /\ \A g \in Gen : ReadPage(g) => Types'
         /\ \A p \in pages : StorePage(p) => Types'
<1>1. ASSUME NEW c \in Cutoffs, NewSnapshot(c) PROVE Types'
  <2>1. meta.gen + 1 \in Gen /\ meta.gen + 1 \in 0 .. MaxGens
    <3>1. meta.gen \in 0 .. MaxGens /\ meta.gen < MaxGens
      BY <1>1 DEF NewSnapshot, Types, CatalogTypes, MetaRec
    <3>2. QED
      BY <3>1, FleetAssumption DEF Gen
  <2>2. meta.floor \in Nat /\ meta.seq \in Nat /\ c \in Nat /\ now \in Nat
    BY FleetAssumption DEF Types, CatalogTypes, MetaRec, Time
  <2>3. Max({meta.floor, c}) \in Nat
    BY <2>2, MaxOfTwo
  <2>4. meta' \in MetaRec
    BY <1>1, <2>1, <2>3 DEF NewSnapshot, Types, CatalogTypes, MetaRec
  <2>5. EntriesOf(LiveAt(meta.seq)) \subseteq Entry
    BY EntriesTypes DEF LiveAt, Types, CatalogTypes
  <2>6. [NoSnap EXCEPT !.status = "BUILDING", !.cutoff = c, !.done = now,
                       !.floor = Max({meta.floor, c}), !.fence = meta.seq,
                       !.live = EntriesOf(LiveAt(meta.seq))] \in SnapRec
    BY <2>2, <2>3, <2>5 DEF NoSnap, SnapRec
  <2>7. snaps' \in [Gen -> SnapRec]
    BY <1>1, <2>1, <2>6 DEF NewSnapshot, Types, CatalogTypes
  <2>8. QED
    BY <1>1, <2>4, <2>7 DEF NewSnapshot, Types, CatalogTypes, ClientTypes, bucketVars, clientVars
<1>2. ASSUME NEW g \in Gen, ReadPage(g) PROVE Types'
  <2>1. snaps[g] \in SnapRec
    BY DEF Types, CatalogTypes
  <2>2. FirstRows(Candidates(g), PageSize) \subseteq Row
    BY DEF FirstRows, Candidates, LiveAt, Types, CatalogTypes
  <2>3. EntriesOf(FirstRows(Candidates(g), PageSize)) \subseteq Entry
    BY <2>2, EntriesTypes
  <2>4. \A rows \in SUBSET Entry, more \in BOOLEAN :
          [gen |-> g, cursor |-> snaps[g].cursor, seen |-> snaps[g].entries,
           rows |-> rows, more |-> more] \in PageRec
    BY <2>1 DEF PageRec, SnapRec
  <2>a. (Cardinality(Candidates(g)) > PageSize) \in BOOLEAN
    OBVIOUS
  <2>b. PICK rows \in SUBSET Entry, more \in BOOLEAN :
          pages' = pages \cup
            {[gen |-> g, cursor |-> snaps[g].cursor, seen |-> snaps[g].entries,
              rows |-> rows, more |-> more]}
    BY <1>2, <2>3, <2>a, Zenon DEF ReadPage
  <2>6. pages' \subseteq PageRec
    BY <2>4, <2>b DEF Types, CatalogTypes
  <2>5. QED
    BY <1>2, <2>6 DEF ReadPage, Types, CatalogTypes, ClientTypes, bucketVars, clientVars
<1>3. ASSUME NEW p \in pages, StorePage(p) PROVE Types'
  <2>1. p.gen \in Gen /\ p.rows \subseteq Entry
    BY DEF Types, CatalogTypes, PageRec
  <2>2. snaps[p.gen] \in SnapRec
    BY <2>1 DEF Types, CatalogTypes
  <2>3. LastSeq(p.rows, snaps[p.gen].cursor) \in Nat /\ now \in Nat
    <3>1. snaps[p.gen].cursor \in Nat
      BY <2>2 DEF SnapRec
    <3>2. LastSeq(p.rows, snaps[p.gen].cursor) \in Nat
      BY <2>1, <3>1, LastSeqIsGreatest
    <3>3. QED
      BY <3>2, FleetAssumption DEF Types, Time
  <2>4. [snaps[p.gen] EXCEPT !.entries = @ \cup p.rows,
           !.cursor = LastSeq(p.rows, @),
           !.status = IF p.more THEN "BUILDING" ELSE "COMPLETE",
           !.done = IF p.more THEN @ ELSE now] \in SnapRec
    BY <2>1, <2>2, <2>3 DEF SnapRec
  <2>5. snaps' \in [Gen -> SnapRec]
    <3> DEFINE new == [snaps[p.gen] EXCEPT !.entries = @ \cup p.rows,
                         !.cursor = LastSeq(p.rows, @),
                         !.status = IF p.more THEN "BUILDING" ELSE "COMPLETE",
                         !.done = IF p.more THEN @ ELSE now]
    <3>1. snaps' = snaps \/ snaps' = [snaps EXCEPT ![p.gen] = new]
      BY <1>3, Zenon DEF StorePage
    <3>2. snaps \in [Gen -> SnapRec]
      BY DEF Types, CatalogTypes
    <3>3. new \in SnapRec
      BY <2>4
    <3> HIDE DEF new
    <3>4. QED
      BY <3>1, <3>2, <3>3, <2>1
  <2>6. pages' \subseteq PageRec
    BY <1>3 DEF StorePage, Types, CatalogTypes
  <2>7. QED
    BY <1>3, <2>5, <2>6 DEF StorePage, Types, CatalogTypes, ClientTypes, bucketVars, clientVars
<1>4. QED
  BY <1>1, <1>2, <1>3

\* A complete snapshot has finitely many entries.
LEMMA CompleteIsFinite ==
  ASSUME Types, SnapsTrue, NEW g \in Gen, Complete(g)
  PROVE  IsFiniteSet(snaps[g].entries) /\ SameSeqs(snaps[g].entries)
<1>1. SameSeqs(snaps[g].live) /\ snaps[g].entries = snaps[g].live
  BY DEF SnapsTrue, Held, Complete
<1>2. snaps[g].live \subseteq Entry
  BY DEF Types, CatalogTypes, SnapRec
<1>3. \A e \in snaps[g].live : e.seq \in Event
  BY <1>2 DEF Entry
<1>4. QED
  BY <1>1, <1>3, FiniteBySeq

\* The steps of a close keep the shapes.
LEMMA CloseStepTypes ==
  ASSUME Types, SnapsTrue, ClosesTrue, NEW c \in Cutoffs
  PROVE  /\ \A g \in Gen : BeginClose(c, g) => Types'
         /\ ReadBatch(c) => Types'
         /\ \A e \in closes[c].listed : SealBucket(c, e) => Types'
         /\ \A e \in closes[c].listed, r \in receipts : RecordReceipt(c, e, r) => Types'
         /\ ReadReceipts(c) => Types'
<1>1. closes[c] \in CloseRec /\ closes \in [Cutoffs -> CloseRec] /\ now \in Nat
  BY FleetAssumption DEF Types, CatalogTypes, Time
<1>2. ASSUME NEW g \in Gen, BeginClose(c, g) PROVE Types'
  <2>1. Cardinality(snaps[g].entries) \in Nat
    BY <1>2, CompleteIsFinite, FS_CardinalityType DEF BeginClose
  <2>2. g \in 0 .. MaxGens /\ 0 \in 0 .. MaxGens
    BY FleetAssumption DEF Gen
  <2>3. [NoClose EXCEPT !.status = "pending", !.gen = g, !.upd = now,
                        !.total = Cardinality(snaps[g].entries)] \in CloseRec
    BY <1>1, <2>1, <2>2 DEF NoClose, CloseRec
  <2>4. closes' \in [Cutoffs -> CloseRec]
    BY <1>1, <1>2, <2>3 DEF BeginClose
  <2>5. QED
    BY <1>2, <2>4 DEF BeginClose, Types, CatalogTypes, ClientTypes, bucketVars, clientVars
<1>3. ASSUME ReadBatch(c) PROVE Types'
  <2> DEFINE rows == FirstRows({e \in snaps[closes[c].gen].entries :
                                  e.seq > closes[c].cursor}, PageSize)
  <2>1. closes[c].gen \in Gen /\ closes[c].cursor \in Nat
    BY <1>1, <1>3 DEF ReadBatch, ClosesTrue, CloseOk, CloseTrue, CloseRec
  <2>2. snaps[closes[c].gen].entries \subseteq Entry
    BY <2>1 DEF Types, CatalogTypes, SnapRec
  <2>3. rows \subseteq Entry
    BY <2>2 DEF FirstRows
  <2>4. batches' = batches \cup {[c |-> c, cursor |-> closes[c].cursor, rows |-> rows]}
    BY <1>3 DEF ReadBatch
  <2> HIDE DEF rows
  <2>5. batches' \subseteq BatchRec
    BY <2>1, <2>3, <2>4 DEF Types, CatalogTypes, BatchRec
  <2>6. QED
    BY <1>3, <2>5 DEF ReadBatch, Types, CatalogTypes, ClientTypes, bucketVars, clientVars
<1>4. ASSUME NEW e \in closes[c].listed, SealBucket(c, e) PROVE Types'
  <2>1. e \in Entry /\ closes[c].gen \in Gen
    BY <1>1, <1>4 DEF CloseRec, SealBucket, ClosesTrue, CloseOk, CloseTrue
  <2>2. e.b \in Bucket /\ snaps[closes[c].gen].floor \in Nat
    BY <2>1 DEF Entry, Types, CatalogTypes, SnapRec
  <2>3. bucket[e.b].floor \in Nat
    BY <2>2 DEF Types, ClientTypes, BucketRec
  <2>4. SealFloor(e.b, closes[c].gen) \in Nat
    BY <2>2, <2>3, MaxOfTwo DEF SealFloor
  <2>5. bucket' \in [Bucket -> BucketRec]
    BY <1>4, <2>2, <2>4 DEF SealBucket, Types, ClientTypes, BucketRec
  <2>6. {d \in log : d.b = e.b /\ d.at <= c} \subseteq Decision
    BY FleetAssumption DEF Types, ClientTypes, Decision, Time
  <2>7. receipts' \subseteq Receipt
    BY <1>4, <2>2, <2>6 DEF SealBucket, Types, ClientTypes, Receipt
  <2>8. QED
    BY <1>4, <2>5, <2>7 DEF SealBucket, Types, CatalogTypes, ClientTypes, catalogVars, clientVars
<1>5. ASSUME NEW e \in closes[c].listed, NEW r \in receipts, RecordReceipt(c, e, r)
      PROVE  Types'
  <2>1. e \in Entry /\ r \in Receipt
    BY <1>1 DEF CloseRec, Types, ClientTypes
  <2> DEFINE s == [seq |-> e.seq, receipt |-> r]
             new == [closes[c] EXCEPT !.sealed = @ \cup {s}, !.count = @ + 1, !.upd = now]
  <2>2. s \in Evidence
    BY <2>1 DEF Entry, Evidence
  <2>a. closes' = [closes EXCEPT ![c] = new]
    BY <1>5, Zenon DEF RecordReceipt
  <2> HIDE DEF s
  <2>3. new \in CloseRec
    <3>1. \A x \in SUBSET Evidence, n \in Nat :
            [closes[c] EXCEPT !.sealed = x, !.count = n, !.upd = now] \in CloseRec
      BY <1>1 DEF CloseRec
    <3>2. closes[c].sealed \cup {s} \in SUBSET Evidence /\ closes[c].count + 1 \in Nat
      BY <1>1, <2>2 DEF CloseRec
    <3>3. QED
      BY <3>1, <3>2, Zenon
  <2> HIDE DEF new
  <2>4. closes' \in [Cutoffs -> CloseRec]
    BY <1>1, <2>3, <2>a
  <2>5. QED
    BY <1>5, <2>4 DEF RecordReceipt, Types, CatalogTypes, ClientTypes, bucketVars, clientVars
<1>6. ASSUME ReadReceipts(c) PROVE Types'
  <2>1. closes[c].sealed \subseteq Evidence
    BY <1>1 DEF CloseRec
  <2>2. roots' \subseteq RootRec
    BY <1>6, <2>1 DEF ReadReceipts, Types, CatalogTypes, RootRec
  <2>3. QED
    BY <1>6, <2>2 DEF ReadReceipts, Types, CatalogTypes, ClientTypes, bucketVars, clientVars
<1>7. QED
  BY <1>2, <1>3, <1>4, <1>5, <1>6

\* So do the calls that come back, and retention.
LEMMA ReturnStepTypes ==
  ASSUME Types
  PROVE  /\ \A b \in batches : StoreBatch(b) => Types'
         /\ \A r \in roots : PublishRoot(r) => Types'
         /\ Purge => Types'
<1>1. closes \in [Cutoffs -> CloseRec] /\ now \in Nat
  BY FleetAssumption DEF Types, CatalogTypes, Time
<1>2. ASSUME NEW b \in batches, StoreBatch(b) PROVE Types'
  <2>1. b.c \in Cutoffs /\ b.rows \subseteq Entry
    BY DEF Types, CatalogTypes, BatchRec
  <2>2. closes[b.c] \in CloseRec
    BY <1>1, <2>1
  <2> DEFINE last == LastSeq(b.rows, closes[b.c].cursor)
             new == [closes[b.c] EXCEPT !.listed = @ \cup b.rows,
                       !.cursor = last, !.upd = now]
  <2>3. closes[b.c].cursor \in Nat
    BY <2>2 DEF CloseRec
  <2>4. last \in Nat
    BY <2>1, <2>3, LastSeqIsGreatest
  <2>5. closes' = closes \/ closes' = [closes EXCEPT ![b.c] = new]
    BY <1>2, Zenon DEF StoreBatch
  <2>6. batches' \subseteq batches
    BY <1>2 DEF StoreBatch
  <2> HIDE DEF last
  <2>7. new \in CloseRec
    BY <1>1, <2>1, <2>2, <2>4 DEF CloseRec
  <2> HIDE DEF new
  <2>8. closes' \in [Cutoffs -> CloseRec]
    BY <1>1, <2>1, <2>5, <2>7
  <2>9. QED
    BY <1>2, <2>6, <2>8 DEF StoreBatch, Types, CatalogTypes, ClientTypes, bucketVars, clientVars
<1>3. ASSUME NEW r \in roots, PublishRoot(r) PROVE Types'
  <2>1. r.c \in Cutoffs /\ r.sealed \subseteq Evidence
    BY DEF Types, CatalogTypes, RootRec
  <2>2. [closes[r.c] EXCEPT !.status = "complete", !.root = r.sealed, !.upd = now] \in CloseRec
    BY <1>1, <2>1 DEF CloseRec
  <2>3. closes' \in [Cutoffs -> CloseRec]
    BY <1>1, <1>3, <2>1, <2>2 DEF PublishRoot
  <2>4. QED
    BY <1>3, <2>3 DEF PublishRoot, Types, CatalogTypes, ClientTypes, bucketVars, clientVars
<1>4. ASSUME Purge PROVE Types'
  <2>1. NoClose \in CloseRec
    <3>1. 0 \in 0 .. MaxGens
      BY FleetAssumption
    <3>2. QED
      BY <3>1 DEF NoClose, CloseRec
  <2>2. closes' \in [Cutoffs -> CloseRec]
    BY <1>1, <1>4, <2>1 DEF Purge
  <2>3. [NoSnap EXCEPT !.status = "deleted"] \in SnapRec
    BY DEF NoSnap, SnapRec
  <2>4. snaps' \in [Gen -> SnapRec]
    BY <1>4, <2>3 DEF Purge, Types, CatalogTypes
  <2>5. history' \subseteq history
    BY <1>4 DEF Purge
  <2>6. QED
    BY <1>4, <2>2, <2>4, <2>5 DEF Purge, Types, CatalogTypes, ClientTypes, bucketVars, clientVars
<1>5. QED
  BY <1>2, <1>3, <1>4

\* Every step keeps the shapes.
LEMMA TypesStep ==
  ASSUME Types, SnapsTrue, ClosesTrue, [Next]_vars
  PROVE  Types'
<1>1. CASE UNCHANGED vars
  BY <1>1 DEF Types, CatalogTypes, ClientTypes, vars, catalogVars, bucketVars, clientVars
<1>2. CASE Tick
  <2>1. now + 1 \in Time
    BY <1>2, FleetAssumption DEF Tick, Types, Time
  <2>2. QED
    BY <1>2, <2>1 DEF Tick, Types, CatalogTypes, ClientTypes, catalogVars, bucketVars, clientVars
<1>3. CASE Restart
  BY <1>3 DEF Restart, Types, CatalogTypes, ClientTypes, bucketVars, clientVars
<1>4. ASSUME NEW t \in Txs,
             \/ \E b \in Bucket : AssignRoute(t, b)
             \/ ActivateForReserve(t)
             \/ \E at \in Time : Decide(t, at)
             \/ Abandon(t)
      PROVE  Types'
  <2>1. \E b : b \in Bucket
    BY SomeBucket
  <2>2. QED
    BY <1>4, <2>1, RouteTypes, ClientStepTypes
<1>5. ASSUME NEW b \in Bucket,
             Retire(b) \/ (\E at \in Time : AdmitLegacy(b, at)) \/ MaterializeGrid(b)
      PROVE  Types'
  BY <1>5, BucketStepTypes
<1>6. ASSUME NEW c \in Cutoffs,
             \/ NewSnapshot(c)
             \/ \E g \in Gen : BeginClose(c, g)
             \/ ReadBatch(c)
             \/ \E e \in closes[c].listed : SealBucket(c, e)
             \/ \E e \in closes[c].listed, r \in receipts : RecordReceipt(c, e, r)
             \/ ReadReceipts(c)
             \/ AdvanceScanned(c)
      PROVE  Types'
  BY <1>6, SnapStepTypes, CloseStepTypes, DayStepTypes
<1>7. QED
  BY <1>1, <1>2, <1>3, <1>4, <1>5, <1>6, ClientStepTypes, DayStepTypes, SnapStepTypes,
     ReturnStepTypes DEF Next
-----------------------------------------------------------------------------
(* The coverage boundary.                                                  *)

\* A step of the catalog that no bucket and no coordinator takes part in.
QuietStep ==
  /\ UNCHANGED <<bucketVars, clientVars>>
  /\ meta'.required = meta.required /\ meta'.admitted = meta.admitted
  /\ meta'.floor >= meta.floor

\* An activation leaves the boundary and the floor alone.
LEMMA ActivationQuiet ==
  ASSUME Types, NEW b \in Bucket, Activation(b)
  PROVE  /\ meta'.required = meta.required /\ meta'.admitted = meta.admitted
         /\ meta'.floor = meta.floor /\ meta'.gen = meta.gen
         /\ meta.floor \in Nat
  BY DEF Activation, Types, CatalogTypes, MetaRec

\* The steps that only the catalog takes.
LEMMA CatalogStepsAreQuiet ==
  ASSUME Types
  PROVE  /\ \A b \in Bucket : Retire(b) \/ MaterializeGrid(b) => QuietStep
         /\ \A c \in Cutoffs :
              \/ NewSnapshot(c) \/ ReadBatch(c) \/ ReadReceipts(c) \/ AdvanceScanned(c)
              \/ \E g \in Gen : BeginClose(c, g)
              \/ \E e \in closes[c].listed, r \in receipts : RecordReceipt(c, e, r)
              => QuietStep
         /\ \A g \in Gen : ReadPage(g) => QuietStep
         /\ \A p \in pages : StorePage(p) => QuietStep
         /\ \A b \in batches : StoreBatch(b) => QuietStep
         /\ \A r \in roots : PublishRoot(r) => QuietStep
         /\ AdvanceGrid \/ Purge \/ Tick \/ Restart \/ UNCHANGED vars => QuietStep
<1> USE DEF QuietStep, bucketVars, clientVars
<1>1. meta \in MetaRec /\ meta.floor \in Nat
  BY DEF Types, CatalogTypes, MetaRec
<1>2. ASSUME NEW b \in Bucket, Retire(b) PROVE QuietStep
  <2>1. meta' = [meta EXCEPT !.seq = meta.seq + 1] /\ UNCHANGED <<bucketVars, clientVars>>
    BY <1>2 DEF Retire
  <2>2. QED
    BY <1>1, <2>1 DEF MetaRec
<1>3. ASSUME NEW b \in Bucket, MaterializeGrid(b) PROVE QuietStep
  BY <1>3, ActivationQuiet DEF MaterializeGrid
<1>4. ASSUME NEW c \in Cutoffs, NewSnapshot(c) PROVE QuietStep
  <2>1. c \in Nat
    BY FleetAssumption
  <2>2. Max({meta.floor, c}) >= meta.floor
    BY <1>1, <2>1, MaxOfTwo
  <2>3. QED
    BY <1>1, <1>4, <2>2 DEF NewSnapshot, MetaRec
<1>5. ASSUME NEW c \in Cutoffs, AdvanceScanned(c) PROVE QuietStep
  <2>1. \E v : meta' = [meta EXCEPT !.scanned = v]
    BY <1>5 DEF AdvanceScanned
  <2>2. UNCHANGED <<bucketVars, clientVars>>
    BY <1>5 DEF AdvanceScanned
  <2>3. QED
    BY <1>1, <2>1, <2>2 DEF MetaRec
<1>6. ASSUME AdvanceGrid PROVE QuietStep
  <2>1. \E v : meta' = [meta EXCEPT !.grid = v]
    BY <1>6 DEF AdvanceGrid
  <2>2. UNCHANGED <<bucketVars, clientVars>>
    BY <1>6 DEF AdvanceGrid
  <2>3. QED
    BY <1>1, <2>1, <2>2 DEF MetaRec
<1>7. ASSUME NEW c \in Cutoffs,
             \/ ReadBatch(c) \/ ReadReceipts(c)
             \/ \E g \in Gen : BeginClose(c, g)
             \/ \E e \in closes[c].listed, r \in receipts : RecordReceipt(c, e, r)
      PROVE  QuietStep
  <2>1. UNCHANGED <<meta, bucketVars, clientVars>>
    BY <1>7 DEF ReadBatch, ReadReceipts, BeginClose, RecordReceipt
  <2>2. QED
    BY <1>1, <2>1
<1>8. /\ \A g \in Gen : ReadPage(g) => QuietStep
      /\ \A p \in pages : StorePage(p) => QuietStep
      /\ \A b \in batches : StoreBatch(b) => QuietStep
      /\ \A r \in roots : PublishRoot(r) => QuietStep
  <2>1. /\ \A g \in Gen : ReadPage(g) => UNCHANGED <<meta, bucketVars, clientVars>>
        /\ \A p \in pages : StorePage(p) => UNCHANGED <<meta, bucketVars, clientVars>>
        /\ \A b \in batches : StoreBatch(b) => UNCHANGED <<meta, bucketVars, clientVars>>
        /\ \A r \in roots : PublishRoot(r) => UNCHANGED <<meta, bucketVars, clientVars>>
    BY DEF ReadPage, StorePage, StoreBatch, PublishRoot
  <2>2. UNCHANGED <<meta, bucketVars, clientVars>> => QuietStep
    BY <1>1
  <2> HIDE DEF QuietStep, bucketVars, clientVars
  <2>3. QED
    BY <2>1, <2>2
<1>9. Purge \/ Tick \/ Restart \/ UNCHANGED vars => QuietStep
  <2>1. Purge \/ Tick \/ Restart \/ UNCHANGED vars => UNCHANGED <<meta, bucketVars, clientVars>>
    BY DEF Purge, Tick, Restart, vars, catalogVars
  <2>2. QED
    BY <1>1, <2>1
<1>10. QED
  BY <1>2, <1>3, <1>4, <1>5, <1>6, <1>7, <1>8, <1>9

\* A step is quiet, or one of the eight that buckets or coordinators take.
LEMMA StepIsQuietOr ==
  ASSUME Types, [Next]_vars
  PROVE  \/ QuietStep
         \/ \E t \in Txs, b \in Bucket : AssignRoute(t, b)
         \/ \E t \in Txs : ActivateForReserve(t) \/ Abandon(t)
         \/ \E t \in Txs, at \in Time : Decide(t, at)
         \/ \E r \in requests : DeliverReserve(r)
         \/ \E b \in Bucket, at \in Time : AdmitLegacy(b, at)
         \/ \E a \in admitted : DeliverLegacy(a)
         \/ \E c \in Cutoffs : \E e \in closes[c].listed : SealBucket(c, e)
  BY CatalogStepsAreQuiet DEF Next

\* Floors only rise.
FloorsRise ==
  \A b \in Bucket : bucket'[b].floor \in Nat /\ bucket'[b].floor >= bucket[b].floor

\* A call that reaches a bucket raises its floor at least to what it carries.
LEMMA ReserveRaises ==
  ASSUME Types, NEW r \in requests, DeliverReserve(r)
  PROVE  /\ r.tx \in Txs /\ r.floor \in Nat
         /\ FloorsRise
         /\ bucket'[tx[r.tx].b].floor >= r.floor
         /\ \A b \in Bucket : bucket'[b].v1 = bucket[b].v1
<1>1. r.tx \in Txs /\ r.floor \in Nat
  BY DEF Types, ClientTypes
<1>2. tx[r.tx].b \in Bucket
  BY <1>1 DEF Types, ClientTypes, TxRec
<1>3. bucket \in [Bucket -> BucketRec] /\ \A b \in Bucket : bucket[b].floor \in Nat
  BY DEF Types, ClientTypes, BucketRec
<1> DEFINE m == Max({bucket[tx[r.tx].b].floor, r.floor})
<1>4. m \in Nat /\ m >= bucket[tx[r.tx].b].floor /\ m >= r.floor
  BY <1>1, <1>2, <1>3, MaxOfTwo
<1>5. bucket' = [bucket EXCEPT ![tx[r.tx].b].v1closed = TRUE, ![tx[r.tx].b].floor = m]
  BY Zenon DEF DeliverReserve
<1> HIDE DEF m
<1>6. QED
  BY <1>1, <1>2, <1>3, <1>4, <1>5 DEF FloorsRise, BucketRec

\* A seal raises the floor of its bucket to the floor of the snapshot.
LEMMA SealRaises ==
  ASSUME Types, ClosesTrue, NEW c \in Cutoffs, NEW e \in closes[c].listed, SealBucket(c, e)
  PROVE  /\ closes[c].gen \in Gen /\ e.b \in Bucket
         /\ FloorsRise
         /\ bucket'[e.b].floor >= snaps[closes[c].gen].floor
         /\ \A b \in Bucket : bucket'[b].v1 = bucket[b].v1
<1>1. closes[c].gen \in Gen
  BY DEF SealBucket, ClosesTrue, CloseOk, CloseTrue
<1>2. e.b \in Bucket
  BY DEF Types, CatalogTypes, CloseRec, Entry
<1>3. bucket \in [Bucket -> BucketRec] /\ \A b \in Bucket : bucket[b].floor \in Nat
  BY DEF Types, ClientTypes, BucketRec
<1>4. snaps[closes[c].gen].floor \in Nat
  BY <1>1 DEF Types, CatalogTypes, SnapRec
<1> DEFINE m == SealFloor(e.b, closes[c].gen)
<1>5. m \in Nat /\ m >= bucket[e.b].floor /\ m >= snaps[closes[c].gen].floor
  BY <1>2, <1>3, <1>4, MaxOfTwo DEF SealFloor
<1>6. bucket' = [bucket EXCEPT ![e.b].v1closed = TRUE, ![e.b].floor = m]
  BY Zenon DEF SealBucket
<1> HIDE DEF m
<1>7. QED
  BY <1>1, <1>2, <1>3, <1>4, <1>5, <1>6 DEF FloorsRise, BucketRec

\* The empty system.
LEMMA InitCoverage == Init => CoverageInv
<1> SUFFICES ASSUME Init PROVE CoverageInv
  OBVIOUS
<1>1. (meta.required = 0 \/ meta.required = 1) /\ meta.admitted = 0
  BY DEF Init
<1>2. QED
  BY <1>1 DEF Init, CoverageInv, LegacyIsBehind, FloorsAtBoundary
\* Every step keeps the protocols apart.
LEMMA LegacyStep ==
  ASSUME Types, CoverageInv, ClosesTrue, [Next]_vars
  PROVE  LegacyIsBehind'
<1> USE DEF LegacyIsBehind
<1>1. /\ LegacyIsBehind
      /\ meta \in MetaRec /\ meta.admitted \in Nat /\ meta.required \in Nat
      /\ tx \in [Txs -> TxRec]
      /\ bucket \in [Bucket -> BucketRec]
      /\ \A r \in requests : r.tx \in Txs
  BY DEF CoverageInv, Types, CatalogTypes, ClientTypes, MetaRec
<1>2. CASE QuietStep
  BY <1>1, <1>2 DEF QuietStep, bucketVars, clientVars
<1>3. ASSUME NEW t \in Txs, NEW b \in Bucket, AssignRoute(t, b)
      PROVE  LegacyIsBehind'
  <2>1. meta.admitted + 1 \in Nat /\ now \in Nat
    BY <1>1, FleetAssumption DEF Types, Time
  <2>2. Boundary \in Nat /\ Boundary > meta.admitted
    <3> DEFINE next == meta.admitted + 1
    <3>1. Boundary = Max({now, next})
      BY DEF Boundary
    <3>2. next \in Nat /\ next > meta.admitted
      BY <1>1
    <3> HIDE DEF next
    <3>3. Boundary \in Nat /\ Boundary >= next
      BY <2>1, <3>1, <3>2, MaxOfTwo
    <3>4. QED
      BY <1>1, <3>2, <3>3
  <2>3. meta'.admitted = meta.admitted /\ meta'.required > meta.admitted /\ meta'.required # 0
    BY <1>1, <1>3, <2>2 DEF AssignRoute, MetaRec
  <2>4. \A r \in requests : tx'[r.tx].st # "new"
    BY <1>1, <1>3 DEF AssignRoute, TxRec
  <2>5. UNCHANGED <<bucket, requests, admitted>>
    BY <1>3 DEF AssignRoute, bucketVars
  <2>6. QED
    BY <1>1, <2>3, <2>4, <2>5
<1>4. ASSUME NEW t \in Txs, ActivateForReserve(t) PROVE LegacyIsBehind'
  <2>1. tx[t].b \in Bucket
    BY <1>1 DEF TxRec
  <2>2. meta'.required = meta.required /\ meta'.admitted = meta.admitted
    BY <1>4, <2>1, ActivationQuiet DEF ActivateForReserve
  <2>3. tx[t].st # "new"
    BY <1>4 DEF ActivateForReserve
  <2>4. UNCHANGED <<bucket, tx, admitted>>
        /\ \A r \in requests' : r \in requests \/ r.tx = t
    BY <1>4 DEF ActivateForReserve, bucketVars
  <2>5. QED
    BY <1>1, <2>2, <2>3, <2>4
<1>5. ASSUME NEW t \in Txs, Abandon(t) PROVE LegacyIsBehind'
  <2>1. UNCHANGED <<bucket, meta, admitted>> /\ requests' \subseteq requests
    BY <1>5 DEF Abandon, bucketVars, catalogVars
  <2>2. tx[t].st # "new" /\ tx' = [tx EXCEPT ![t].st = "done"]
    BY <1>5 DEF Abandon
  <2>3. \A u \in Txs : tx'[u].st # "new" <=> tx[u].st # "new"
    BY <1>1, <2>2 DEF TxRec
  <2>4. QED
    BY <1>1, <2>1, <2>3
<1>6. ASSUME NEW t \in Txs, NEW at \in Time, Decide(t, at) PROVE LegacyIsBehind'
  <2>1. UNCHANGED <<bucket, meta, admitted, requests>>
    BY <1>6 DEF Decide, catalogVars
  <2>2. tx[t].st # "new" /\ tx' = [tx EXCEPT ![t].st = "done"]
    BY <1>6 DEF Decide
  <2>3. \A u \in Txs : tx'[u].st # "new" <=> tx[u].st # "new"
    BY <1>1, <2>2 DEF TxRec
  <2>4. QED
    BY <1>1, <2>1, <2>3
<1>7. ASSUME NEW r \in requests, DeliverReserve(r) PROVE LegacyIsBehind'
  <2>1. UNCHANGED <<meta, admitted>> /\ requests' \subseteq requests
    BY <1>7 DEF DeliverReserve, catalogVars
  <2>2. r.tx \in Txs /\ \A b \in Bucket : bucket'[b].v1 = bucket[b].v1
    BY <1>7, ReserveRaises
  <2>3. tx' = [tx EXCEPT ![r.tx].st = IF @ = "routed" THEN "reserved" ELSE @]
    BY <1>7 DEF DeliverReserve
  <2>4. \A u \in Txs : tx'[u].st # "new" <=> tx[u].st # "new"
    BY <1>1, <2>2, <2>3 DEF TxRec
  <2>5. QED
    BY <1>1, <2>1, <2>2, <2>4
<1>8. ASSUME NEW b \in Bucket, NEW at \in Time, AdmitLegacy(b, at) PROVE LegacyIsBehind'
  <2>1. at \in Nat
    BY FleetAssumption DEF Time
  <2>2. Max({meta.admitted, at}) \in Nat /\ Max({meta.admitted, at}) >= meta.admitted
          /\ Max({meta.admitted, at}) >= at
    BY <1>1, <2>1, MaxOfTwo
  <2>3. /\ meta'.admitted = Max({meta.admitted, at}) /\ meta'.required = meta.required
        /\ meta.required = 0
    BY <1>1, <1>8 DEF AdmitLegacy, MetaRec
  <2>4. admitted' = admitted \cup {[b |-> b, at |-> at]} /\ UNCHANGED <<bucket, tx, requests>>
    BY <1>8 DEF AdmitLegacy, bucketVars
  <2>5. \A u \in Bucket : \A v \in bucket[u].v1 : v \in Nat
    BY <1>1 DEF BucketRec
  <2>6. \A a \in admitted : a.at \in Nat
    BY DEF Types, ClientTypes
  <2> DEFINE m == Max({meta.admitted, at})
  <2>7. m \in Nat /\ m >= meta.admitted /\ m >= at /\ meta'.admitted = m
    BY <2>2, <2>3
  <2> HIDE DEF m
  <2>8. \A u \in Bucket : \A v \in bucket'[u].v1 : v <= meta'.admitted
    BY <1>1, <2>4, <2>5, <2>7
  <2>9. \A a \in admitted' : a.at <= meta'.admitted
    BY <1>1, <2>1, <2>4, <2>6, <2>7
  <2>10. QED
    BY <1>1, <2>3, <2>4, <2>8, <2>9
<1>9. ASSUME NEW a \in admitted, DeliverLegacy(a) PROVE LegacyIsBehind'
  <2>1. a.b \in Bucket /\ a.at <= meta.admitted
    BY <1>1 DEF Types, ClientTypes
  <2>2. \A b \in Bucket : \A v \in bucket'[b].v1 : v \in bucket[b].v1 \/ v = a.at
    BY <1>1, <1>9, <2>1 DEF DeliverLegacy, BucketRec
  <2>3. UNCHANGED <<meta, tx, requests>> /\ admitted' \subseteq admitted
    BY <1>9 DEF DeliverLegacy, catalogVars
  <2>4. QED
    BY <1>1, <2>1, <2>2, <2>3
<1>10. ASSUME NEW c \in Cutoffs, NEW e \in closes[c].listed, SealBucket(c, e)
       PROVE  LegacyIsBehind'
  <2>1. \A b \in Bucket : bucket'[b].v1 = bucket[b].v1
    BY <1>10, SealRaises
  <2>2. UNCHANGED <<meta, tx, requests, admitted>>
    BY <1>10 DEF SealBucket, catalogVars, clientVars
  <2>3. QED
    BY <1>1, <2>1, <2>2
<1>11. QED
  BY <1>2, <1>3, <1>4, <1>5, <1>6, <1>7, <1>8, <1>9, <1>10, StepIsQuietOr

\* And the floors at the boundary.
LEMMA FloorsStep ==
  ASSUME Types, CoverageInv, ClosesTrue, [Next]_vars
  PROVE  FloorsAtBoundary'
<1> USE DEF FloorsAtBoundary
<1>1. /\ LegacyIsBehind /\ FloorsAtBoundary
      /\ meta \in MetaRec /\ meta.required \in Nat
      /\ tx \in [Txs -> TxRec] /\ \A t \in Txs : tx[t].b \in Bucket
      /\ \A b \in Bucket : bucket[b].floor \in Nat
      /\ \A r \in requests : r.tx \in Txs /\ r.floor \in Nat
      /\ \A d \in log : d.tx \in Txs /\ d.b \in Bucket /\ d.at \in Nat
  BY FleetAssumption DEF CoverageInv, Types, CatalogTypes, ClientTypes, MetaRec, TxRec, BucketRec, Time
<1>2. CASE QuietStep
  BY <1>1, <1>2 DEF QuietStep, bucketVars, clientVars
<1>3. ASSUME NEW t \in Txs, NEW b \in Bucket, AssignRoute(t, b)
      PROVE  FloorsAtBoundary'
  <2>1. UNCHANGED <<bucket, log, requests>>
    BY <1>3 DEF AssignRoute, bucketVars
  <2>2. tx' = [tx EXCEPT ![t] = [st |-> "routed", b |-> b]] /\ tx[t].st = "new"
    BY <1>3 DEF AssignRoute
  <2>3. /\ \A u \in Txs : u # t => tx'[u] = tx[u]
        /\ tx'[t].st = "routed"
    BY <1>1, <2>2
  <2>4. CASE meta.required = 0
    <3>1. requests = {} /\ log = {} /\ \A u \in Txs : tx[u].st = "new"
      BY <1>1, <2>4 DEF LegacyIsBehind
    <3>2. QED
      BY <2>1, <2>3, <3>1
  <2>5. CASE meta.required # 0
    <3>1. meta'.required = meta.required
      BY <1>3, <2>5 DEF AssignRoute
    <3>2. QED
      BY <1>1, <2>1, <2>3, <3>1
  <2>6. QED
    BY <2>4, <2>5
<1>4. ASSUME NEW t \in Txs, ActivateForReserve(t) PROVE FloorsAtBoundary'
  <2>1. meta'.required = meta.required
    BY <1>1, <1>4, ActivationQuiet DEF ActivateForReserve
  <2>2. meta.required # 0
    BY <1>1, <1>4 DEF LegacyIsBehind, ActivateForReserve
  <2>3. RequiredFloor + 1 >= meta.required
    BY <1>1, <2>2, RequiredFloorIsNat
  <2>4. /\ requests' = requests \cup {[tx |-> t, floor |-> RequiredFloor]}
        /\ UNCHANGED <<bucket, log, tx>>
    BY <1>4 DEF ActivateForReserve, bucketVars
  <2>5. \A r \in requests' : r.floor + 1 >= meta.required
    BY <1>1, <2>3, <2>4
  <2>6. QED
    BY <1>1, <2>1, <2>4, <2>5
<1>5. ASSUME NEW t \in Txs, Abandon(t) PROVE FloorsAtBoundary'
  <2>1. UNCHANGED <<bucket, meta, log>> /\ requests' \subseteq requests
    BY <1>5 DEF Abandon, bucketVars, catalogVars
  <2>2. tx' = [tx EXCEPT ![t].st = "done"]
    BY <1>5 DEF Abandon
  <2>3. \A u \in Txs : tx'[u].st # "new" \/ tx'[u] = tx[u]
    BY <1>1, <2>2 DEF TxRec
  <2>4. \A u \in Txs : tx'[u].st = "reserved" => tx[u].st = "reserved" /\ tx'[u].b = tx[u].b
    BY <1>1, <2>2 DEF TxRec
  <2>5. QED
    BY <1>1, <2>1, <2>3, <2>4
<1>6. ASSUME NEW t \in Txs, NEW at \in Time, Decide(t, at) PROVE FloorsAtBoundary'
  <2>1. UNCHANGED <<bucket, meta, requests>>
    BY <1>6 DEF Decide, catalogVars
  <2>2. tx[t].st = "reserved" /\ tx' = [tx EXCEPT ![t].st = "done"]
          /\ at > bucket[tx[t].b].floor
    BY <1>6 DEF Decide
  <2>3. \A u \in Txs : tx'[u].st # "new" \/ tx'[u] = tx[u]
    BY <1>1, <2>2 DEF TxRec
  <2>4. \A u \in Txs : tx'[u].st = "reserved" => tx[u].st = "reserved" /\ tx'[u].b = tx[u].b
    BY <1>1, <2>2 DEF TxRec
  <2>5. at >= meta.required
    <3>1. bucket[tx[t].b].floor + 1 >= meta.required /\ bucket[tx[t].b].floor \in Nat /\ at \in Nat
      BY <1>1, <2>2, FleetAssumption DEF Time
    <3>2. QED
      BY <1>1, <2>2, <3>1
  <2>6. log' = log \cup {[tx |-> t, b |-> tx[t].b, at |-> at]} /\ tx'[t].st = "done"
    BY <1>1, <1>6 DEF Decide, TxRec
  <2>7. \A d \in log' : d.at >= meta.required /\ tx'[d.tx].st # "new"
    BY <1>1, <2>3, <2>5, <2>6
  <2>8. QED
    BY <1>1, <2>1, <2>4, <2>7
<1>7. ASSUME NEW r \in requests, DeliverReserve(r) PROVE FloorsAtBoundary'
  <2>1. UNCHANGED <<meta, log>> /\ requests' \subseteq requests
    BY <1>7 DEF DeliverReserve, catalogVars
  <2>2. /\ r.tx \in Txs /\ r.floor \in Nat /\ FloorsRise
        /\ bucket'[tx[r.tx].b].floor >= r.floor
    BY <1>7, ReserveRaises
  <2>3. tx' = [tx EXCEPT ![r.tx].st = IF @ = "routed" THEN "reserved" ELSE @]
    BY <1>7 DEF DeliverReserve
  <2>4. \A u \in Txs : /\ tx'[u].b = tx[u].b /\ (tx[u].st # "new" => tx'[u].st # "new")
                       /\ tx'[u].st = "reserved" => tx[u].st = "reserved" \/ u = r.tx
    BY <1>1, <2>2, <2>3 DEF TxRec
  <2>5. ASSUME NEW u \in Txs, tx'[u].st = "reserved"
        PROVE  bucket'[tx[u].b].floor + 1 >= meta.required
    <3>1. tx[u].b \in Bucket /\ bucket'[tx[u].b].floor >= bucket[tx[u].b].floor
            /\ bucket'[tx[u].b].floor \in Nat /\ bucket[tx[u].b].floor \in Nat
      BY <1>1, <2>2 DEF FloorsRise
    <3>2. CASE tx[u].st = "reserved"
      BY <1>1, <3>1, <3>2
    <3>3. CASE u = r.tx
      <4>1. r.floor + 1 >= meta.required
        BY <1>1
      <4>2. QED
        BY <1>1, <2>2, <3>1, <3>3, <4>1
    <3>4. QED
      BY <2>4, <2>5, <3>2, <3>3
  <2>6. QED
    BY <1>1, <2>1, <2>4, <2>5
<1>8. ASSUME NEW b \in Bucket, NEW at \in Time, AdmitLegacy(b, at) PROVE FloorsAtBoundary'
  <2>1. meta'.required = meta.required
    BY <1>1, <1>8 DEF AdmitLegacy, MetaRec
  <2>2. UNCHANGED <<bucket, tx, requests, log>>
    BY <1>8 DEF AdmitLegacy, bucketVars
  <2>3. QED
    BY <1>1, <2>1, <2>2
<1>9. ASSUME NEW a \in admitted, DeliverLegacy(a) PROVE FloorsAtBoundary'
  <2>1. UNCHANGED <<meta, tx, requests, log>>
    BY <1>9 DEF DeliverLegacy, catalogVars
  <2>2. \A b \in Bucket : bucket'[b].floor = bucket[b].floor
    BY <1>9 DEF DeliverLegacy, Types, ClientTypes, BucketRec
  <2>3. QED
    BY <1>1, <2>1, <2>2
<1>10. ASSUME NEW c \in Cutoffs, NEW e \in closes[c].listed, SealBucket(c, e)
       PROVE  FloorsAtBoundary'
  <2>1. FloorsRise
    BY <1>10, SealRaises
  <2>2. UNCHANGED <<meta, tx, requests, log>>
    BY <1>10 DEF SealBucket, catalogVars, clientVars
  <2>3. ASSUME NEW u \in Txs, tx[u].st = "reserved"
        PROVE  bucket'[tx[u].b].floor + 1 >= meta.required
    <3>1. tx[u].b \in Bucket /\ bucket'[tx[u].b].floor >= bucket[tx[u].b].floor
            /\ bucket'[tx[u].b].floor \in Nat /\ bucket[tx[u].b].floor \in Nat
            /\ bucket[tx[u].b].floor + 1 >= meta.required
      BY <1>1, <2>1, <2>3 DEF FloorsRise
    <3>2. QED
      BY <1>1, <3>1
  <2>4. QED
    BY <1>1, <2>2, <2>3
<1>11. QED
  BY <1>2, <1>3, <1>4, <1>5, <1>6, <1>7, <1>8, <1>9, <1>10, StepIsQuietOr
-----------------------------------------------------------------------------
(* The rows of the activation history.                                     *)

\* A step that leaves the rows alone.
RowsSame == UNCHANGED <<active, history>> /\ meta'.seq = meta.seq

\* A step that activates b.
RowAdded(b) ==
  /\ ~IsActive(b)
  /\ meta'.seq = meta.seq + 1
  /\ active' = [active EXCEPT ![b] = [seq |-> meta.seq + 1, retired |-> FALSE]]
  /\ history' = history \cup {[seq |-> meta.seq + 1, b |-> b, until |-> 0, at |-> 0]}
  /\ UNCHANGED <<snaps, pages>> /\ meta'.gen = meta.gen

\* An activation adds a row, or finds one.
LEMMA ActivationAdds ==
  ASSUME Types, NEW b \in Bucket, Activation(b), UNCHANGED <<snaps, pages>>
  PROVE  RowsSame \/ RowAdded(b)
  BY DEF Activation, RowsSame, RowAdded, Types, CatalogTypes, MetaRec

\* What a step does to the rows.
LEMMA RowSteps ==
  ASSUME Types, [Next]_vars
  PROVE  \/ RowsSame
         \/ \E b \in Bucket : RowAdded(b) \/ Retire(b)
         \/ Purge
<1>1. meta \in MetaRec /\ tx \in [Txs -> TxRec] /\ \A t \in Txs : tx[t].b \in Bucket
  BY DEF Types, CatalogTypes, ClientTypes, TxRec
<1>2. ASSUME NEW t \in Txs, NEW b \in Bucket, AssignRoute(t, b) PROVE RowsSame
  BY <1>1, <1>2 DEF AssignRoute, RowsSame, MetaRec
<1>3. ASSUME NEW t \in Txs, ActivateForReserve(t)
      PROVE  RowsSame \/ \E b \in Bucket : RowAdded(b)
  BY <1>1, <1>3, ActivationAdds DEF ActivateForReserve
<1>4. ASSUME NEW b \in Bucket, MaterializeGrid(b) PROVE RowsSame \/ RowAdded(b)
  BY <1>4, ActivationAdds DEF MaterializeGrid
<1>5. ASSUME NEW b \in Bucket, NEW at \in Time, AdmitLegacy(b, at)
      PROVE  RowsSame \/ RowAdded(b)
  BY <1>1, <1>5 DEF AdmitLegacy, RowsSame, RowAdded, MetaRec
<1>6. ASSUME NEW t \in Txs, (\E at \in Time : Decide(t, at)) \/ Abandon(t) PROVE RowsSame
  BY <1>6 DEF Decide, Abandon, RowsSame, catalogVars
<1>7. (\E r \in requests : DeliverReserve(r)) \/ (\E a \in admitted : DeliverLegacy(a)) => RowsSame
  BY DEF DeliverReserve, DeliverLegacy, RowsSame, catalogVars
<1>8. ASSUME NEW c \in Cutoffs,
             \/ NewSnapshot(c) \/ AdvanceScanned(c)
             \/ ReadBatch(c) \/ ReadReceipts(c)
             \/ \E g \in Gen : BeginClose(c, g)
             \/ \E e \in closes[c].listed : SealBucket(c, e)
             \/ \E e \in closes[c].listed, r \in receipts : RecordReceipt(c, e, r)
      PROVE  RowsSame
  BY <1>1, <1>8 DEF NewSnapshot, AdvanceScanned, ReadBatch, ReadReceipts, BeginClose, SealBucket,
     RecordReceipt, RowsSame, MetaRec, catalogVars
<1>9. /\ AdvanceGrid \/ Tick \/ Restart \/ UNCHANGED vars => RowsSame
      /\ \A g \in Gen : ReadPage(g) => RowsSame
      /\ \A p \in pages : StorePage(p) => RowsSame
      /\ \A b \in batches : StoreBatch(b) => RowsSame
      /\ \A r \in roots : PublishRoot(r) => RowsSame
  BY <1>1 DEF AdvanceGrid, Tick, Restart, ReadPage, StorePage, StoreBatch, PublishRoot,
     RowsSame, MetaRec, vars, catalogVars
<1>10. QED
  BY <1>2, <1>3, <1>4, <1>5, <1>6, <1>7, <1>8, <1>9 DEF Next

\* A retired row: the open row of an active bucket, closed by the next event.
LEMMA RetireCloses ==
  ASSUME Types, RowsTrue, NEW b \in Bucket, Retire(b)
  PROVE  /\ meta'.seq = meta.seq + 1 /\ meta.seq \in Nat /\ meta'.gen = meta.gen
         /\ active' = [active EXCEPT ![b].retired = TRUE]
         /\ \E o \in history :
              /\ o.seq = active[b].seq /\ o.b = b /\ o.until = 0
              /\ \A h \in history : h.seq = active[b].seq => h = o
              /\ history' = (history \ {o}) \cup
                   {[seq |-> o.seq, b |-> b, until |-> meta.seq + 1, at |-> now]}
<1>1. meta'.seq = meta.seq + 1 /\ meta.seq \in Nat /\ meta'.gen = meta.gen
        /\ active' = [active EXCEPT ![b].retired = TRUE]
  <2>1. meta' = [meta EXCEPT !.seq = meta.seq + 1]
          /\ active' = [active EXCEPT ![b].retired = TRUE]
    BY DEF Retire
  <2>2. meta \in MetaRec
    BY DEF Types, CatalogTypes
  <2>3. QED
    BY <2>1, <2>2 DEF MetaRec
<1>2. PICK o \in history : o.seq = active[b].seq /\ o.b = b /\ o.until = 0
  BY DEF Retire, RowsTrue
<1>3. \A h \in history : h.seq = active[b].seq => h = o
  BY <1>2 DEF RowsTrue
<1>4. o \in Row
  BY <1>2 DEF Types, CatalogTypes
<1> DEFINE n == [seq |-> o.seq, b |-> b, until |-> meta.seq + 1, at |-> now]
<1>5. [o EXCEPT !.until = meta.seq + 1, !.at = now] = n
  <2> DEFINE y == [o EXCEPT !.until = meta.seq + 1, !.at = now]
  <2>1. meta.seq + 1 \in Nat /\ now \in Nat
    BY <1>1 DEF Types, Time
  <2>2. y \in Row /\ y.seq = o.seq /\ y.b = o.b /\ y.until = meta.seq + 1 /\ y.at = now
    BY <1>4, <2>1 DEF Row
  <2> HIDE DEF y
  <2>3. y = [seq |-> y.seq, b |-> y.b, until |-> y.until, at |-> y.at]
    BY <2>2 DEF Row
  <2>4. y = [seq |-> o.seq, b |-> b, until |-> meta.seq + 1, at |-> now]
    BY <1>2, <2>2, <2>3
  <2>5. QED
    BY <2>4 DEF y
<1>6. history' = {IF h.seq = active[b].seq
                  THEN [h EXCEPT !.until = meta.seq + 1, !.at = now] ELSE h : h \in history}
  BY DEF Retire
<1>7. \A h \in history :
        (IF h.seq = active[b].seq THEN [h EXCEPT !.until = meta.seq + 1, !.at = now] ELSE h)
          = IF h = o THEN n ELSE h
  BY <1>2, <1>3, <1>5
<1> HIDE DEF n
<1>8. history' = {IF h = o THEN n ELSE h : h \in history}
  <2> DEFINE F(h) == IF h.seq = active[b].seq
                     THEN [h EXCEPT !.until = meta.seq + 1, !.at = now] ELSE h
  <2>1. \A h \in history : F(h) = IF h = o THEN n ELSE h
    BY <1>7
  <2>2. history' = {F(h) : h \in history}
    BY <1>6
  <2> HIDE DEF F
  <2>3. {F(h) : h \in history} = {IF h = o THEN n ELSE h : h \in history}
    BY <2>1
  <2>4. QED
    BY <2>2, <2>3
<1>9. history' = (history \ {o}) \cup {n}
  BY <1>2, <1>8
<1>10. QED
  BY <1>1, <1>2, <1>3, <1>9 DEF n

\* Every step keeps the rows apart, and an active bucket its open row.
LEMMA RowsTrueStep ==
  ASSUME Types, RowsTrue, [Next]_vars
  PROVE  RowsTrue'
<1>1. /\ meta.seq \in Nat /\ active \in [Bucket -> ActiveRec]
      /\ \A h \in history : h.seq \in Nat /\ h.seq <= meta.seq
  BY FleetAssumption DEF Types, CatalogTypes, MetaRec, Row, Event, RowsTrue
<1>2. CASE RowsSame
  BY <1>2 DEF RowsSame, RowsTrue, IsActive
<1>3. ASSUME NEW b \in Bucket, RowAdded(b) PROVE RowsTrue'
  <2> DEFINE n == [seq |-> meta.seq + 1, b |-> b, until |-> 0, at |-> 0]
  <2>1. n.seq = meta.seq + 1 /\ n.b = b /\ n.until = 0
    OBVIOUS
  <2>2. history' = history \cup {n}
    BY <1>3 DEF RowAdded
  <2> HIDE DEF n
  <2>3. meta'.seq = meta.seq + 1
    BY <1>3 DEF RowAdded
  <2>4. \A h \in history' : h.seq <= meta'.seq
    BY <1>1, <2>1, <2>2, <2>3
  <2>5. \A h, k \in history' : h.seq = k.seq => h = k
    BY <1>1, <2>1, <2>2 DEF RowsTrue
  <2>6. ASSUME NEW a \in Bucket, IsActive(a)'
        PROVE  \E h \in history' : h.seq = active'[a].seq /\ h.b = a /\ h.until = 0
    <3>1. CASE a = b
      <4>1. active'[a].seq = meta.seq + 1
        BY <1>1, <1>3, <3>1 DEF RowAdded
      <4>2. QED
        BY <2>1, <2>2, <3>1, <4>1
    <3>2. CASE a # b
      <4>1. active'[a] = active[a]
        BY <1>1, <1>3, <3>2 DEF RowAdded
      <4>2. QED
        BY <2>2, <2>6, <4>1 DEF RowsTrue, IsActive
    <3>3. QED
      BY <3>1, <3>2
  <2>7. QED
    BY <2>4, <2>5, <2>6 DEF RowsTrue
<1>4. ASSUME NEW b \in Bucket, Retire(b) PROVE RowsTrue'
  <2>1. meta'.seq = meta.seq + 1 /\ active' = [active EXCEPT ![b].retired = TRUE]
    BY <1>4, RetireCloses
  <2>2. PICK o \in history :
          /\ o.seq = active[b].seq /\ o.b = b /\ o.until = 0
          /\ \A h \in history : h.seq = active[b].seq => h = o
          /\ history' = (history \ {o}) \cup
               {[seq |-> o.seq, b |-> b, until |-> meta.seq + 1, at |-> now]}
    BY <1>4, RetireCloses
  <2> DEFINE n == [seq |-> o.seq, b |-> b, until |-> meta.seq + 1, at |-> now]
  <2>3. n.seq = o.seq
    OBVIOUS
  <2>4. history' = (history \ {o}) \cup {n}
    BY <2>2
  <2> HIDE DEF n
  <2>5. \A h \in history' : h.seq <= meta'.seq
    BY <1>1, <2>1, <2>3, <2>4
  <2>6. \A h, k \in history' : h.seq = k.seq => h = k
    BY <2>2, <2>3, <2>4 DEF RowsTrue
  <2>7. ASSUME NEW a \in Bucket, IsActive(a)'
        PROVE  \E h \in history' : h.seq = active'[a].seq /\ h.b = a /\ h.until = 0
    <3>1. a # b
      BY <1>1, <2>1, <2>7 DEF IsActive, ActiveRec
    <3>2. active'[a] = active[a]
      BY <1>1, <2>1, <3>1
    <3>3. PICK h \in history : h.seq = active[a].seq /\ h.b = a /\ h.until = 0
      BY <2>7, <3>2 DEF RowsTrue, IsActive
    <3>4. h # o
      BY <2>2, <3>1, <3>3
    <3>5. QED
      BY <2>4, <3>2, <3>3, <3>4
  <2>8. QED
    BY <2>5, <2>6, <2>7 DEF RowsTrue
<1>5. CASE Purge
  <2>1. /\ UNCHANGED <<active, meta>>
        /\ \A h \in history : h.until = 0 => h \in history'
        /\ history' \subseteq history
    BY <1>5 DEF Purge
  <2>2. \A b \in Bucket : IsActive(b)' => IsActive(b)
    BY <2>1 DEF IsActive
  <2>3. ASSUME NEW b \in Bucket, IsActive(b)'
        PROVE  \E h \in history' : h.seq = active'[b].seq /\ h.b = b /\ h.until = 0
    <3>1. IsActive(b)
      BY <2>2, <2>3
    <3>2. QED
      BY <2>1, <3>1 DEF RowsTrue
  <2>4. \A h \in history' : h.seq <= meta'.seq
    BY <1>1, <2>1
  <2>5. \A h, k \in history' : h.seq = k.seq => h = k
    BY <2>1 DEF RowsTrue
  <2>6. QED
    BY <2>3, <2>4, <2>5 DEF RowsTrue
<1>6. QED
  BY <1>2, <1>3, <1>4, <1>5, RowSteps
-----------------------------------------------------------------------------
(* Snapshots: the fence, its pages and what is stored of them.             *)

\* The entries of a fence, one by one.
LEMMA LiveEntry ==
  ASSUME NEW H, NEW f
  PROVE  \A x : x \in LiveEntries(H, f) <=>
           \E h \in H : /\ h.seq <= f /\ (h.until = 0 \/ h.until > f)
                        /\ x = [seq |-> h.seq, b |-> h.b]
  BY DEF LiveEntries, EntriesOf

\* Later events do not change what an earlier fence selects.
LEMMA FenceStays ==
  ASSUME Types, RowsTrue, NEW b \in Bucket, RowAdded(b) \/ Retire(b),
         NEW f \in Nat, f <= meta.seq
  PROVE  LiveEntries(history', f) = LiveEntries(history, f)
<1>1. meta.seq \in Nat
  BY DEF Types, CatalogTypes, MetaRec
<1>2. CASE RowAdded(b)
  <2> DEFINE n == [seq |-> meta.seq + 1, b |-> b, until |-> 0, at |-> 0]
  <2>1. history' = history \cup {n} /\ ~(n.seq <= f)
    BY <1>1, <1>2 DEF RowAdded
  <2> HIDE DEF n
  <2>2. {h \in history' : h.seq <= f /\ (h.until = 0 \/ h.until > f)}
          = {h \in history : h.seq <= f /\ (h.until = 0 \/ h.until > f)}
    BY <2>1
  <2>3. QED
    BY <2>2 DEF LiveEntries
<1>3. CASE Retire(b)
  <2>1. PICK o \in history :
          /\ o.b = b /\ o.until = 0
          /\ history' = (history \ {o}) \cup
               {[seq |-> o.seq, b |-> b, until |-> meta.seq + 1, at |-> now]}
    BY <1>3, RetireCloses
  <2> DEFINE n == [seq |-> o.seq, b |-> b, until |-> meta.seq + 1, at |-> now]
  <2>2. n.seq = o.seq /\ n.b = o.b /\ n.until > f /\ [seq |-> n.seq, b |-> n.b] = [seq |-> o.seq, b |-> o.b]
    BY <1>1, <2>1
  <2>3. history' = (history \ {o}) \cup {n}
    BY <2>1
  <2> HIDE DEF n
  <2>4. \A x : x \in LiveEntries(history', f) <=> x \in LiveEntries(history, f)
    <3> SUFFICES ASSUME NEW x
                 PROVE  x \in LiveEntries(history', f) <=> x \in LiveEntries(history, f)
      OBVIOUS
    <3>1. ASSUME NEW h \in history', h.seq <= f, h.until = 0 \/ h.until > f,
                 x = [seq |-> h.seq, b |-> h.b]
          PROVE  x \in LiveEntries(history, f)
      BY <2>1, <2>2, <2>3, <3>1, LiveEntry
    <3>2. ASSUME NEW h \in history, h.seq <= f, h.until = 0 \/ h.until > f,
                 x = [seq |-> h.seq, b |-> h.b]
          PROVE  x \in LiveEntries(history', f)
      <4>1. CASE h = o
        <5>1. n \in history' /\ n.seq <= f /\ x = [seq |-> n.seq, b |-> n.b]
          BY <2>2, <2>3, <3>2, <4>1
        <5>2. QED
          BY <2>2, <5>1, LiveEntry
      <4>2. CASE h # o
        BY <2>3, <3>2, <4>2, LiveEntry
      <4>3. QED
        BY <4>1, <4>2
    <3>3. QED
      BY <3>1, <3>2, LiveEntry
  <2>5. QED
    BY <2>4
<1>4. QED
  BY <1>2, <1>3

\* The first rows of a set: nothing left out is before them.
LEMMA FirstRowsIsPrefix ==
  ASSUME NEW C, \A h \in C : h.seq \in Event, SameSeqs(C), NEW n \in Nat \ {0}
  PROVE  /\ FirstRows(C, n) \subseteq C
         /\ C # {} => FirstRows(C, n) # {}
         /\ \A q \in FirstRows(C, n), e \in C \ FirstRows(C, n) : q.seq < e.seq
         /\ ~(Cardinality(C) > n) => FirstRows(C, n) = C
<1> DEFINE Before(h) == {q \in C : q.seq < h.seq}
<1>1. IsFiniteSet(C)
  BY FiniteBySeq
<1>2. ASSUME NEW h \in C
      PROVE  IsFiniteSet(Before(h)) /\ Cardinality(Before(h)) \in Nat
               /\ Cardinality(Before(h)) < Cardinality(C)
  <2>1. Before(h) \in SUBSET C
    OBVIOUS
  <2>2. h \notin Before(h) /\ h.seq \in Nat
    BY FleetAssumption DEF Event
  <2> HIDE DEF Before
  <2>3. IsFiniteSet(Before(h)) /\ Cardinality(Before(h)) <= Cardinality(C)
          /\ (Cardinality(C) = Cardinality(Before(h)) => C = Before(h))
    BY <1>1, <2>1, FS_Subset
  <2>4. Cardinality(Before(h)) \in Nat /\ Cardinality(C) \in Nat
    BY <1>1, <2>3, FS_CardinalityType
  <2>5. Cardinality(C) # Cardinality(Before(h))
    BY <2>2, <2>3
  <2>6. QED
    BY <2>3, <2>4, <2>5
<1>3. \A h : h \in FirstRows(C, n) <=> h \in C /\ Cardinality(Before(h)) < n
  BY DEF FirstRows
<1>4. FirstRows(C, n) \subseteq C
  BY <1>3
<1>5. ASSUME C # {} PROVE FirstRows(C, n) # {}
  <2> DEFINE I == {h.seq : h \in C}
  <2>1. I \in SUBSET Nat /\ I # {}
    BY <1>5, FleetAssumption DEF Event
  <2>2. PICK m \in I : \A y \in I : m <= y
    <3> HIDE DEF I
    <3> QED
      BY <2>1, HasLeast
  <2>3. PICK h \in C : h.seq = m
    BY <2>2
  <2>4. \A q \in C : ~(q.seq < h.seq)
    <3> TAKE q \in C
    <3>1. q.seq \in I /\ q.seq \in Nat /\ m \in Nat
      BY <2>1, <2>2
    <3>2. QED
      BY <2>2, <2>3, <3>1
  <2>5. Before(h) = {}
    BY <2>4
  <2>6. Cardinality(Before(h)) = 0
    BY <2>5, FS_EmptySet
  <2>7. QED
    BY <1>3, <2>3, <2>6
<1>6. ASSUME NEW q \in FirstRows(C, n), NEW e \in C \ FirstRows(C, n) PROVE q.seq < e.seq
  <2>1. q \in C /\ q.seq \in Nat /\ e.seq \in Nat
    BY <1>4, FleetAssumption DEF Event
  <2>2. SUFFICES ASSUME e.seq <= q.seq PROVE FALSE
    BY <2>1
  <2>3. Before(e) \in SUBSET Before(q)
    <3>1. \A x \in C : x.seq \in Nat
      BY FleetAssumption DEF Event
    <3>2. QED
      BY <2>1, <2>2, <3>1
  <2>4. Cardinality(Before(e)) <= Cardinality(Before(q))
    <3>1. IsFiniteSet(Before(q))
      BY <1>2, <2>1
    <3> HIDE DEF Before
    <3>2. QED
      BY <2>3, <3>1, FS_Subset
  <2>5. Cardinality(Before(q)) < n /\ ~(Cardinality(Before(e)) < n)
    BY <1>3, <1>6
  <2>6. Cardinality(Before(q)) \in Nat /\ Cardinality(Before(e)) \in Nat
    BY <1>2, <2>1
  <2> HIDE DEF Before
  <2>7. QED
    BY <2>4, <2>5, <2>6
<1>7. ASSUME ~(Cardinality(C) > n) PROVE FirstRows(C, n) = C
  <2>1. Cardinality(C) \in Nat
    BY <1>1, FS_CardinalityType
  <2>2. ASSUME NEW h \in C PROVE Cardinality(Before(h)) < n
    <3> HIDE DEF Before
    <3>1. QED
      BY <1>2, <1>7, <2>1
  <2>3. QED
    BY <1>3, <2>2
<1>8. QED
  BY <1>4, <1>5, <1>6, <1>7

\* What a call reads of a fence is its next page.
LEMMA ReadPageTrue ==
  ASSUME Types, RowsTrue, SnapsTrue, NEW g \in Gen, ReadPage(g)
  PROVE  \E p : /\ pages' = pages \cup {p}
                /\ p.gen = g /\ PageTrue(p)
<1> DEFINE C == Candidates(g)
           F == FirstRows(C, PageSize)
           L == snaps[g].live
           p == [gen |-> g, cursor |-> snaps[g].cursor, seen |-> snaps[g].entries,
                 rows |-> EntriesOf(F), more |-> Cardinality(C) > PageSize]
<1>1. pages' = pages \cup {p}
  BY Zenon DEF ReadPage
<1>2. /\ p.gen = g /\ p.cursor = snaps[g].cursor
      /\ p.rows = EntriesOf(F) /\ p.more = (Cardinality(C) > PageSize)
  OBVIOUS
<1>3. L = EntriesOf(LiveAt(snaps[g].fence))
  BY DEF ReadPage, SnapsTrue, LiveEntries, LiveAt
<1>4. C \subseteq history /\ C = {h \in LiveAt(snaps[g].fence) : h.seq > snaps[g].cursor}
  BY DEF Candidates, LiveAt
<1>5. (\A h \in C : h.seq \in Event) /\ SameSeqs(C)
  BY <1>4 DEF Types, CatalogTypes, Row, RowsTrue, SameSeqs
<1> HIDE DEF C, L, p
<1>6. /\ F \subseteq C
      /\ C # {} => F # {}
      /\ \A q \in F, e \in C \ F : q.seq < e.seq
      /\ ~(Cardinality(C) > PageSize) => F = C
  BY <1>5, FleetAssumption, FirstRowsIsPrefix
<1> HIDE DEF F
<1>7. \A x : x \in L /\ x.seq > p.cursor <=> \E h \in C : x = [seq |-> h.seq, b |-> h.b]
  BY <1>2, <1>3, <1>4 DEF EntriesOf
<1>8. \A x : x \in p.rows <=> \E h \in F : x = [seq |-> h.seq, b |-> h.b]
  BY <1>2 DEF EntriesOf
<1>9. p.rows \subseteq {e \in L : e.seq > p.cursor}
  BY <1>6, <1>7, <1>8
<1>10. p.more => p.rows # {}
  <2> SUFFICES ASSUME p.more PROVE p.rows # {}
    OBVIOUS
  <2>1. Cardinality(C) > PageSize
    BY <1>2
  <2>2. C # {}
    BY <2>1, FS_EmptySet, FleetAssumption
  <2>3. QED
    BY <1>6, <1>8, <2>2
<1>11. ASSUME NEW e \in L, e.seq > p.cursor, e \notin p.rows
       PROVE  p.more /\ \A q \in p.rows : q.seq < e.seq
  <2>1. PICK h \in C : e = [seq |-> h.seq, b |-> h.b]
    BY <1>7, <1>11
  <2>2. h \notin F
    BY <1>8, <1>11, <2>1
  <2>3. p.more
    BY <1>2, <1>6, <2>1, <2>2
  <2>4. \A q \in p.rows : q.seq < e.seq
    BY <1>6, <1>8, <2>1, <2>2
  <2>5. QED
    BY <2>3, <2>4
<1>12. PageTrue(p)
  BY <1>2, <1>9, <1>10, <1>11 DEF PageTrue, L
<1>13. QED
  BY <1>1, <1>2, <1>12
\* A step that leaves the snapshots alone, and reads a page at most.
SnapsSame ==
  /\ UNCHANGED snaps /\ meta'.gen = meta.gen
  /\ pages' \subseteq pages \/ \E g \in Gen : ReadPage(g)

\* What a step does to the snapshots.
LEMMA SnapSteps ==
  ASSUME Types, [Next]_vars
  PROVE  \/ SnapsSame
         \/ \E c \in Cutoffs : NewSnapshot(c)
         \/ \E p \in pages : StorePage(p)
         \/ Purge
<1>1. meta \in MetaRec /\ tx \in [Txs -> TxRec] /\ \A t \in Txs : tx[t].b \in Bucket
  BY DEF Types, CatalogTypes, ClientTypes, TxRec
<1> USE DEF SnapsSame
<1>2. ASSUME NEW t \in Txs, NEW b \in Bucket, AssignRoute(t, b) PROVE SnapsSame
  BY <1>1, <1>2 DEF AssignRoute, MetaRec
<1>3. ASSUME NEW t \in Txs, ActivateForReserve(t) PROVE SnapsSame
  BY <1>1, <1>3, ActivationQuiet DEF ActivateForReserve
<1>4. ASSUME NEW b \in Bucket, MaterializeGrid(b) PROVE SnapsSame
  BY <1>4, ActivationQuiet DEF MaterializeGrid
<1>5. ASSUME NEW b \in Bucket, Retire(b) \/ \E at \in Time : AdmitLegacy(b, at)
      PROVE  SnapsSame
  BY <1>1, <1>5 DEF AdmitLegacy, Retire, MetaRec
<1>6. ASSUME NEW t \in Txs, (\E at \in Time : Decide(t, at)) \/ Abandon(t) PROVE SnapsSame
  BY <1>6 DEF Decide, Abandon, catalogVars
<1>7. (\E r \in requests : DeliverReserve(r)) \/ (\E a \in admitted : DeliverLegacy(a)) => SnapsSame
  BY DEF DeliverReserve, DeliverLegacy, catalogVars
<1>8. ASSUME NEW c \in Cutoffs,
             \/ AdvanceScanned(c) \/ ReadBatch(c) \/ ReadReceipts(c)
             \/ \E g \in Gen : BeginClose(c, g)
             \/ \E e \in closes[c].listed : SealBucket(c, e)
             \/ \E e \in closes[c].listed, r \in receipts : RecordReceipt(c, e, r)
      PROVE  SnapsSame
  BY <1>1, <1>8 DEF AdvanceScanned, ReadBatch, ReadReceipts, BeginClose, SealBucket,
     RecordReceipt, MetaRec, catalogVars
<1>9. /\ AdvanceGrid \/ Tick \/ Restart \/ UNCHANGED vars => SnapsSame
      /\ \A b \in batches : StoreBatch(b) => SnapsSame
      /\ \A r \in roots : PublishRoot(r) => SnapsSame
  BY <1>1 DEF AdvanceGrid, Tick, Restart, StoreBatch, PublishRoot, MetaRec, vars, catalogVars
<1>10. \A g \in Gen : ReadPage(g) => SnapsSame
  BY DEF ReadPage
<1>11. QED
  BY <1>2, <1>3, <1>4, <1>5, <1>6, <1>7, <1>8, <1>9, <1>10 DEF Next

\* A new snapshot takes the fence of its moment.
LEMMA NewSnapshotTrue ==
  ASSUME Types, RowsTrue, SnapsTrue, NEW c \in Cutoffs, NewSnapshot(c)
  PROVE  /\ meta.gen + 1 \in Gen /\ meta'.gen = meta.gen + 1 /\ meta.gen \in Nat
         /\ meta'.seq = meta.seq /\ UNCHANGED <<history, active, pages>>
         /\ \A g \in Gen : g # meta.gen + 1 => snaps'[g] = snaps[g]
         /\ snaps'[meta.gen + 1].status = "BUILDING"
         /\ snaps'[meta.gen + 1].fence = meta.seq
         /\ snaps'[meta.gen + 1].cursor = 0
         /\ snaps'[meta.gen + 1].entries = {}
         /\ snaps'[meta.gen + 1].cutoff = c
         /\ snaps'[meta.gen + 1].floor >= c
         /\ snaps'[meta.gen + 1].live = LiveEntries(history, meta.seq)
         /\ meta'.floor >= c
<1>1. meta.gen + 1 \in Gen /\ meta.gen \in Nat
  <2>1. meta.gen \in 0 .. MaxGens /\ meta.gen < MaxGens
    BY DEF NewSnapshot, Types, CatalogTypes, MetaRec
  <2>2. QED
    BY <2>1, FleetAssumption DEF Gen
<1>2. c \in Nat /\ meta.floor \in Nat
  BY FleetAssumption DEF Types, CatalogTypes, MetaRec
<1>3. Max({meta.floor, c}) >= c
  BY <1>2, MaxOfTwo
<1> DEFINE new == [NoSnap EXCEPT !.status = "BUILDING", !.cutoff = c, !.done = now,
                     !.floor = Max({meta.floor, c}), !.fence = meta.seq,
                     !.live = EntriesOf(LiveAt(meta.seq))]
<1>4. snaps' = [snaps EXCEPT ![meta.gen + 1] = new]
  BY Zenon DEF NewSnapshot
<1>5. /\ new.status = "BUILDING" /\ new.fence = meta.seq /\ new.cursor = 0
      /\ new.entries = {} /\ new.cutoff = c /\ new.floor = Max({meta.floor, c})
      /\ new.live = EntriesOf(LiveAt(meta.seq))
  BY DEF NoSnap
<1> HIDE DEF new
<1>6. snaps'[meta.gen + 1] = new /\ \A g \in Gen : g # meta.gen + 1 => snaps'[g] = snaps[g]
  BY <1>1, <1>4 DEF Types, CatalogTypes
<1>7. new.live = LiveEntries(history, meta.seq)
  BY <1>5 DEF LiveEntries, LiveAt
<1>8. /\ meta'.gen = meta.gen + 1 /\ meta'.seq = meta.seq /\ meta'.floor = Max({meta.floor, c})
      /\ UNCHANGED <<history, active, pages>>
  BY DEF NewSnapshot, Types, CatalogTypes, MetaRec
<1>9. QED
  BY <1>1, <1>3, <1>5, <1>6, <1>7, <1>8

\* A page that is stored: the cursor moves over exactly what was added.
LEMMA StorePageTrue ==
  ASSUME Types, SnapsTrue, PagesTrue, NEW p \in pages, StorePage(p)
  PROVE  /\ p.gen \in Gen
         /\ \A g \in Gen : g # p.gen => snaps'[g] = snaps[g]
         /\ \/ snaps' = snaps
            \/ /\ snaps[p.gen].status = "BUILDING"
               /\ snaps'[p.gen].live = snaps[p.gen].live
               /\ snaps'[p.gen].fence = snaps[p.gen].fence
               /\ snaps'[p.gen].cutoff = snaps[p.gen].cutoff
               /\ snaps'[p.gen].floor = snaps[p.gen].floor
               /\ \/ /\ snaps'[p.gen].status = "BUILDING"
                     /\ snaps'[p.gen].entries =
                          {e \in snaps[p.gen].live : e.seq <= snaps'[p.gen].cursor}
                  \/ /\ snaps'[p.gen].status = "COMPLETE"
                     /\ snaps'[p.gen].entries = snaps[p.gen].live
<1> DEFINE s == snaps[p.gen]
           last == LastSeq(p.rows, s.cursor)
           new == [s EXCEPT !.entries = @ \cup p.rows, !.cursor = last,
                      !.status = IF p.more THEN "BUILDING" ELSE "COMPLETE",
                      !.done = IF p.more THEN @ ELSE now]
<1>1. p.gen \in Gen /\ p.rows \in SUBSET Entry
  BY DEF Types, CatalogTypes, PageRec
<1>2. snaps \in [Gen -> SnapRec] /\ s \in SnapRec
  BY <1>1 DEF Types, CatalogTypes
<1>3. \/ snaps' = snaps
      \/ /\ s.status = "BUILDING" /\ s.cursor = p.cursor
         /\ snaps' = [snaps EXCEPT ![p.gen] = new]
  BY Zenon DEF StorePage
<1>4. s.cursor \in Nat /\ s.live \subseteq Entry
  BY <1>2 DEF SnapRec
<1>5. /\ last \in Nat
      /\ p.rows = {} => last = s.cursor
      /\ p.rows # {} =>
           /\ \E r \in p.rows : r.seq = last
           /\ \A r \in p.rows : r.seq <= last
  <2> HIDE DEF s
  <2> QED
    BY <1>1, <1>4, LastSeqIsGreatest
<1> HIDE DEF last
<1>6. /\ new.live = s.live /\ new.fence = s.fence /\ new.cutoff = s.cutoff /\ new.floor = s.floor
      /\ new.entries = s.entries \cup p.rows /\ new.cursor = last
      /\ new.status = IF p.more THEN "BUILDING" ELSE "COMPLETE"
  BY <1>2 DEF SnapRec
<1>7. s.status = "BUILDING" =>
        /\ PageTrue(p)
        /\ s.entries = {e \in s.live : e.seq <= s.cursor}
  BY <1>1 DEF PagesTrue, SnapsTrue
<1> HIDE DEF new, s
<1>8. CASE snaps' = snaps
  BY <1>1, <1>8
<1>9. CASE /\ s.status = "BUILDING" /\ s.cursor = p.cursor
           /\ snaps' = [snaps EXCEPT ![p.gen] = new]
  <2>1. snaps'[p.gen] = new /\ \A g \in Gen : g # p.gen => snaps'[g] = snaps[g]
    BY <1>1, <1>2, <1>9
  <2>2. \A e \in s.live : e.seq \in Nat
    BY <1>4, FleetAssumption DEF Entry, Event
  <2>3. p.rows \subseteq {e \in s.live : e.seq > s.cursor}
    BY <1>7, <1>9 DEF PageTrue, s
  <2>4. \A e \in s.live : e.seq > s.cursor /\ e \notin p.rows =>
          p.more /\ \A q \in p.rows : q.seq < e.seq
    BY <1>7, <1>9 DEF PageTrue, s
  <2>5. \A e \in s.live : e.seq <= s.cursor <=> e \in s.entries
    BY <1>7, <1>9
  <2>6. \A r \in p.rows : r.seq <= last /\ r.seq \in Nat
    BY <1>5, <2>2, <2>3
  <2>7. CASE p.more
    <3>1. p.rows # {}
      BY <1>7, <1>9, <2>7 DEF PageTrue
    <3>2. PICK r \in p.rows : r.seq = last
      BY <1>5, <3>1
    <3>3. last > s.cursor
      BY <2>3, <3>2
    <3>4. ASSUME NEW e \in s.live PROVE e \in new.entries <=> e.seq <= last
      <4>1. e.seq \in Nat
        BY <2>2
      <4>2. CASE e.seq <= s.cursor
        BY <1>4, <1>5, <1>6, <2>5, <3>3, <4>1, <4>2
      <4>3. CASE e.seq > s.cursor
        <5>1. e \in p.rows => e.seq <= last
          BY <2>6
        <5>2. e \notin p.rows => last < e.seq
          BY <2>4, <3>2, <4>3
        <5>3. e \notin s.entries
          BY <1>4, <2>5, <4>1, <4>3
        <5>4. QED
          BY <1>5, <1>6, <4>1, <5>1, <5>2, <5>3
      <4>4. QED
        BY <1>4, <4>1, <4>2, <4>3
    <3>5. new.entries \subseteq s.live
      BY <1>6, <1>7, <1>9, <2>3
    <3>6. new.entries = {e \in s.live : e.seq <= new.cursor}
      BY <1>6, <3>4, <3>5
    <3>7. QED
      BY <1>1, <1>6, <1>9, <2>1, <2>7, <3>6 DEF s
  <2>8. CASE ~p.more
    <3>1. \A e \in s.live : e \in new.entries
      <4> TAKE e \in s.live
      <4>1. e.seq \in Nat
        BY <2>2
      <4>2. QED
        BY <1>4, <1>6, <2>4, <2>5, <2>8, <4>1
    <3>2. new.entries \subseteq s.live
      BY <1>6, <1>7, <1>9, <2>3
    <3>3. QED
      BY <1>1, <1>6, <1>9, <2>1, <2>8, <3>1, <3>2 DEF s
  <2>9. QED
    BY <2>7, <2>8
<1>10. QED
  BY <1>3, <1>8, <1>9

\* Retention deletes snapshots whole, and keeps the rows of the one that is built.
LEMMA PurgeSnaps ==
  ASSUME Types, Purge
  PROVE  /\ UNCHANGED <<meta, active, pages>>
         /\ \A g \in Gen : snaps'[g] = snaps[g] \/ snaps'[g].status = "deleted"
         /\ \A g \in Gen : snaps[g].status = "none" => snaps'[g] = snaps[g]
         /\ history' \subseteq history
         /\ \A g \in Gen : \A h \in history :
              /\ snaps'[g].status = "BUILDING" /\ h.seq <= snaps'[g].fence
              /\ h.until = 0 \/ h.until > snaps'[g].fence
              => h \in history'
<1>1. NoSnap.status = "none" /\ [NoSnap EXCEPT !.status = "deleted"].status = "deleted"
  BY DEF NoSnap
<1>2. QED
  BY <1>1 DEF Purge, Needed

\* Every step keeps what is stored of a snapshot a prefix of its fence.
LEMMA SnapsTrueStep ==
  ASSUME Types, RowsTrue, SnapsTrue, PagesTrue, [Next]_vars
  PROVE  SnapsTrue'
<1>1. /\ meta.gen \in Nat /\ meta.seq \in Nat
      /\ snaps \in [Gen -> SnapRec] /\ \A g \in Gen : g \in Nat /\ snaps[g].fence \in Nat
      /\ meta'.seq \in Nat /\ meta'.seq >= meta.seq
  <2>1. meta.gen \in Nat /\ meta.seq \in Nat /\ snaps \in [Gen -> SnapRec]
    BY FleetAssumption DEF Types, CatalogTypes, MetaRec
  <2>2. \A g \in Gen : g \in Nat /\ snaps[g].fence \in Nat
    BY <2>1, FleetAssumption DEF Gen, SnapRec
  <2>3. meta'.seq = meta.seq \/ meta'.seq = meta.seq + 1
    BY RowSteps, RetireCloses DEF RowsSame, RowAdded, Purge
  <2>4. QED
    BY <2>1, <2>2, <2>3
<1>2. ASSUME NEW c \in Cutoffs, NewSnapshot(c) PROVE SnapsTrue'
  <2>1. /\ meta.gen + 1 \in Gen /\ meta'.gen = meta.gen + 1
        /\ meta'.seq = meta.seq /\ UNCHANGED <<history, active, pages>>
        /\ \A g \in Gen : g # meta.gen + 1 => snaps'[g] = snaps[g]
        /\ snaps'[meta.gen + 1].status = "BUILDING"
        /\ snaps'[meta.gen + 1].fence = meta.seq
        /\ snaps'[meta.gen + 1].cursor = 0
        /\ snaps'[meta.gen + 1].entries = {}
        /\ snaps'[meta.gen + 1].live = LiveEntries(history, meta.seq)
    BY <1>2, NewSnapshotTrue
  <2>2. \A x : x \in LiveEntries(history, meta.seq) =>
          \E h \in history : x = [seq |-> h.seq, b |-> h.b]
    BY LiveEntry
  <2>3. SameSeqs(LiveEntries(history, meta.seq))
    BY <2>2 DEF SameSeqs, RowsTrue
  <2>4. \A e \in LiveEntries(history, meta.seq) : ~(e.seq <= 0)
    BY <2>2, FleetAssumption DEF Types, CatalogTypes, Row, Event
  <2>5. \A g \in Gen : g > meta'.gen => snaps'[g].status = "none"
    BY <1>1, <2>1 DEF SnapsTrue
  <2>6. \A g \in Gen : Held(g)' => SameSeqs(snaps'[g].live)
    BY <2>1, <2>3 DEF SnapsTrue, Held
  <2>7. ASSUME NEW g \in Gen, snaps'[g].status = "BUILDING"
        PROVE  /\ snaps'[g].fence <= meta'.seq
               /\ snaps'[g].live = LiveEntries(history', snaps'[g].fence)
               /\ snaps'[g].entries = {e \in snaps'[g].live : e.seq <= snaps'[g].cursor}
    <3>1. CASE g = meta.gen + 1
      BY <1>1, <2>1, <2>4, <3>1
    <3>2. CASE g # meta.gen + 1
      BY <2>1, <2>7, <3>2 DEF SnapsTrue
    <3>3. QED
      BY <3>1, <3>2
  <2>8. \A g \in Gen : Complete(g)' => snaps'[g].entries = snaps'[g].live
    BY <2>1 DEF SnapsTrue, Complete
  <2>9. QED
    BY <2>5, <2>6, <2>7, <2>8 DEF SnapsTrue
<1>3. ASSUME NEW p \in pages, StorePage(p) PROVE SnapsTrue'
  <2>1. UNCHANGED <<meta, history>>
    BY <1>3 DEF StorePage
  <2>2. CASE snaps' = snaps
    BY <2>1, <2>2 DEF SnapsTrue, Held, Complete
  <2>3. CASE snaps' # snaps
    <3>1. /\ p.gen \in Gen /\ snaps[p.gen].status = "BUILDING"
          /\ \A g \in Gen : g # p.gen => snaps'[g] = snaps[g]
          /\ snaps'[p.gen].live = snaps[p.gen].live
          /\ snaps'[p.gen].fence = snaps[p.gen].fence
          /\ \/ /\ snaps'[p.gen].status = "BUILDING"
                /\ snaps'[p.gen].entries =
                     {e \in snaps[p.gen].live : e.seq <= snaps'[p.gen].cursor}
             \/ /\ snaps'[p.gen].status = "COMPLETE"
                /\ snaps'[p.gen].entries = snaps[p.gen].live
      BY <1>3, <2>3, StorePageTrue
    <3>2. \A g \in Gen : g > meta'.gen => snaps'[g].status = "none"
      BY <2>1, <3>1 DEF SnapsTrue
    <3>3. \A g \in Gen : Held(g)' => SameSeqs(snaps'[g].live)
      BY <3>1 DEF SnapsTrue, Held
    <3>4. \A g \in Gen : snaps'[g].status = "BUILDING" =>
            /\ snaps'[g].fence <= meta'.seq
            /\ snaps'[g].live = LiveEntries(history', snaps'[g].fence)
            /\ snaps'[g].entries = {e \in snaps'[g].live : e.seq <= snaps'[g].cursor}
      BY <2>1, <3>1 DEF SnapsTrue
    <3>5. \A g \in Gen : Complete(g)' => snaps'[g].entries = snaps'[g].live
      BY <3>1 DEF SnapsTrue, Complete
    <3>6. QED
      BY <3>2, <3>3, <3>4, <3>5 DEF SnapsTrue
  <2>4. QED
    BY <2>2, <2>3
<1>4. CASE Purge
  <2>1. /\ UNCHANGED meta
        /\ \A g \in Gen : snaps'[g] = snaps[g] \/ snaps'[g].status = "deleted"
        /\ \A g \in Gen : snaps[g].status = "none" => snaps'[g] = snaps[g]
    BY <1>4, PurgeSnaps
  <2>2. ASSUME NEW g \in Gen, snaps'[g].status = "BUILDING"
        PROVE  LiveEntries(history', snaps'[g].fence) = LiveEntries(history, snaps'[g].fence)
    <3>1. history' \subseteq history
          /\ \A h \in history :
              /\ h.seq <= snaps'[g].fence
              /\ h.until = 0 \/ h.until > snaps'[g].fence
              => h \in history'
      BY <1>4, <2>2, PurgeSnaps
    <3>2. {h \in history' : h.seq <= snaps'[g].fence /\ (h.until = 0 \/ h.until > snaps'[g].fence)}
            = {h \in history : h.seq <= snaps'[g].fence /\ (h.until = 0 \/ h.until > snaps'[g].fence)}
      BY <3>1
    <3>3. QED
      BY <3>2 DEF LiveEntries
  <2>3. \A g \in Gen : g > meta'.gen => snaps'[g].status = "none"
    BY <2>1 DEF SnapsTrue
  <2>4. \A g \in Gen : Held(g)' => SameSeqs(snaps'[g].live)
    BY <2>1 DEF SnapsTrue, Held
  <2>5. \A g \in Gen : snaps'[g].status = "BUILDING" =>
          /\ snaps'[g].fence <= meta'.seq
          /\ snaps'[g].live = LiveEntries(history', snaps'[g].fence)
          /\ snaps'[g].entries = {e \in snaps'[g].live : e.seq <= snaps'[g].cursor}
    BY <2>1, <2>2 DEF SnapsTrue
  <2>6. \A g \in Gen : Complete(g)' => snaps'[g].entries = snaps'[g].live
    BY <2>1 DEF SnapsTrue, Complete
  <2>7. QED
    BY <2>3, <2>4, <2>5, <2>6 DEF SnapsTrue
<1>5. CASE SnapsSame /\ ~Purge
  <2>1. UNCHANGED snaps /\ meta'.gen = meta.gen
    BY <1>5 DEF SnapsSame
  <2>2. ASSUME NEW g \in Gen, snaps[g].status = "BUILDING"
        PROVE  /\ snaps[g].fence <= meta'.seq
               /\ LiveEntries(history', snaps[g].fence) = LiveEntries(history, snaps[g].fence)
    <3>1. snaps[g].fence \in Nat /\ snaps[g].fence <= meta.seq
      BY <1>1, <2>2 DEF SnapsTrue
    <3>2. CASE RowsSame
      BY <3>1, <3>2 DEF RowsSame
    <3>3. ASSUME NEW b \in Bucket, RowAdded(b) \/ Retire(b)
          PROVE  LiveEntries(history', snaps[g].fence) = LiveEntries(history, snaps[g].fence)
      BY <3>1, <3>3, FenceStays
    <3>4. snaps[g].fence <= meta'.seq
      BY <1>1, <3>1
    <3>5. QED
      BY <1>5, <3>2, <3>3, <3>4, RowSteps
  <2>3. \A g \in Gen : g > meta'.gen => snaps'[g].status = "none"
    BY <2>1 DEF SnapsTrue
  <2>4. \A g \in Gen : Held(g)' => SameSeqs(snaps'[g].live)
    BY <2>1 DEF SnapsTrue, Held
  <2>5. \A g \in Gen : snaps'[g].status = "BUILDING" =>
          /\ snaps'[g].fence <= meta'.seq
          /\ snaps'[g].live = LiveEntries(history', snaps'[g].fence)
          /\ snaps'[g].entries = {e \in snaps'[g].live : e.seq <= snaps'[g].cursor}
    BY <2>1, <2>2 DEF SnapsTrue
  <2>6. \A g \in Gen : Complete(g)' => snaps'[g].entries = snaps'[g].live
    BY <2>1 DEF SnapsTrue, Complete
  <2>7. QED
    BY <2>3, <2>4, <2>5, <2>6 DEF SnapsTrue
<1>6. QED
  BY <1>2, <1>3, <1>4, <1>5, SnapSteps

\* Every step keeps the pages that were read true, or they are not stored.
LEMMA PagesTrueStep ==
  ASSUME Types, RowsTrue, SnapsTrue, PagesTrue, [Next]_vars
  PROVE  PagesTrue'
<1>1. /\ \A p \in pages : p.gen \in Gen
      /\ meta.gen \in Nat /\ \A g \in Gen : g \in Nat
  BY FleetAssumption DEF Types, CatalogTypes, PageRec, MetaRec, Gen
<1>2. ASSUME NEW c \in Cutoffs, NewSnapshot(c) PROVE PagesTrue'
  <2>1. /\ UNCHANGED pages /\ meta.gen + 1 \in Gen
        /\ \A g \in Gen : g # meta.gen + 1 => snaps'[g] = snaps[g]
    BY <1>2, NewSnapshotTrue
  <2>2. \A p \in pages : p.gen # meta.gen + 1
    BY <1>1, <2>1 DEF PagesTrue, SnapsTrue
  <2>3. QED
    BY <1>1, <2>1, <2>2 DEF PagesTrue, PageTrue
<1>3. ASSUME NEW p \in pages, StorePage(p) PROVE PagesTrue'
  <2>1. pages' \subseteq pages
    BY <1>3 DEF StorePage
  <2>2. /\ p.gen \in Gen
        /\ \A g \in Gen : g # p.gen => snaps'[g] = snaps[g]
        /\ \/ snaps' = snaps
           \/ /\ snaps[p.gen].status = "BUILDING"
              /\ snaps'[p.gen].live = snaps[p.gen].live
              /\ snaps'[p.gen].status = "BUILDING" \/ snaps'[p.gen].status = "COMPLETE"
    BY <1>3, StorePageTrue
  <2>3. \A g \in Gen : \/ snaps'[g] = snaps[g]
                       \/ /\ snaps[g].status = "BUILDING" /\ snaps'[g].live = snaps[g].live
                          /\ snaps'[g].status # "none"
    BY <2>2
  <2>4. QED
    BY <1>1, <2>1, <2>3 DEF PagesTrue, PageTrue
<1>4. CASE Purge
  <2>1. /\ UNCHANGED pages
        /\ \A g \in Gen : snaps'[g] = snaps[g] \/ snaps'[g].status = "deleted"
    BY <1>4, PurgeSnaps
  <2>2. QED
    BY <1>1, <2>1 DEF PagesTrue, PageTrue
<1>5. CASE SnapsSame
  <2>1. UNCHANGED snaps
    BY <1>5 DEF SnapsSame
  <2>2. CASE pages' \subseteq pages
    BY <2>1, <2>2 DEF PagesTrue, PageTrue
  <2>3. ASSUME NEW g \in Gen, ReadPage(g) PROVE PagesTrue'
    <3>1. PICK p : pages' = pages \cup {p} /\ p.gen = g /\ PageTrue(p)
      BY <2>3, ReadPageTrue
    <3>2. snaps[g].status = "BUILDING"
      BY <2>3 DEF ReadPage
    <3>3. PageTrue(p)'
      BY <2>1, <3>1 DEF PageTrue
    <3>4. \A q \in pages : PageTrue(q)' <=> PageTrue(q)
      BY <2>1 DEF PageTrue
    <3>5. QED
      BY <2>1, <3>1, <3>2, <3>3, <3>4 DEF PagesTrue
  <2>4. QED
    BY <1>5, <2>2, <2>3 DEF SnapsSame
<1>6. QED
  BY <1>2, <1>3, <1>4, <1>5, SnapSteps

\* The empty catalog has no rows and no snapshots.
LEMMA InitSnaps == Init => SnapInv
<1> SUFFICES ASSUME Init PROVE SnapInv
  OBVIOUS
<1>1. NoSnap.status = "none"
  BY DEF NoSnap
<1>2. RowsTrue
  BY DEF Init, RowsTrue, IsActive
<1>3. \A g \in Gen : snaps[g].status = "none"
  BY <1>1 DEF Init
<1>4. SnapsTrue
  BY <1>3 DEF SnapsTrue, Held, Complete
<1>5. PagesTrue
  BY DEF Init, PagesTrue
<1>6. QED
  BY <1>2, <1>4, <1>5 DEF SnapInv
-----------------------------------------------------------------------------
(* Closes: what is active, listed, sealed and closed for ever.             *)

\* The parts of the invariant.
LEMMA PartsOfInv ==
  ASSUME FleetInv
  PROVE  /\ Types /\ CoverageInv /\ LegacyIsBehind /\ FloorsAtBoundary
         /\ RowsTrue /\ SnapsTrue /\ PagesTrue
         /\ UsedIsActive /\ ClosesTrue /\ ReceiptsTrue /\ SnapsCover /\ RootsTrue
  BY DEF FleetInv, CoverageInv, SnapInv, CloseInv

\* What only grows, and what only a decision adds to.
LEMMA Growth ==
  ASSUME FleetInv, [Next]_vars
  PROVE  /\ FloorsRise
         /\ receipts \subseteq receipts'
         /\ log \subseteq log'
         /\ \A d \in log' \ log :
              \E t \in Txs : /\ tx[t].st = "reserved" /\ d.b = tx[t].b
                             /\ d.at \in Nat /\ d.at > bucket[d.b].floor
         /\ meta'.floor >= meta.floor /\ meta.floor \in Nat /\ meta'.floor \in Nat
<1>1. /\ Types /\ ClosesTrue /\ Types'
  BY PartsOfInv, TypesStep
<1>2. /\ bucket \in [Bucket -> BucketRec] /\ \A b \in Bucket : bucket[b].floor \in Nat
      /\ meta \in MetaRec /\ meta.floor \in Nat /\ meta'.floor \in Nat
      /\ tx \in [Txs -> TxRec] /\ \A t \in Txs : tx[t].b \in Bucket
  BY <1>1 DEF Types, CatalogTypes, ClientTypes, MetaRec, BucketRec, TxRec
<1>3. (UNCHANGED bucket) => FloorsRise
  BY <1>2 DEF FloorsRise
<1>4. CASE QuietStep
  BY <1>2, <1>3, <1>4 DEF QuietStep, bucketVars
<1>5. ASSUME NEW t \in Txs, NEW b \in Bucket, AssignRoute(t, b)
      PROVE  UNCHANGED bucketVars /\ meta'.floor = meta.floor
  BY <1>2, <1>5 DEF AssignRoute, MetaRec
<1>6. ASSUME NEW t \in Txs, ActivateForReserve(t)
      PROVE  UNCHANGED bucketVars /\ meta'.floor = meta.floor
  BY <1>1, <1>2, <1>6, ActivationQuiet DEF ActivateForReserve
<1>7. ASSUME NEW t \in Txs, Abandon(t)
      PROVE  UNCHANGED bucketVars /\ meta'.floor = meta.floor
  BY <1>7 DEF Abandon, catalogVars
<1>8. ASSUME NEW b \in Bucket, NEW at \in Time, AdmitLegacy(b, at)
      PROVE  UNCHANGED bucketVars /\ meta'.floor = meta.floor
  BY <1>2, <1>8 DEF AdmitLegacy, MetaRec
<1>9. ASSUME UNCHANGED bucketVars, meta'.floor = meta.floor
      PROVE  /\ FloorsRise /\ receipts \subseteq receipts' /\ log' = log
             /\ meta'.floor >= meta.floor
  BY <1>2, <1>3, <1>9 DEF bucketVars
<1>10. ASSUME NEW r \in requests, DeliverReserve(r)
       PROVE  FloorsRise /\ UNCHANGED <<log, receipts, meta>>
  BY <1>1, <1>10, ReserveRaises DEF DeliverReserve, catalogVars
<1>11. ASSUME NEW a \in admitted, DeliverLegacy(a)
       PROVE  FloorsRise /\ UNCHANGED <<log, receipts, meta>>
  <2>1. \A b \in Bucket : bucket'[b].floor = bucket[b].floor
    BY <1>2, <1>11 DEF DeliverLegacy, BucketRec
  <2>2. QED
    BY <1>2, <1>11, <2>1 DEF DeliverLegacy, catalogVars, FloorsRise
<1>12. ASSUME NEW c \in Cutoffs, NEW e \in closes[c].listed, SealBucket(c, e)
       PROVE  FloorsRise /\ UNCHANGED <<log, meta>> /\ receipts \subseteq receipts'
  BY <1>1, <1>12, SealRaises DEF SealBucket, catalogVars
<1>13. ASSUME NEW t \in Txs, NEW at \in Time, Decide(t, at)
       PROVE  /\ FloorsRise /\ UNCHANGED <<receipts, meta>>
              /\ tx[t].st = "reserved" /\ at > bucket[tx[t].b].floor /\ at \in Nat
              /\ log' = log \cup {[tx |-> t, b |-> tx[t].b, at |-> at]}
  BY <1>3, <1>13, FleetAssumption DEF Decide, catalogVars, Time
<1>14. \/ QuietStep
       \/ UNCHANGED bucketVars /\ meta'.floor = meta.floor
       \/ \E t \in Txs, at \in Time : Decide(t, at)
       \/ \E r \in requests : DeliverReserve(r)
       \/ \E a \in admitted : DeliverLegacy(a)
       \/ \E c \in Cutoffs : \E e \in closes[c].listed : SealBucket(c, e)
  BY <1>1, <1>5, <1>6, <1>7, <1>8, StepIsQuietOr
<1>15. ASSUME NEW t \in Txs, NEW at \in Time, Decide(t, at)
       PROVE  /\ FloorsRise /\ receipts \subseteq receipts' /\ log \subseteq log'
              /\ \A d \in log' \ log :
                   \E u \in Txs : /\ tx[u].st = "reserved" /\ d.b = tx[u].b
                                  /\ d.at \in Nat /\ d.at > bucket[d.b].floor
              /\ meta'.floor >= meta.floor
  BY <1>2, <1>13, <1>15
<1>16. ASSUME FloorsRise, UNCHANGED <<log, meta>>, receipts \subseteq receipts'
       PROVE  /\ log \subseteq log' /\ log' \ log = {} /\ meta'.floor >= meta.floor
  BY <1>2, <1>16
<1>17. QED
  BY <1>2, <1>4, <1>9, <1>10, <1>11, <1>12, <1>14, <1>15, <1>16 DEF QuietStep, bucketVars

\* What a step does to the transactions and their calls, seen from a bucket.
LEMMA ClosedStays ==
  ASSUME FleetInv, [Next]_vars, NEW c \in Nat, meta.floor >= c,
         NEW b \in Bucket, ClosedAt(c, b)
  PROVE  ClosedAt(c, b)' /\ \A d \in log' \ log : d.b = b => d.at > c
<1>1. /\ Types /\ LegacyIsBehind
      /\ tx \in [Txs -> TxRec] /\ \A t \in Txs : tx[t].b \in Bucket
      /\ \A r \in requests : r.tx \in Txs /\ r.floor \in Nat /\ tx[r.tx].st # "new"
      /\ meta.floor \in Nat
  BY PartsOfInv DEF Types, CatalogTypes, ClientTypes, TxRec, LegacyIsBehind, MetaRec
<1>2. /\ FloorsRise
      /\ bucket[b].floor \in Nat /\ bucket'[b].floor \in Nat /\ bucket'[b].floor >= bucket[b].floor
  BY <1>1, Growth DEF FloorsRise, Types, ClientTypes, BucketRec
<1>3. ASSUME NEW d \in log' \ log, d.b = b PROVE d.at > c
  <2>1. PICK t \in Txs : /\ tx[t].st = "reserved" /\ d.b = tx[t].b
                         /\ d.at \in Nat /\ d.at > bucket[d.b].floor
    BY Growth
  <2>2. bucket[b].floor >= c
    BY <1>3, <2>1 DEF ClosedAt
  <2>3. QED
    BY <1>2, <1>3, <2>1, <2>2
<1>4. ASSUME /\ \A t \in Txs : tx'[t].st = "reserved" => tx[t].st = "reserved" /\ tx'[t].b = tx[t].b
             /\ \A r \in requests' : r \in requests
             /\ \A r \in requests : tx'[r.tx].st = "routed" => tx[r.tx] = tx'[r.tx]
      PROVE  ClosedAt(c, b)'
  <2>1. ASSUME NEW t \in Txs, tx'[t].st = "reserved", tx'[t].b = b
        PROVE  bucket'[b].floor >= c
    <3>1. bucket[b].floor >= c
      BY <1>4, <2>1 DEF ClosedAt
    <3>2. QED
      BY <1>2, <3>1
  <2>2. ASSUME NEW r \in requests', tx'[r.tx].st = "routed", tx'[r.tx].b = b
        PROVE  r.floor >= c \/ bucket'[b].floor >= c
    <3>1. r.floor >= c \/ bucket[b].floor >= c
      BY <1>4, <2>2 DEF ClosedAt
    <3>2. QED
      BY <1>2, <3>1
  <2>3. QED
    BY <2>1, <2>2 DEF ClosedAt
<1>5. CASE QuietStep
  <2>1. UNCHANGED <<tx, requests>>
    BY <1>5 DEF QuietStep, clientVars
  <2>2. QED
    BY <1>3, <1>4, <2>1
<1>6. ASSUME NEW t \in Txs, NEW k \in Bucket, AssignRoute(t, k) PROVE ClosedAt(c, b)'
  <2>1. UNCHANGED requests /\ tx' = [tx EXCEPT ![t] = [st |-> "routed", b |-> k]] /\ tx[t].st = "new"
    BY <1>6 DEF AssignRoute
  <2>2. tx'[t].st = "routed" /\ \A u \in Txs : u # t => tx'[u] = tx[u]
    BY <1>1, <2>1
  <2>3. \A r \in requests : tx'[r.tx] = tx[r.tx]
    BY <1>1, <2>1, <2>2
  <2>4. QED
    BY <1>4, <2>1, <2>2, <2>3
<1>7. ASSUME NEW t \in Txs, ActivateForReserve(t) PROVE ClosedAt(c, b)'
  <2>1. /\ requests' = requests \cup {[tx |-> t, floor |-> RequiredFloor]}
        /\ UNCHANGED <<bucket, tx>>
    BY <1>7 DEF ActivateForReserve, bucketVars
  <2>2. RequiredFloor >= c
    BY <1>1, RequiredFloorIsNat DEF Types, CatalogTypes
  <2>3. \A r \in requests' : r \in requests \/ r.floor >= c
    BY <2>1, <2>2
  <2>4. QED
    BY <2>1, <2>3 DEF ClosedAt
<1>8. ASSUME NEW t \in Txs, Abandon(t) PROVE ClosedAt(c, b)'
  <2>1. requests' \subseteq requests /\ tx' = [tx EXCEPT ![t].st = "done"]
    BY <1>8 DEF Abandon
  <2>2. tx'[t].st = "done" /\ \A u \in Txs : u # t => tx'[u] = tx[u]
    BY <1>1, <2>1 DEF TxRec
  <2>3. QED
    BY <1>1, <1>4, <2>1, <2>2
<1>9. ASSUME NEW t \in Txs, NEW at \in Time, Decide(t, at) PROVE ClosedAt(c, b)'
  <2>1. requests' \subseteq requests /\ tx' = [tx EXCEPT ![t].st = "done"]
    BY <1>9 DEF Decide
  <2>2. tx'[t].st = "done" /\ \A u \in Txs : u # t => tx'[u] = tx[u]
    BY <1>1, <2>1 DEF TxRec
  <2>3. QED
    BY <1>1, <1>4, <2>1, <2>2
<1>10. ASSUME NEW r \in requests, DeliverReserve(r) PROVE ClosedAt(c, b)'
  <2>1. /\ requests' \subseteq requests
        /\ tx' = [tx EXCEPT ![r.tx].st = IF @ = "routed" THEN "reserved" ELSE @]
    BY <1>10 DEF DeliverReserve
  <2>2. r.tx \in Txs /\ r.floor \in Nat /\ bucket'[tx[r.tx].b].floor >= r.floor
    BY <1>1, <1>10, ReserveRaises
  <2>3. /\ \A u \in Txs : u # r.tx => tx'[u] = tx[u]
        /\ tx'[r.tx].b = tx[r.tx].b
        /\ tx'[r.tx].st # "routed"
        /\ tx[r.tx].st # "routed" => tx'[r.tx] = tx[r.tx]
    BY <1>1, <2>1, <2>2 DEF TxRec
  <2>4. CASE tx[r.tx].st # "routed"
    BY <1>1, <1>4, <2>1, <2>3, <2>4
  <2>5. CASE tx[r.tx].st = "routed"
    <3>1. tx[r.tx].b = b => bucket'[b].floor >= c
      <4>1. SUFFICES ASSUME tx[r.tx].b = b PROVE bucket'[b].floor >= c
        OBVIOUS
      <4>2. r.floor >= c \/ bucket[b].floor >= c
        BY <2>5, <4>1 DEF ClosedAt
      <4>3. QED
        BY <1>2, <2>2, <4>1, <4>2
    <3>2. ASSUME NEW u \in Txs, tx'[u].st = "reserved", tx'[u].b = b
          PROVE  bucket'[b].floor >= c
      <4>1. CASE u = r.tx
        BY <2>3, <3>1, <3>2, <4>1
      <4>2. CASE u # r.tx
        <5>1. bucket[b].floor >= c
          BY <2>3, <3>2, <4>2 DEF ClosedAt
        <5>2. QED
          BY <1>2, <5>1
      <4>3. QED
        BY <4>1, <4>2
    <3>3. ASSUME NEW q \in requests', tx'[q.tx].st = "routed", tx'[q.tx].b = b
          PROVE  q.floor >= c \/ bucket'[b].floor >= c
      <4>1. q \in requests /\ q.tx # r.tx
        BY <2>1, <2>3, <3>3
      <4>2. q.floor >= c \/ bucket[b].floor >= c
        BY <1>1, <2>3, <3>3, <4>1 DEF ClosedAt
      <4>3. QED
        BY <1>2, <4>2
    <3>4. QED
      BY <3>2, <3>3 DEF ClosedAt
  <2>6. QED
    BY <2>4, <2>5
<1>11. ASSUME NEW k \in Bucket, NEW at \in Time, AdmitLegacy(k, at) PROVE ClosedAt(c, b)'
  <2>1. UNCHANGED <<tx, requests>>
    BY <1>11 DEF AdmitLegacy
  <2>2. QED
    BY <1>4, <2>1
<1>12. ASSUME NEW a \in admitted, DeliverLegacy(a) PROVE ClosedAt(c, b)'
  <2>1. UNCHANGED <<tx, requests>>
    BY <1>12 DEF DeliverLegacy
  <2>2. QED
    BY <1>4, <2>1
<1>13. ASSUME NEW k \in Cutoffs, NEW e \in closes[k].listed, SealBucket(k, e)
       PROVE  ClosedAt(c, b)'
  <2>1. UNCHANGED <<tx, requests>>
    BY <1>13 DEF SealBucket, clientVars
  <2>2. QED
    BY <1>4, <2>1
<1>14. ClosedAt(c, b)'
  BY <1>1, <1>4, <1>5, <1>6, <1>7, <1>8, <1>9, <1>10, <1>11, <1>12, <1>13, StepIsQuietOr
     DEF QuietStep, clientVars
<1>15. QED
  BY <1>3, <1>14
\* Only a retirement makes a bucket inactive.
LEMMA ActiveStays ==
  ASSUME FleetInv, [Next]_vars, NEW b \in Bucket, IsActive(b)
  PROVE  IsActive(b)' \/ Retire(b)
<1>1. /\ Types /\ RowsTrue /\ active \in [Bucket -> ActiveRec] /\ meta.seq \in Nat
  BY PartsOfInv DEF Types, CatalogTypes, MetaRec
<1>2. CASE RowsSame
  BY <1>2 DEF RowsSame, IsActive
<1>3. ASSUME NEW k \in Bucket, RowAdded(k) PROVE IsActive(b)'
  <2>1. k # b
    BY <1>3 DEF RowAdded
  <2>2. active'[b] = active[b]
    BY <1>1, <1>3, <2>1 DEF RowAdded
  <2>3. QED
    BY <2>2 DEF IsActive
<1>4. ASSUME NEW k \in Bucket, Retire(k), k # b PROVE IsActive(b)'
  <2>1. active'[b] = active[b]
    BY <1>1, <1>4 DEF Retire
  <2>2. QED
    BY <2>1 DEF IsActive
<1>5. CASE Purge
  BY <1>5 DEF Purge, IsActive
<1>6. QED
  BY <1>1, <1>2, <1>3, <1>4, <1>5, RowSteps

\* Activation makes its bucket active.
LEMMA ActivationActivates ==
  ASSUME Types, NEW b \in Bucket, Activation(b)
  PROVE  IsActive(b)'
<1>1. active \in [Bucket -> ActiveRec] /\ meta.seq \in Nat
  BY DEF Types, CatalogTypes, MetaRec
<1>2. CASE IsActive(b)
  BY <1>2 DEF Activation, IsActive
<1>3. CASE ~IsActive(b)
  <2>1. active'[b] = [seq |-> meta.seq + 1, retired |-> FALSE]
    BY <1>1, <1>3 DEF Activation
  <2>2. QED
    BY <1>1, <2>1 DEF IsActive
<1>4. QED
  BY <1>2, <1>3

\* A bucket that is used stays active.
LEMMA UsedIsActiveStep ==
  ASSUME FleetInv, [Next]_vars
  PROVE  UsedIsActive'
<1>1. /\ Types /\ LegacyIsBehind /\ UsedIsActive
      /\ tx \in [Txs -> TxRec] /\ \A t \in Txs : tx[t].b \in Bucket
      /\ \A r \in requests : r.tx \in Txs /\ tx[r.tx].st # "new"
      /\ \A d \in log : d.b \in Bucket
  BY PartsOfInv DEF Types, ClientTypes, TxRec, LegacyIsBehind
<1>2. ASSUME NEW b \in Bucket, Retire(b) PROVE UsedIsActive'
  <2>1. UNCHANGED <<tx, requests, log>>
    BY <1>2 DEF Retire, bucketVars, clientVars
  <2>2. /\ \A t \in Txs : tx[t].b = b => tx[t].st \in {"new", "done"}
        /\ ~\E e \in log : e.b = b
    BY <1>2 DEF Retire
  <2>3. \A k \in Bucket : k # b => active'[k] = active[k]
    BY <1>1, <1>2 DEF Retire, Types, CatalogTypes
  <2>4. Actives \ {b} \subseteq Actives'
    BY <2>3 DEF Actives, IsActive
  <2>5. QED
    <3>1. \A t \in Txs : tx[t].st = "reserved" => tx[t].b \in Actives'
      BY <1>1, <2>2, <2>4 DEF UsedIsActive
    <3>2. \A r \in requests : tx[r.tx].st = "routed" => tx[r.tx].b \in Actives'
      BY <1>1, <2>2, <2>4 DEF UsedIsActive
    <3>3. \A d \in log : d.b \in Actives'
      BY <1>1, <2>2, <2>4 DEF UsedIsActive
    <3>4. QED
      BY <2>1, <3>1, <3>2, <3>3 DEF UsedIsActive
<1>3. ASSUME \A b \in Bucket : ~Retire(b) PROVE UsedIsActive'
  <2>1. Actives \subseteq Actives'
    BY <1>3, ActiveStays DEF Actives
  <2>2. ASSUME /\ \A t \in Txs : tx'[t].st = "reserved" => tx[t] = tx'[t]
               /\ requests' \subseteq requests
               /\ \A r \in requests : tx'[r.tx].st = "routed" => tx[r.tx] = tx'[r.tx]
               /\ \A d \in log' : d \in log \/ \E t \in Txs : tx[t].st = "reserved" /\ d.b = tx[t].b
        PROVE  UsedIsActive'
    <3>1. \A t \in Txs : tx'[t].st = "reserved" => tx'[t].b \in Actives'
      BY <1>1, <2>1, <2>2 DEF UsedIsActive
    <3>2. \A r \in requests' : tx'[r.tx].st = "routed" => tx'[r.tx].b \in Actives'
      BY <1>1, <2>1, <2>2 DEF UsedIsActive
    <3>3. \A d \in log' : d.b \in Actives'
      BY <1>1, <2>1, <2>2 DEF UsedIsActive
    <3>4. QED
      BY <3>1, <3>2, <3>3 DEF UsedIsActive
  <2>3. CASE UNCHANGED <<tx, requests, log>>
    BY <2>2, <2>3
  <2>4. ASSUME NEW t \in Txs, NEW k \in Bucket, AssignRoute(t, k) PROVE UsedIsActive'
    <3>1. /\ UNCHANGED <<requests, log>> /\ tx[t].st = "new"
          /\ tx' = [tx EXCEPT ![t] = [st |-> "routed", b |-> k]]
      BY <2>4 DEF AssignRoute, bucketVars
    <3>2. tx'[t].st = "routed" /\ \A u \in Txs : u # t => tx'[u] = tx[u]
      BY <1>1, <3>1
    <3>3. QED
      BY <1>1, <2>2, <3>1, <3>2
  <2>5. ASSUME NEW t \in Txs, ActivateForReserve(t) PROVE UsedIsActive'
    <3>1. /\ requests' = requests \cup {[tx |-> t, floor |-> RequiredFloor]}
          /\ UNCHANGED <<tx, log>>
      BY <2>5 DEF ActivateForReserve, bucketVars
    <3>2. tx[t].b \in Actives'
      <4>1. ASSUME NEW k \in Bucket, Activation(k) PROVE k \in Actives'
        BY <1>1, <4>1, ActivationActivates DEF Actives
      <4>2. QED
        BY <1>1, <2>5, <4>1 DEF ActivateForReserve
    <3>3. \A r \in requests' : r \in requests \/ r.tx = t
      BY <3>1
    <3>4. \A r \in requests' : tx[r.tx].st = "routed" => tx[r.tx].b \in Actives'
      BY <1>1, <2>1, <3>2, <3>3 DEF UsedIsActive
    <3>5. \A u \in Txs : tx[u].st = "reserved" => tx[u].b \in Actives'
      BY <1>1, <2>1 DEF UsedIsActive
    <3>6. \A d \in log : d.b \in Actives'
      BY <1>1, <2>1 DEF UsedIsActive
    <3>7. QED
      BY <3>1, <3>4, <3>5, <3>6 DEF UsedIsActive
  <2>6. ASSUME NEW t \in Txs, Abandon(t) PROVE UsedIsActive'
    <3>1. requests' \subseteq requests /\ tx' = [tx EXCEPT ![t].st = "done"] /\ UNCHANGED log
      BY <2>6 DEF Abandon, bucketVars
    <3>2. tx'[t].st = "done" /\ \A u \in Txs : u # t => tx'[u] = tx[u]
      BY <1>1, <3>1 DEF TxRec
    <3>3. QED
      BY <1>1, <2>2, <3>1, <3>2
  <2>7. ASSUME NEW t \in Txs, NEW at \in Time, Decide(t, at) PROVE UsedIsActive'
    <3>1. /\ requests' \subseteq requests /\ tx' = [tx EXCEPT ![t].st = "done"]
          /\ tx[t].st = "reserved"
          /\ log' = log \cup {[tx |-> t, b |-> tx[t].b, at |-> at]}
      BY <2>7 DEF Decide
    <3>2. tx'[t].st = "done" /\ \A u \in Txs : u # t => tx'[u] = tx[u]
      BY <1>1, <3>1 DEF TxRec
    <3>3. \A d \in log' : d \in log \/ d.b = tx[t].b
      BY <3>1
    <3>4. QED
      BY <1>1, <2>2, <3>1, <3>2, <3>3
  <2>8. ASSUME NEW r \in requests, DeliverReserve(r) PROVE UsedIsActive'
    <3>1. /\ requests' \subseteq requests /\ UNCHANGED log
          /\ tx' = [tx EXCEPT ![r.tx].st = IF @ = "routed" THEN "reserved" ELSE @]
      BY <2>8 DEF DeliverReserve
    <3>2. /\ \A u \in Txs : u # r.tx => tx'[u] = tx[u]
          /\ tx'[r.tx].b = tx[r.tx].b
          /\ tx'[r.tx].st # "routed"
          /\ tx[r.tx].st # "routed" => tx'[r.tx] = tx[r.tx]
      BY <1>1, <3>1 DEF TxRec
    <3>3. tx[r.tx].st = "routed" => tx[r.tx].b \in Actives
      BY <1>1 DEF UsedIsActive
    <3>4. \A u \in Txs : tx'[u].st = "reserved" => tx'[u].b \in Actives
      BY <1>1, <3>2, <3>3 DEF UsedIsActive
    <3>5. \A u \in Txs : tx'[u].st = "reserved" => tx'[u].b \in Actives'
      <4> TAKE u \in Txs
      <4>1. tx'[u].b \in Bucket
        BY <1>1, <3>2
      <4>2. QED
        BY <2>1, <3>4, <4>1
    <3>6. \A q \in requests' : tx'[q.tx].st = "routed" => tx'[q.tx].b \in Actives'
      BY <1>1, <2>1, <3>1, <3>2 DEF UsedIsActive
    <3>7. \A d \in log' : d.b \in Actives'
      BY <1>1, <2>1, <3>1 DEF UsedIsActive
    <3>8. QED
      BY <3>5, <3>6, <3>7 DEF UsedIsActive
  <2>9. /\ QuietStep => UNCHANGED <<tx, requests, log>>
        /\ \A k \in Bucket, at \in Time : AdmitLegacy(k, at) => UNCHANGED <<tx, requests, log>>
        /\ \A a \in admitted : DeliverLegacy(a) => UNCHANGED <<tx, requests, log>>
        /\ \A c \in Cutoffs : \A e \in closes[c].listed :
             SealBucket(c, e) => UNCHANGED <<tx, requests, log>>
    BY DEF QuietStep, AdmitLegacy, DeliverLegacy, SealBucket, bucketVars, clientVars
  <2>10. QED
    BY <1>1, <2>3, <2>4, <2>5, <2>6, <2>7, <2>8, <2>9, StepIsQuietOr
<1>4. QED
  BY <1>2, <1>3

\* What a step does to the receipts: a seal adds what the log has.
LEMMA ReceiptsTrueStep ==
  ASSUME FleetInv, [Next]_vars
  PROVE  ReceiptsTrue'
<1>1. /\ Types /\ ClosesTrue /\ ReceiptsTrue /\ SnapsCover /\ FloorsRise
      /\ \A r \in receipts : r.b \in Bucket /\ r.cutoff \in Cutoffs
      /\ \A b \in Bucket : bucket[b].floor \in Nat
      /\ \A c \in Cutoffs : c \in Nat
  BY PartsOfInv, Growth, FleetAssumption DEF Types, ClientTypes, Receipt, BucketRec
<1>2. ASSUME NEW r \in receipts
      PROVE  /\ bucket'[r.b].floor >= r.cutoff
             /\ r.members = {d \in log' : d.b = r.b /\ d.at <= r.cutoff}
  <2>1. /\ r.b \in Bucket /\ r.cutoff \in Nat
        /\ bucket[r.b].floor >= r.cutoff
        /\ r.members = {d \in log : d.b = r.b /\ d.at <= r.cutoff}
    BY <1>1 DEF ReceiptsTrue
  <2>2. bucket'[r.b].floor >= bucket[r.b].floor /\ bucket'[r.b].floor \in Nat
          /\ bucket[r.b].floor \in Nat
    BY <1>1, <2>1 DEF FloorsRise
  <2>3. ASSUME NEW d \in log' \ log, d.b = r.b PROVE ~(d.at <= r.cutoff)
    <3>1. d.at \in Nat /\ d.at > bucket[d.b].floor
      BY <2>3, Growth
    <3>2. QED
      BY <2>1, <2>2, <2>3, <3>1
  <2>4. log \subseteq log'
    BY Growth
  <2>5. {d \in log' : d.b = r.b /\ d.at <= r.cutoff}
          = {d \in log : d.b = r.b /\ d.at <= r.cutoff}
    BY <2>3, <2>4
  <2>6. QED
    BY <2>1, <2>2, <2>5
<1>3. ASSUME NEW c \in Cutoffs, NEW e \in closes[c].listed, SealBucket(c, e)
      PROVE  ReceiptsTrue'
  <2> DEFINE n == [b |-> e.b, cutoff |-> c, members |-> {d \in log : d.b = e.b /\ d.at <= c}]
  <2>1. /\ closes[c].gen \in Gen /\ e.b \in Bucket
        /\ bucket'[e.b].floor >= snaps[closes[c].gen].floor
    BY <1>1, <1>3, SealRaises
  <2>2. snaps[closes[c].gen].floor >= c /\ snaps[closes[c].gen].floor \in Nat
    <3>1. Held(closes[c].gen) /\ snaps[closes[c].gen].cutoff = c
      BY <1>1, <1>3 DEF SealBucket, ClosesTrue, CloseOk, CloseTrue, Complete, Held
    <3>2. QED
      BY <1>1, <2>1, <3>1 DEF SnapsCover, Types, CatalogTypes, SnapRec
  <2>3. bucket'[e.b].floor >= c
    <3>1. bucket'[e.b].floor \in Nat /\ c \in Nat
      BY <1>1, <2>1 DEF FloorsRise
    <3>2. QED
      BY <2>1, <2>2, <3>1
  <2>4. UNCHANGED log /\ (receipts' = receipts \/ receipts' = receipts \cup {n})
    BY <1>3 DEF SealBucket
  <2>5. /\ n.b = e.b /\ n.cutoff = c
        /\ n.members = {d \in log' : d.b = e.b /\ d.at <= c}
    BY <2>4
  <2> HIDE DEF n
  <2>6. QED
    BY <1>2, <2>3, <2>4, <2>5 DEF ReceiptsTrue
<1>4. ASSUME UNCHANGED receipts PROVE ReceiptsTrue'
  BY <1>2, <1>4 DEF ReceiptsTrue
<1>5. /\ QuietStep => UNCHANGED receipts
      /\ \A t \in Txs, b \in Bucket : AssignRoute(t, b) => UNCHANGED receipts
      /\ \A t \in Txs : ActivateForReserve(t) \/ Abandon(t) => UNCHANGED receipts
      /\ \A t \in Txs, at \in Time : Decide(t, at) => UNCHANGED receipts
      /\ \A r \in requests : DeliverReserve(r) => UNCHANGED receipts
      /\ \A b \in Bucket, at \in Time : AdmitLegacy(b, at) => UNCHANGED receipts
      /\ \A a \in admitted : DeliverLegacy(a) => UNCHANGED receipts
  BY DEF QuietStep, AssignRoute, ActivateForReserve, Abandon, Decide, DeliverReserve, AdmitLegacy,
     DeliverLegacy, bucketVars
<1>6. QED
  BY <1>1, <1>3, <1>4, <1>5, StepIsQuietOr
\* What a step does to a snapshot that is held.
LEMMA HeldStep ==
  ASSUME FleetInv, [Next]_vars, NEW g \in Gen, Held(g)'
  PROVE  \/ /\ Held(g) /\ snaps'[g].live = snaps[g].live
            /\ snaps'[g].cutoff = snaps[g].cutoff /\ snaps'[g].floor = snaps[g].floor
         \/ \E c \in Cutoffs : NewSnapshot(c) /\ g = meta.gen + 1
<1>1. Types /\ RowsTrue /\ SnapsTrue /\ PagesTrue
  BY PartsOfInv
<1>2. ASSUME NEW c \in Cutoffs, NewSnapshot(c), g # meta.gen + 1 PROVE snaps'[g] = snaps[g]
  BY <1>1, <1>2, NewSnapshotTrue
<1>3. ASSUME NEW p \in pages, StorePage(p)
      PROVE  /\ Held(g) /\ snaps'[g].live = snaps[g].live
             /\ snaps'[g].cutoff = snaps[g].cutoff /\ snaps'[g].floor = snaps[g].floor
  <2>1. \/ snaps'[g] = snaps[g]
        \/ /\ snaps[g].status = "BUILDING"
           /\ snaps'[g].live = snaps[g].live
           /\ snaps'[g].cutoff = snaps[g].cutoff /\ snaps'[g].floor = snaps[g].floor
    BY <1>1, <1>3, StorePageTrue
  <2>2. QED
    BY <2>1 DEF Held
<1>4. Purge => snaps'[g] = snaps[g]
  BY <1>1, PurgeSnaps DEF Held
<1>5. SnapsSame => snaps'[g] = snaps[g]
  BY DEF SnapsSame
<1>6. snaps'[g] = snaps[g] => Held(g)
  BY DEF Held
<1>7. QED
  BY <1>1, <1>2, <1>3, <1>4, <1>5, <1>6, SnapSteps

\* Every step keeps a snapshot complete in buckets.
LEMMA SnapsCoverStep ==
  ASSUME FleetInv, [Next]_vars
  PROVE  SnapsCover'
<1> SUFFICES ASSUME NEW g \in Gen, NEW c \in Cutoffs, Held(g)', snaps'[g].cutoff = c
             PROVE  /\ snaps'[g].floor >= c /\ meta'.floor >= c
                    /\ \A b \in Bucket :
                         \/ \E e \in snaps'[g].live : e.b = b
                         \/ ClosedAt(c, b)' /\ \A d \in log' : d.b = b => d.at > c
  BY DEF SnapsCover
<1>1. /\ Types /\ RowsTrue /\ SnapsTrue /\ SnapsCover /\ UsedIsActive
      /\ c \in Nat /\ \A d \in log : d.b \in Bucket
      /\ meta'.floor >= meta.floor /\ meta.floor \in Nat /\ meta'.floor \in Nat
      /\ log \subseteq log'
      /\ tx \in [Txs -> TxRec] /\ \A r \in requests : r.tx \in Txs
  BY PartsOfInv, Growth, FleetAssumption DEF Types, ClientTypes
<1>2. CASE /\ Held(g) /\ snaps'[g].live = snaps[g].live
           /\ snaps'[g].cutoff = snaps[g].cutoff /\ snaps'[g].floor = snaps[g].floor
  <2>1. /\ snaps[g].floor >= c /\ meta.floor >= c
        /\ \A b \in Bucket :
             \/ \E e \in snaps[g].live : e.b = b
             \/ ClosedAt(c, b) /\ \A d \in log : d.b = b => d.at > c
    BY <1>1, <1>2 DEF SnapsCover
  <2>2. ASSUME NEW b \in Bucket, ClosedAt(c, b), \A d \in log : d.b = b => d.at > c
        PROVE  ClosedAt(c, b)' /\ \A d \in log' : d.b = b => d.at > c
    BY <1>1, <2>1, <2>2, ClosedStays
  <2>3. meta'.floor >= c
    BY <1>1, <2>1
  <2>4. QED
    BY <1>2, <2>1, <2>2, <2>3
<1>3. ASSUME NEW k \in Cutoffs, NewSnapshot(k), g = meta.gen + 1
      PROVE  /\ snaps'[g].floor >= c /\ meta'.floor >= c
             /\ \A b \in Bucket :
                  \/ \E e \in snaps'[g].live : e.b = b
                  \/ ClosedAt(c, b)' /\ \A d \in log' : d.b = b => d.at > c
  <2>1. /\ snaps'[g].cutoff = k /\ snaps'[g].floor >= k /\ meta'.floor >= k
        /\ snaps'[g].live = LiveEntries(history, meta.seq)
    BY <1>1, <1>3, NewSnapshotTrue
  <2>2. UNCHANGED <<tx, requests, log>>
    BY <1>3 DEF NewSnapshot, bucketVars, clientVars
  <2>3. ASSUME NEW b \in Bucket, IsActive(b) PROVE \E e \in snaps'[g].live : e.b = b
    <3>1. PICK h \in history : h.seq = active[b].seq /\ h.b = b /\ h.until = 0
      BY <1>1, <2>3 DEF RowsTrue
    <3>2. h.seq <= meta.seq
      BY <1>1, <3>1 DEF RowsTrue
    <3>3. [seq |-> h.seq, b |-> h.b] \in LiveEntries(history, meta.seq)
      BY <3>1, <3>2, LiveEntry
    <3>4. QED
      BY <2>1, <3>1, <3>3
  <2>4. ASSUME NEW b \in Bucket, ~IsActive(b)
        PROVE  ClosedAt(c, b)' /\ \A d \in log' : d.b = b => d.at > c
    <3>1. \A t \in Txs : ~(tx[t].st = "reserved" /\ tx[t].b = b)
      BY <1>1, <2>4 DEF UsedIsActive, Actives
    <3>2. \A r \in requests : ~(tx[r.tx].st = "routed" /\ tx[r.tx].b = b)
      BY <1>1, <2>4 DEF UsedIsActive, Actives
    <3>3. \A d \in log : d.b # b
      BY <1>1, <2>4 DEF UsedIsActive, Actives
    <3>4. QED
      BY <2>2, <3>1, <3>2, <3>3 DEF ClosedAt
  <2>5. QED
    BY <2>1, <2>3, <2>4
<1>4. QED
  BY <1>2, <1>3, HeldStep

\* A step of the catalog that leaves the closes alone.
ClosesSame == UNCHANGED closes /\ batches' \subseteq batches /\ roots' \subseteq roots

\* What a step does to the closes.
LEMMA CloseSteps ==
  ASSUME [Next]_vars
  PROVE  \/ ClosesSame
         \/ \E c \in Cutoffs :
              \/ \E g \in Gen : BeginClose(c, g)
              \/ ReadBatch(c)
              \/ \E e \in closes[c].listed, r \in receipts : RecordReceipt(c, e, r)
              \/ ReadReceipts(c)
         \/ \E b \in batches : StoreBatch(b)
         \/ \E r \in roots : PublishRoot(r)
         \/ Purge
<1> USE DEF ClosesSame
<1>1. /\ \A t \in Txs, b \in Bucket : AssignRoute(t, b) => ClosesSame
      /\ \A t \in Txs : ActivateForReserve(t) \/ Abandon(t) => ClosesSame
      /\ \A t \in Txs, at \in Time : Decide(t, at) => ClosesSame
      /\ \A r \in requests : DeliverReserve(r) => ClosesSame
      /\ \A a \in admitted : DeliverLegacy(a) => ClosesSame
  BY DEF AssignRoute, ActivateForReserve, Abandon, Decide, DeliverReserve, DeliverLegacy, catalogVars
<1>2. /\ \A b \in Bucket : Retire(b) \/ MaterializeGrid(b) => ClosesSame
      /\ \A b \in Bucket, at \in Time : AdmitLegacy(b, at) => ClosesSame
      /\ \A c \in Cutoffs : NewSnapshot(c) \/ AdvanceScanned(c) => ClosesSame
      /\ \A c \in Cutoffs : \A e \in closes[c].listed : SealBucket(c, e) => ClosesSame
      /\ \A g \in Gen : ReadPage(g) => ClosesSame
      /\ \A p \in pages : StorePage(p) => ClosesSame
      /\ AdvanceGrid \/ Tick \/ Restart \/ UNCHANGED vars => ClosesSame
  BY DEF Retire, MaterializeGrid, AdmitLegacy, NewSnapshot, AdvanceScanned, SealBucket, ReadPage,
     StorePage, AdvanceGrid, Tick, Restart, vars, catalogVars
<1>3. QED
  BY <1>1, <1>2 DEF Next

\* A complete snapshot stays as it is while a close uses it.
LEMMA CompleteStays ==
  ASSUME FleetInv, [Next]_vars, NEW c \in Cutoffs,
         closes[c].status # "none", Purge => closes'[c] = closes[c]
  PROVE  snaps'[closes[c].gen] = snaps[closes[c].gen]
<1> DEFINE g == closes[c].gen
<1>1. /\ Types /\ RowsTrue /\ SnapsTrue /\ PagesTrue /\ ClosesTrue
      /\ g \in Gen /\ snaps[g].status = "COMPLETE"
  BY PartsOfInv DEF ClosesTrue, CloseOk, CloseTrue, Complete
<1>2. ASSUME NEW k \in Cutoffs, NewSnapshot(k) PROVE snaps'[g] = snaps[g]
  <2>1. meta.gen + 1 \in Gen /\ meta.gen \in Nat
    BY <1>1, <1>2, NewSnapshotTrue
  <2>2. g # meta.gen + 1
    BY <1>1, <2>1 DEF SnapsTrue
  <2>3. QED
    BY <1>1, <1>2, <2>2, NewSnapshotTrue
<1>3. ASSUME NEW p \in pages, StorePage(p) PROVE snaps'[g] = snaps[g]
  BY <1>1, <1>3, StorePageTrue
<1>4. CASE Purge
  <2> DEFINE goneCloses == {k \in Cutoffs : closes[k].status # "none" /\ Old(closes[k].upd)}
             used == {closes[k].gen : k \in Cutoffs \ goneCloses}
             goneSnaps == {s \in Gen : /\ s < meta.gen /\ s \notin used
                                       /\ snaps[s].status # "none" /\ Old(snaps[s].done)}
  <2>1. /\ closes' = [k \in Cutoffs |-> IF k \in goneCloses THEN NoClose ELSE closes[k]]
        /\ snaps' = [s \in Gen |-> IF s \in goneSnaps
                                   THEN [NoSnap EXCEPT !.status = "deleted"] ELSE snaps[s]]
    BY <1>4, Zenon DEF Purge
  <2>2. c \notin goneCloses
    <3>1. NoClose.status = "none"
      BY DEF NoClose
    <3> HIDE DEF goneCloses
    <3>2. QED
      BY <1>4, <2>1, <3>1
  <2>3. g \in used
    BY <2>2
  <2>4. g \notin goneSnaps
    BY <2>3
  <2> HIDE DEF goneSnaps
  <2>5. QED
    BY <1>1, <2>1, <2>4
<1>5. SnapsSame => snaps'[g] = snaps[g]
  BY DEF SnapsSame
<1>6. QED
  BY <1>1, <1>2, <1>3, <1>4, <1>5, SnapSteps
\* A close that a step leaves alone stays right.
LEMMA CloseStays ==
  ASSUME FleetInv, [Next]_vars, NEW c \in Cutoffs, closes'[c] = closes[c]
  PROVE  /\ CloseOk(c)'
         /\ closes[c].status # "none" => snaps'[closes[c].gen] = snaps[closes[c].gen]
<1>1. CloseOk(c) /\ receipts \subseteq receipts'
  BY PartsOfInv, Growth DEF ClosesTrue
<1>2. closes[c].status # "none" => snaps'[closes[c].gen] = snaps[closes[c].gen]
  BY CompleteStays
<1>3. closes[c].status # "none" => CloseTrue(c)'
  BY <1>1, <1>2 DEF CloseOk, CloseTrue, EvidenceFor, Complete
<1>4. QED
  BY <1>1, <1>2, <1>3 DEF CloseOk

\* What a page of entries is read from.
LEMMA BatchStays ==
  ASSUME FleetInv, [Next]_vars, NEW b \in batches,
         closes'[b.c].status # "none" => closes[b.c].status # "none"
           /\ closes'[b.c].gen = closes[b.c].gen
           /\ snaps'[closes[b.c].gen] = snaps[closes[b.c].gen]
  PROVE  closes'[b.c].status # "none" => b.rows \subseteq snaps'[closes'[b.c].gen].entries
<1>1. closes[b.c].status # "none" => b.rows \subseteq snaps[closes[b.c].gen].entries
  BY PartsOfInv DEF ClosesTrue
<1>2. QED
  BY <1>1

\* Every step keeps the closes right.
LEMMA ClosesTrueStep ==
  ASSUME FleetInv, [Next]_vars
  PROVE  ClosesTrue'
<1>1. /\ Types /\ ClosesTrue /\ receipts \subseteq receipts'
      /\ closes \in [Cutoffs -> CloseRec] /\ \A b \in batches : b.c \in Cutoffs
      /\ \A c \in Cutoffs : CloseOk(c)
  BY PartsOfInv, Growth DEF Types, CatalogTypes, BatchRec, ClosesTrue
<1>2. ASSUME NEW c \in Cutoffs, \A k \in Cutoffs : k # c => closes'[k] = closes[k],
             CloseOk(c)',
             closes'[c].status # "none" => closes[c].status # "none"
               /\ closes'[c].gen = closes[c].gen
               /\ snaps'[closes[c].gen] = snaps[closes[c].gen],
             batches' \subseteq batches
      PROVE  ClosesTrue'
  <2>1. \A k \in Cutoffs : CloseOk(k)'
    BY <1>2, CloseStays
  <2>2. ASSUME NEW b \in batches'
        PROVE  closes'[b.c].status # "none" => b.rows \subseteq snaps'[closes'[b.c].gen].entries
    <3>1. b \in batches /\ b.c \in Cutoffs
      BY <1>1, <1>2
    <3>2. CASE b.c = c
      BY <1>2, <3>1, <3>2, BatchStays
    <3>3. CASE b.c # c
      <4>1. closes'[b.c] = closes[b.c]
        BY <1>2, <3>1, <3>3
      <4>2. closes[b.c].status # "none" => snaps'[closes[b.c].gen] = snaps[closes[b.c].gen]
        BY <3>1, <4>1, CloseStays
      <4>3. QED
        BY <3>1, <4>1, <4>2, BatchStays
    <3>4. QED
      BY <3>2, <3>3
  <2>3. QED
    BY <2>1, <2>2 DEF ClosesTrue
<1>3. ASSUME UNCHANGED closes, NEW new,
             \A b \in batches' : b \in batches \/ b = new,
             closes[new.c].status # "none" => new.rows \subseteq snaps'[closes[new.c].gen].entries
      PROVE  ClosesTrue'
  <2>1. \A k \in Cutoffs : CloseOk(k)'
    BY <1>3, CloseStays
  <2>2. ASSUME NEW b \in batches'
        PROVE  closes'[b.c].status # "none" => b.rows \subseteq snaps'[closes'[b.c].gen].entries
    <3>1. CASE b \in batches
      <4>1. closes[b.c].status # "none" => snaps'[closes[b.c].gen] = snaps[closes[b.c].gen]
        BY <1>1, <1>3, <3>1, CloseStays
      <4>2. QED
        BY <1>3, <3>1, <4>1, BatchStays
    <3>2. CASE b = new
      BY <1>3, <3>2
    <3>3. QED
      BY <1>3, <3>1, <3>2
  <2>3. QED
    BY <2>1, <2>2 DEF ClosesTrue
<1>4. ASSUME UNCHANGED closes, batches' \subseteq batches PROVE ClosesTrue'
  <2>1. \A k \in Cutoffs : CloseOk(k)'
    BY <1>4, CloseStays
  <2>2. ASSUME NEW b \in batches'
        PROVE  closes'[b.c].status # "none" => b.rows \subseteq snaps'[closes'[b.c].gen].entries
    <3>1. b \in batches /\ b.c \in Cutoffs
      BY <1>1, <1>4
    <3>2. closes[b.c].status # "none" => snaps'[closes[b.c].gen] = snaps[closes[b.c].gen]
      BY <1>4, <3>1, CloseStays
    <3>3. QED
      BY <1>4, <3>1, <3>2, BatchStays
  <2>3. QED
    BY <2>1, <2>2 DEF ClosesTrue
<1>5. CASE ClosesSame
  BY <1>4, <1>5 DEF ClosesSame
<1>6. ASSUME NEW c \in Cutoffs, NEW g \in Gen, BeginClose(c, g) PROVE ClosesTrue'
  <2> DEFINE n == [NoClose EXCEPT !.status = "pending", !.gen = g, !.upd = now,
                     !.total = Cardinality(snaps[g].entries)]
  <2>1. closes' = [closes EXCEPT ![c] = n] /\ UNCHANGED <<snaps, batches>>
    BY <1>6, Zenon DEF BeginClose
  <2>2. /\ n.status = "pending" /\ n.gen = g /\ n.listed = {} /\ n.sealed = {} /\ n.root = {}
        /\ n.total = Cardinality(snaps[g].entries)
    BY DEF NoClose
  <2> HIDE DEF n
  <2>3. closes'[c] = n /\ \A k \in Cutoffs : k # c => closes'[k] = closes[k]
    BY <1>1, <2>1
  <2>4. Complete(g) /\ snaps[g].cutoff = c /\ \A b \in batches : b.c # c
    BY <1>6 DEF BeginClose, OfCutoff
  <2>5. CloseOk(c)'
    BY <2>1, <2>2, <2>3, <2>4 DEF CloseOk, CloseTrue, Complete
  <2>6. \A k \in Cutoffs : CloseOk(k)'
    BY <2>3, <2>5, CloseStays
  <2>7. \A b \in batches : closes'[b.c] = closes[b.c]
    BY <1>1, <2>3, <2>4
  <2>8. \A b \in batches' :
          closes'[b.c].status # "none" => b.rows \subseteq snaps'[closes'[b.c].gen].entries
    BY <1>1, <2>1, <2>7 DEF ClosesTrue
  <2>9. QED
    BY <2>6, <2>8 DEF ClosesTrue
<1>7. ASSUME NEW c \in Cutoffs, ReadBatch(c) PROVE ClosesTrue'
  <2> DEFINE rows == FirstRows({e \in snaps[closes[c].gen].entries :
                                  e.seq > closes[c].cursor}, PageSize)
             n == [c |-> c, cursor |-> closes[c].cursor, rows |-> rows]
  <2>1. batches' = batches \cup {n} /\ UNCHANGED <<closes, snaps>>
    BY <1>7, Zenon DEF ReadBatch
  <2>2. rows \subseteq snaps[closes[c].gen].entries
    BY DEF FirstRows
  <2> HIDE DEF rows
  <2>3. n.c = c /\ n.rows = rows
    OBVIOUS
  <2> HIDE DEF n
  <2>4. \A b \in batches' : b \in batches \/ b = n
    BY <2>1
  <2>5. n.rows \subseteq snaps'[closes[n.c].gen].entries
    BY <2>1, <2>2, <2>3
  <2>6. QED
    BY <1>3, <2>1, <2>4, <2>5
<1>8. ASSUME NEW c \in Cutoffs, NEW e \in closes[c].listed, NEW r \in receipts,
             RecordReceipt(c, e, r)
      PROVE  ClosesTrue'
  <2> DEFINE s == [seq |-> e.seq, receipt |-> r]
             n == [closes[c] EXCEPT !.sealed = @ \cup {s}, !.count = @ + 1, !.upd = now]
  <2>1. closes' = [closes EXCEPT ![c] = n] /\ UNCHANGED <<snaps, batches, receipts>>
          /\ r.cutoff = c /\ r.b = e.b
    BY <1>8, Zenon DEF RecordReceipt, bucketVars
  <2>2. s.seq = e.seq /\ s.receipt = r
    OBVIOUS
  <2> HIDE DEF s
  <2>3. /\ n.status = closes[c].status /\ n.gen = closes[c].gen /\ n.listed = closes[c].listed
        /\ n.total = closes[c].total /\ n.root = closes[c].root
        /\ n.sealed = closes[c].sealed \cup {s}
    BY <1>1 DEF CloseRec
  <2> HIDE DEF n
  <2>4. closes'[c] = n /\ \A k \in Cutoffs : k # c => closes'[k] = closes[k]
    BY <1>1, <2>1
  <2>5. closes[c].status # "none" /\ CloseTrue(c)
    BY <1>1 DEF CloseOk
  <2>6. \A x \in n.sealed : EvidenceFor(c, x)'
    BY <1>8, <2>1, <2>2, <2>3, <2>4, <2>5 DEF CloseTrue, EvidenceFor
  <2>7. CloseTrue(c)'
    BY <2>1, <2>3, <2>4, <2>5, <2>6 DEF CloseTrue, Complete
  <2>8. CloseOk(c)'
    BY <1>1, <2>3, <2>4, <2>5, <2>7 DEF CloseOk
  <2>9. QED
    BY <1>2, <2>1, <2>3, <2>4, <2>5, <2>8
<1>9. ASSUME NEW c \in Cutoffs, ReadReceipts(c) PROVE ClosesTrue'
  BY <1>4, <1>9 DEF ReadReceipts
<1>10. ASSUME NEW b \in batches, StoreBatch(b) PROVE ClosesTrue'
  <2> DEFINE n == [closes[b.c] EXCEPT !.listed = @ \cup b.rows,
                     !.cursor = LastSeq(b.rows, closes[b.c].cursor), !.upd = now]
  <2>1. /\ \/ closes' = closes
           \/ closes[b.c].status # "none" /\ closes' = [closes EXCEPT ![b.c] = n]
        /\ UNCHANGED snaps /\ batches' \subseteq batches
    <3>1. \/ closes' = closes
          \/ closes[b.c].status # "none" /\ closes' = [closes EXCEPT ![b.c] = n]
      BY <1>10, Zenon DEF StoreBatch
    <3>2. UNCHANGED snaps /\ batches' \subseteq batches
      BY <1>10 DEF StoreBatch
    <3>3. QED
      BY <3>1, <3>2
  <2>2. /\ n.status = closes[b.c].status /\ n.gen = closes[b.c].gen /\ n.sealed = closes[b.c].sealed
        /\ n.total = closes[b.c].total /\ n.root = closes[b.c].root
        /\ n.listed = closes[b.c].listed \cup b.rows
    BY <1>1 DEF CloseRec
  <2> HIDE DEF n
  <2>3. CASE closes' = closes
    BY <1>4, <2>1, <2>3
  <2>4. CASE closes[b.c].status # "none" /\ closes' = [closes EXCEPT ![b.c] = n]
    <3>1. closes'[b.c] = n /\ \A k \in Cutoffs : k # b.c => closes'[k] = closes[k]
      BY <1>1, <2>4
    <3>2. CloseTrue(b.c) /\ b.rows \subseteq snaps[closes[b.c].gen].entries
      BY <1>1, <2>4 DEF CloseOk, ClosesTrue
    <3>3. \A s \in n.sealed : EvidenceFor(b.c, s)'
      BY <1>1, <2>2, <3>1, <3>2 DEF CloseTrue, EvidenceFor
    <3>4. CloseTrue(b.c)'
      BY <2>1, <2>2, <3>1, <3>2, <3>3 DEF CloseTrue, Complete
    <3>5. CloseOk(b.c)'
      BY <1>1, <2>2, <2>4, <3>1, <3>4 DEF CloseOk
    <3>6. QED
      BY <1>1, <1>2, <2>1, <2>2, <2>4, <3>1, <3>5
  <2>5. QED
    BY <2>1, <2>3, <2>4
<1>11. ASSUME NEW r \in roots, PublishRoot(r) PROVE ClosesTrue'
  <2> DEFINE n == [closes[r.c] EXCEPT !.status = "complete", !.root = r.sealed, !.upd = now]
  <2>1. /\ \/ closes' = closes
           \/ closes[r.c].status = "pending" /\ closes' = [closes EXCEPT ![r.c] = n]
        /\ UNCHANGED <<snaps, batches>> /\ r.c \in Cutoffs
    <3>1. r.c \in Cutoffs
      BY <1>1 DEF Types, CatalogTypes, RootRec
    <3>2. \/ closes' = closes
          \/ closes[r.c].status = "pending" /\ closes' = [closes EXCEPT ![r.c] = n]
      BY <1>11, Zenon DEF PublishRoot
    <3>3. QED
      BY <1>11, <3>1, <3>2 DEF PublishRoot
  <2>2. /\ n.status = "complete" /\ n.gen = closes[r.c].gen /\ n.sealed = closes[r.c].sealed
        /\ n.total = closes[r.c].total /\ n.listed = closes[r.c].listed
    BY <1>1, <2>1 DEF CloseRec
  <2> HIDE DEF n
  <2>3. CASE closes' = closes
    BY <1>4, <2>1, <2>3
  <2>4. CASE closes[r.c].status = "pending" /\ closes' = [closes EXCEPT ![r.c] = n]
    <3>1. closes'[r.c] = n /\ \A k \in Cutoffs : k # r.c => closes'[k] = closes[k]
      BY <1>1, <2>1, <2>4
    <3>2. CloseTrue(r.c)
      BY <1>1, <2>1, <2>4 DEF CloseOk
    <3>3. CloseTrue(r.c)'
      BY <1>1, <2>1, <2>2, <3>1, <3>2 DEF CloseTrue, Complete, EvidenceFor
    <3>4. CloseOk(r.c)'
      BY <2>2, <3>1, <3>3 DEF CloseOk
    <3>5. QED
      BY <1>2, <2>1, <2>2, <2>4, <3>1, <3>4
  <2>5. QED
    BY <2>1, <2>3, <2>4
<1>12. CASE Purge
  <2>1. \A c \in Cutoffs : closes'[c] = closes[c] \/ closes'[c] = NoClose
    BY <1>12 DEF Purge
  <2>2. NoClose.status = "none" /\ NoClose.listed = {} /\ NoClose.sealed = {} /\ NoClose.root = {}
    BY DEF NoClose
  <2>3. \A c \in Cutoffs : CloseOk(c)'
    BY <2>1, <2>2, CloseStays DEF CloseOk
  <2>4. UNCHANGED batches
    BY <1>12 DEF Purge
  <2>5. ASSUME NEW b \in batches'
        PROVE  closes'[b.c].status # "none" => b.rows \subseteq snaps'[closes'[b.c].gen].entries
    <3>1. b \in batches /\ b.c \in Cutoffs
      BY <1>1, <2>4
    <3>2. closes'[b.c].status # "none" => closes'[b.c] = closes[b.c]
      BY <2>1, <2>2, <3>1
    <3>3. closes'[b.c].status # "none" => snaps'[closes[b.c].gen] = snaps[closes[b.c].gen]
      BY <3>1, <3>2, CloseStays
    <3>4. QED
      BY <3>1, <3>2, <3>3, BatchStays
  <2>6. QED
    BY <2>3, <2>5 DEF ClosesTrue
<1>13. QED
  BY <1>5, <1>6, <1>7, <1>8, <1>9, <1>10, <1>11, <1>12, CloseSteps
-----------------------------------------------------------------------------
(* Roots: the evidence under a root names the whole log up to the cutoff.  *)

\* A complete close keeps its root; a close becomes complete with the evidence
\* that a call has read.
LEMMA RootStays ==
  ASSUME FleetInv, [Next]_vars, NEW c \in Cutoffs, closes'[c].status = "complete"
  PROVE  \/ closes[c].status = "complete" /\ closes'[c].root = closes[c].root
         \/ \E r \in roots :
              /\ PublishRoot(r) /\ r.c = c
              /\ closes[c].status = "pending" /\ closes'[c].root = r.sealed
<1>1. /\ closes \in [Cutoffs -> CloseRec]
      /\ \A b \in batches : b.c \in Cutoffs
      /\ \A r \in roots : r.c \in Cutoffs
  BY PartsOfInv DEF Types, CatalogTypes, BatchRec, RootRec
<1>2. CASE closes'[c] = closes[c]
  BY <1>2
<1>3. ASSUME NEW k \in Cutoffs, NEW g \in Gen, BeginClose(k, g) PROVE closes'[c] = closes[c]
  <2> DEFINE n == [NoClose EXCEPT !.status = "pending", !.gen = g, !.upd = now,
                     !.total = Cardinality(snaps[g].entries)]
  <2>1. closes' = [closes EXCEPT ![k] = n]
    BY <1>3, Zenon DEF BeginClose
  <2>2. n.status = "pending"
    BY DEF NoClose
  <2> HIDE DEF n
  <2>3. QED
    BY <1>1, <2>1, <2>2
<1>4. ASSUME NEW k \in Cutoffs, NEW e \in closes[k].listed, NEW r \in receipts,
             RecordReceipt(k, e, r)
      PROVE  closes[c].status = "complete" /\ closes'[c].root = closes[c].root
  <2> DEFINE n == [closes[k] EXCEPT !.sealed = @ \cup {[seq |-> e.seq, receipt |-> r]},
                     !.count = @ + 1, !.upd = now]
  <2>1. closes' = [closes EXCEPT ![k] = n]
    BY <1>4, Zenon DEF RecordReceipt
  <2>2. n.status = closes[k].status /\ n.root = closes[k].root
    BY <1>1 DEF CloseRec
  <2> HIDE DEF n
  <2>3. QED
    BY <1>1, <2>1, <2>2
<1>5. ASSUME NEW b \in batches, StoreBatch(b)
      PROVE  closes[c].status = "complete" /\ closes'[c].root = closes[c].root
  <2> DEFINE n == [closes[b.c] EXCEPT !.listed = @ \cup b.rows,
                     !.cursor = LastSeq(b.rows, closes[b.c].cursor), !.upd = now]
  <2>1. closes' = closes \/ closes' = [closes EXCEPT ![b.c] = n]
    BY <1>5, Zenon DEF StoreBatch
  <2>2. n.status = closes[b.c].status /\ n.root = closes[b.c].root
    BY <1>1 DEF CloseRec
  <2> HIDE DEF n
  <2>3. QED
    BY <1>1, <2>1, <2>2
<1>6. ASSUME NEW r \in roots, PublishRoot(r)
      PROVE  \/ closes'[c] = closes[c]
             \/ r.c = c /\ closes[c].status = "pending" /\ closes'[c].root = r.sealed
  <2> DEFINE n == [closes[r.c] EXCEPT !.status = "complete", !.root = r.sealed, !.upd = now]
  <2>1. \/ closes' = closes
        \/ closes[r.c].status = "pending" /\ closes' = [closes EXCEPT ![r.c] = n]
    BY <1>6, Zenon DEF PublishRoot
  <2>2. n.root = r.sealed
    BY <1>1 DEF CloseRec
  <2> HIDE DEF n
  <2>3. QED
    BY <1>1, <2>1, <2>2
<1>7. CASE Purge
  <2>1. closes'[c] = closes[c] \/ closes'[c] = NoClose
    BY <1>7 DEF Purge
  <2>2. QED
    BY <1>2, <2>1 DEF NoClose
<1>8. UNCHANGED closes => closes'[c] = closes[c]
  OBVIOUS
<1>9. QED
  BY <1>2, <1>3, <1>4, <1>5, <1>6, <1>7, <1>8, CloseSteps DEF ClosesSame, ReadBatch, ReadReceipts

\* The evidence that finalizeClose reads names the whole log up to the cutoff:
\* every bucket of the snapshot has its receipt, and the others are closed.
LEMMA ReadIsRooted ==
  ASSUME FleetInv, NEW c \in Cutoffs, ReadReceipts(c),
         NEW S, S = closes[c].sealed
  PROVE  Rooted(c, S)
<1> DEFINE g == closes[c].gen
           entries == snaps[g].entries
<1>1. /\ Types /\ SnapsTrue /\ ClosesTrue /\ ReceiptsTrue /\ SnapsCover
      /\ c \in Nat
      /\ \A d \in log : d.b \in Bucket /\ d.at \in Nat
      /\ \A b \in Bucket : bucket[b].floor \in Nat
  BY PartsOfInv, FleetAssumption DEF Types, ClientTypes, BucketRec, Time
<1>2. /\ g \in Gen /\ Complete(g) /\ snaps[g].cutoff = c
      /\ closes[c].listed \subseteq entries
      /\ closes[c].total = Cardinality(entries)
      /\ \A s \in S : EvidenceFor(c, s)
  BY <1>1 DEF ReadReceipts, ClosesTrue, CloseOk, CloseTrue
<1>3. /\ IsFiniteSet(entries) /\ SameSeqs(entries)
      /\ snaps[g].live = entries
  BY <1>1, <1>2, CompleteIsFinite DEF SnapsTrue
<1>4. closes[c].listed = entries
  BY <1>2, <1>3, FS_Subset DEF ReadReceipts, AllSealed
<1>5. ASSUME NEW e \in entries
      PROVE  \E s \in S : /\ s.receipt \in receipts /\ s.receipt.cutoff = c
                          /\ s.receipt.b = e.b
  <2>1. PICK s \in S : s.seq = e.seq
    BY <1>4 DEF ReadReceipts, AllSealed, Pending
  <2>2. PICK f \in entries : f.seq = s.seq /\ f.b = s.receipt.b
    BY <1>2, <1>4 DEF EvidenceFor
  <2>3. f = e
    BY <1>3, <2>1, <2>2 DEF SameSeqs
  <2>4. QED
    BY <1>2, <2>2, <2>3 DEF EvidenceFor
<1>6. /\ meta.floor >= c
      /\ \A b \in Bucket : \/ \E e \in entries : e.b = b
                           \/ ClosedAt(c, b) /\ \A d \in log : d.b = b => d.at > c
  BY <1>1, <1>2, <1>3 DEF SnapsCover, Held, Complete
<1> HIDE DEF entries, g
<1>7. ASSUME NEW b \in Bucket PROVE ClosedAt(c, b)
  <2>1. CASE \E e \in entries : e.b = b
    <3>1. PICK s \in S : s.receipt \in receipts /\ s.receipt.cutoff = c /\ s.receipt.b = b
      BY <1>5, <2>1
    <3>2. bucket[b].floor >= c
      BY <1>1, <3>1 DEF ReceiptsTrue
    <3>3. QED
      BY <3>2 DEF ClosedAt
  <2>2. QED
    BY <1>6, <2>1
<1>8. ASSUME NEW d \in log, d.at <= c PROVE \E s \in S : d \in s.receipt.members
  <2>1. \E e \in entries : e.b = d.b
    BY <1>1, <1>6, <1>8
  <2>2. PICK s \in S : s.receipt \in receipts /\ s.receipt.cutoff = c /\ s.receipt.b = d.b
    BY <1>5, <2>1
  <2>3. QED
    BY <1>1, <1>8, <2>2 DEF ReceiptsTrue
<1>9. \A s \in S : s.receipt \in receipts /\ s.receipt.cutoff = c
  BY <1>2 DEF EvidenceFor
<1>10. QED
  BY <1>6, <1>7, <1>8, <1>9 DEF Rooted

\* Evidence that names the whole log up to a cutoff goes on to do so.
LEMMA RootedStays ==
  ASSUME FleetInv, [Next]_vars, NEW c \in Cutoffs, NEW S, Rooted(c, S)
  PROVE  Rooted(c, S)'
<1>1. /\ Types /\ c \in Nat /\ \A d \in log' : d.b \in Bucket /\ d.at \in Nat
  BY PartsOfInv, TypesStep, FleetAssumption DEF Types, ClientTypes, Time
<1>2. /\ meta.floor >= c /\ meta'.floor >= c
      /\ \A s \in S : s.receipt \in receipts' /\ s.receipt.cutoff = c
  BY <1>1, Growth DEF Rooted
<1>3. \A b \in Bucket : ClosedAt(c, b)' /\ \A d \in log' \ log : d.b = b => d.at > c
  BY <1>1, <1>2, ClosedStays DEF Rooted
<1>4. \A d \in log' : d.at <= c => \E s \in S : d \in s.receipt.members
  BY <1>1, <1>3 DEF Rooted
<1>5. QED
  BY <1>2, <1>3, <1>4 DEF Rooted

\* What a step does to the calls that await the hash of a root.
LEMMA RootSteps ==
  ASSUME [Next]_vars, NEW r \in roots', r \notin roots
  PROVE  \E c \in Cutoffs : ReadReceipts(c) /\ r.c = c /\ r.sealed = closes[c].sealed
<1>1. ~ClosesSame
  BY DEF ClosesSame
<1>2. /\ \A c \in Cutoffs, g \in Gen : BeginClose(c, g) => roots' = roots
      /\ \A c \in Cutoffs : ReadBatch(c) => roots' = roots
      /\ \A c \in Cutoffs : \A e \in closes[c].listed, x \in receipts :
           RecordReceipt(c, e, x) => roots' = roots
      /\ \A b \in batches : StoreBatch(b) => roots' = roots
      /\ \A x \in roots : PublishRoot(x) => roots' \subseteq roots
      /\ Purge => roots' = roots
  BY DEF BeginClose, ReadBatch, RecordReceipt, StoreBatch, PublishRoot, Purge
<1>3. PICK c \in Cutoffs : ReadReceipts(c)
  BY <1>1, <1>2, CloseSteps
<1>4. QED
  BY <1>3 DEF ReadReceipts

\* Every step keeps the roots whole.
LEMMA RootsTrueStep ==
  ASSUME FleetInv, [Next]_vars
  PROVE  RootsTrue'
<1>1. RootsTrue /\ \A r \in roots : r.c \in Cutoffs
  BY PartsOfInv DEF Types, CatalogTypes, RootRec
<1>2. ASSUME NEW r \in roots' PROVE Rooted(r.c, r.sealed)'
  <2>1. CASE r \in roots
    BY <1>1, <2>1, RootedStays DEF RootsTrue
  <2>2. CASE r \notin roots
    <3>1. PICK c \in Cutoffs : ReadReceipts(c) /\ r.c = c /\ r.sealed = closes[c].sealed
      BY <1>2, <2>2, RootSteps
    <3>2. Rooted(c, r.sealed)
      BY <3>1, ReadIsRooted
    <3>3. QED
      BY <3>1, <3>2, RootedStays
  <2>3. QED
    BY <2>1, <2>2
<1>3. ASSUME NEW c \in Cutoffs, closes'[c].status = "complete"
      PROVE  \A S : S = closes'[c].root => Rooted(c, S)'
  <2> SUFFICES ASSUME NEW S, S = closes'[c].root PROVE Rooted(c, S)'
    OBVIOUS
  <2>1. CASE closes[c].status = "complete" /\ S = closes[c].root
    <3>1. Rooted(c, S)
      BY <1>1, <2>1 DEF RootsTrue, Rooted
    <3>2. QED
      BY <3>1, RootedStays
  <2>2. ASSUME NEW r \in roots, r.c = c, S = r.sealed PROVE Rooted(c, S)'
    <3>1. Rooted(c, S)
      BY <1>1, <2>2 DEF RootsTrue
    <3>2. QED
      BY <3>1, RootedStays
  <2>3. QED
    BY <1>3, <2>1, <2>2, RootStays
<1>4. ASSUME NEW c \in Cutoffs, closes'[c].status = "complete"
      PROVE  Rooted(c, closes[c].root)'
  <2>1. PICK S : S = closes'[c].root
    OBVIOUS
  <2>2. Rooted(c, S)'
    BY <1>3, <1>4, <2>1
  <2>3. QED
    BY <2>1, <2>2 DEF Rooted
<1>5. QED
  BY <1>2, <1>4 DEF RootsTrue
-----------------------------------------------------------------------------
(* The invariant, and what it says of the catalog.                         *)

\* Before anything is reserved, snapped or closed there is nothing to lose.
LEMMA InitClose == Init => CloseInv
<1> SUFFICES ASSUME Init PROVE CloseInv
  OBVIOUS
<1>1. NoSnap.status = "none" /\ NoClose.status = "none" /\ NoClose.listed = {}
        /\ NoClose.sealed = {} /\ NoClose.root = {}
  BY DEF NoSnap, NoClose
<1>2. /\ \A g \in Gen : snaps[g] = NoSnap
      /\ \A c \in Cutoffs : closes[c] = NoClose
      /\ \A t \in Txs : tx[t].st = "new"
      /\ roots = {} /\ batches = {} /\ requests = {} /\ log = {} /\ receipts = {}
  BY DEF Init
<1>3. UsedIsActive
  BY <1>2 DEF UsedIsActive
<1>4. ClosesTrue
  BY <1>1, <1>2 DEF ClosesTrue, CloseOk
<1>5. ReceiptsTrue
  BY <1>2 DEF ReceiptsTrue
<1>6. SnapsCover
  BY <1>1, <1>2 DEF SnapsCover, Held
<1>7. RootsTrue
  BY <1>1, <1>2 DEF RootsTrue
<1>8. QED
  BY <1>3, <1>4, <1>5, <1>6, <1>7 DEF CloseInv

\* Every step keeps every part of the invariant.
LEMMA FleetInvStep ==
  ASSUME FleetInv, [Next]_vars
  PROVE  FleetInv'
<1>1. /\ Types /\ CoverageInv /\ RowsTrue /\ SnapsTrue /\ PagesTrue /\ ClosesTrue
  BY PartsOfInv
<1>2. Types' /\ CoverageInv'
  BY <1>1, TypesStep, LegacyStep, FloorsStep DEF CoverageInv
<1>3. SnapInv'
  BY <1>1, RowsTrueStep, SnapsTrueStep, PagesTrueStep DEF SnapInv
<1>4. CloseInv'
  BY UsedIsActiveStep, ClosesTrueStep, ReceiptsTrueStep, SnapsCoverStep, RootsTrueStep
     DEF CloseInv
<1>5. QED
  BY <1>2, <1>3, <1>4 DEF FleetInv

\* The inductive invariant of the catalog, its closes and its buckets.
THEOREM FleetSafe == Spec => []FleetInv
<1>1. Init => FleetInv
  BY InitTypes, InitCoverage, InitSnaps, InitClose DEF FleetInv
<1>2. FleetInv /\ [Next]_vars => FleetInv'
  BY FleetInvStep
<1>3. QED
  BY <1>1, <1>2, PTL DEF Spec

\* Everything the catalog stores has its shape, and the evidence of a close
\* is made of receipts that buckets have issued.
THEOREM FleetTypes == Spec => []FleetTypeOK
<1>1. FleetInv => FleetTypeOK
  <2> SUFFICES ASSUME FleetInv PROVE FleetTypeOK
    OBVIOUS
  <2>1. Types /\ ClosesTrue /\ RootsTrue
    BY PartsOfInv
  <2>2. /\ now \in Time
        /\ meta \in [floor : Nat, seq : Nat, gen : Gen \cup {0}, required : Nat,
                     admitted : Nat, grid : Nat, scanned : Nat]
        /\ active \in [Bucket -> [seq : Nat, retired : BOOLEAN]]
        /\ history \subseteq [seq : Event, b : Bucket, until : Nat, at : Nat]
    BY <2>1, FleetAssumption
       DEF Types, CatalogTypes, MetaRec, ActiveRec, Row, Gen
  <2>3. \A g \in Gen :
          /\ snaps[g].status \in {"none", "BUILDING", "COMPLETE", "deleted"}
          /\ snaps[g].entries \subseteq Entry /\ snaps[g].live \subseteq Entry
    BY <2>1 DEF Types, CatalogTypes, SnapRec
  <2>4. ASSUME NEW c \in Cutoffs
        PROVE  /\ closes[c].status \in {"none", "pending", "complete"}
               /\ closes[c].gen \in Gen \cup {0}
               /\ closes[c].sealed \subseteq Evidence /\ closes[c].root \subseteq Evidence
    BY <2>1, <2>4, FleetAssumption DEF Types, CatalogTypes, CloseRec, Gen
  <2>5. ASSUME NEW c \in Cutoffs, NEW e \in closes[c].sealed \cup closes[c].root
        PROVE  e.seq \in Event /\ e.receipt \in receipts
    <3>1. e \in Evidence
      BY <2>4, <2>5
    <3>2. e.seq \in Event
      BY <3>1 DEF Evidence
    <3>3. CloseOk(c)
      BY <2>1 DEF ClosesTrue
    <3>4. CASE e \in closes[c].sealed
      BY <3>2, <3>3, <3>4 DEF CloseOk, CloseTrue, EvidenceFor
    <3>5. CASE e \in closes[c].root
      BY <2>1, <3>2, <3>3, <3>5 DEF CloseOk, RootsTrue, Rooted
    <3>6. QED
      BY <2>5, <3>4, <3>5
  <2>6. /\ \A e \in log : e.tx \in Txs /\ e.b \in Bucket /\ e.at \in Time
        /\ tx \in [Txs -> [st : {"new", "routed", "reserved", "done"}, b : Bucket]]
        /\ requests \subseteq [tx : Txs, floor : Nat]
        /\ admitted \subseteq [b : Bucket, at : Nat]
    BY <2>1 DEF Types, ClientTypes, TxRec
  <2>7. QED
    BY <2>2, <2>3, <2>4, <2>5, <2>6 DEF FleetTypeOK
<1>2. QED
  BY <1>1, FleetSafe, PTL

\* The coverage boundary separates the protocols: no V1 decision, registered or
\* on its way, is at or past it, and no V2 decision before it.
THEOREM Coverage == Spec => []CoverageIsSound
<1>1. FleetInv => CoverageIsSound
  <2> SUFFICES ASSUME FleetInv, meta.required # 0
               PROVE  /\ \A b \in Bucket : \A at \in bucket[b].v1 : at < meta.required
                      /\ \A a \in admitted : a.at < meta.required
                      /\ \A d \in log : d.at >= meta.required
    BY DEF CoverageIsSound
  <2>1. Types /\ LegacyIsBehind /\ FloorsAtBoundary
    BY PartsOfInv
  <2>2. /\ meta.admitted \in Nat /\ meta.required \in Nat
        /\ \A b \in Bucket : bucket[b].v1 \subseteq Nat
        /\ \A a \in admitted : a.at \in Nat
    BY <2>1 DEF Types, CatalogTypes, ClientTypes, MetaRec, BucketRec
  <2>3. QED
    BY <2>1, <2>2 DEF LegacyIsBehind, FloorsAtBoundary
<1>2. QED
  BY <1>1, FleetSafe, PTL

\* A complete snapshot is its fence: neither the pages nor the calls that
\* overlap, nor retention, lose an activation or add one.
THEOREM SnapshotTrue == Spec => []SnapshotIsTheFence
<1>1. FleetInv => SnapshotIsTheFence
  BY PartsOfInv DEF SnapsTrue, SnapshotIsTheFence
<1>2. QED
  BY <1>1, FleetSafe, PTL
-----------------------------------------------------------------------------
(* The fleet is one sealed log.                                            *)

\* The members of a complete close are the log up to its cutoff.
LEMMA MembersAreTheLog ==
  ASSUME FleetInv, NEW c \in Cutoffs, NEW S, Rooted(c, S)
  PROVE  UNION {s.receipt.members : s \in S} = {d \in log : d.at <= c}
<1>1. ReceiptsTrue /\ \A s \in S : s.receipt \in receipts /\ s.receipt.cutoff = c
  BY PartsOfInv DEF Rooted
<1>2. \A s \in S : \A d \in s.receipt.members : d \in log /\ d.at <= c
  BY <1>1 DEF ReceiptsTrue
<1>3. \A d \in log : d.at <= c => \E s \in S : d \in s.receipt.members
  BY DEF Rooted
<1>4. QED
  BY <1>2, <1>3

\* A seal of the fleet, one by one.
LEMMA SealOf ==
  ASSUME FleetInv
  PROVE  \A x : x \in FleetSeals <=>
           \E c \in Cutoffs :
             /\ closes[c].status = "complete"
             /\ x = [cutoff |-> c, members |-> UNION {s.receipt.members : s \in closes[c].root}]
  BY DEF FleetSeals

\* A decision is later than every seal, a root that is published seals the log
\* up to its cutoff, and retention only forgets.
LEMMA StepOfLog ==
  ASSUME FleetInv, [Next]_vars
  PROVE  [Fleet!LogNext]_(Fleet!logVars)
<1>1. /\ Types /\ Types' /\ RootsTrue /\ FleetInv' /\ Cutoffs \subseteq Nat
      /\ \A d \in log' : d.b \in Bucket /\ d.at \in Nat
  BY PartsOfInv, TypesStep, FleetInvStep, FleetAssumption DEF Types, ClientTypes, Time
<1>2. \A x \in FleetSeals : \E c \in Cutoffs :
        /\ closes[c].status = "complete"
        /\ x = [cutoff |-> c, members |-> UNION {s.receipt.members : s \in closes[c].root}]
  BY DEF FleetSeals
<1>3. ASSUME UNCHANGED closes, log' # log,
             NEW t \in Txs, NEW at \in Time, Decide(t, at)
      PROVE  Fleet!LogNext
  <2> DEFINE e == [tx |-> t, b |-> tx[t].b, at |-> at]
  <2>1. log' = log \cup {e} /\ e.at = at
    BY <1>3 DEF Decide
  <2> HIDE DEF e
  <2>2. e \in log' \ log /\ e.at \in Nat /\ e.b \in Bucket
    BY <1>1, <1>3, <2>1
  <2>3. ASSUME NEW x \in FleetSeals PROVE e.at > x.cutoff
    <3>1. PICK c \in Cutoffs : closes[c].status = "complete" /\ x.cutoff = c
      BY <1>2
    <3>2. meta.floor >= c /\ c \in Nat /\ ClosedAt(c, e.b)
      BY <1>1, <2>2, <3>1 DEF RootsTrue, Rooted
    <3>3. e.at > c
      BY <2>2, <3>2, ClosedStays
    <3>4. QED
      BY <3>1, <3>3
  <2>4. UNCHANGED FleetSeals
    BY <1>3 DEF FleetSeals
  <2>5. QED
    BY <2>1, <2>2, <2>3, <2>4 DEF Fleet!LogNext, Fleet!Decide
<1>4. ASSUME log' = log, \A r \in roots : ~PublishRoot(r)
      PROVE  Fleet!LogNext
  <2>1. ASSUME NEW x \in FleetSeals' PROVE x \in FleetSeals
    <3>1. PICK c \in Cutoffs :
            /\ closes'[c].status = "complete"
            /\ x = [cutoff |-> c, members |-> UNION {s.receipt.members : s \in closes'[c].root}]
      BY <2>1 DEF FleetSeals
    <3>2. closes[c].status = "complete" /\ closes'[c].root = closes[c].root
      BY <1>4, <3>1, RootStays
    <3>3. QED
      BY <3>1, <3>2, SealOf
  <2>2. QED
    BY <1>4, <2>1 DEF Fleet!LogNext, Fleet!Expire
<1>5. ASSUME NEW r \in roots, PublishRoot(r)
      PROVE  [Fleet!LogNext]_(Fleet!logVars)
  <2> DEFINE n == [closes[r.c] EXCEPT !.status = "complete", !.root = r.sealed, !.upd = now]
             new == [cutoff |-> r.c, members |-> UNION {s.receipt.members : s \in r.sealed}]
  <2>1. /\ r.c \in Cutoffs /\ closes \in [Cutoffs -> CloseRec] /\ log' = log
        /\ Rooted(r.c, r.sealed)
    BY <1>1, <1>5 DEF Types, CatalogTypes, RootRec, RootsTrue, PublishRoot, bucketVars
  <2>2. \/ closes' = closes
        \/ closes[r.c].status = "pending" /\ closes' = [closes EXCEPT ![r.c] = n]
    BY <1>5, Zenon DEF PublishRoot
  <2>3. n.status = "complete" /\ n.root = r.sealed
    BY <2>1 DEF CloseRec
  <2> HIDE DEF n
  <2>4. CASE closes' = closes
    BY <2>1, <2>4 DEF FleetSeals, Fleet!logVars
  <2>5. CASE closes[r.c].status = "pending" /\ closes' = [closes EXCEPT ![r.c] = n]
    <3>1. closes'[r.c] = n /\ \A c \in Cutoffs : c # r.c => closes'[c] = closes[c]
      BY <2>1, <2>5
    <3>2. ASSUME NEW x PROVE x \in FleetSeals' <=> x \in FleetSeals \/ x = new
      <4>1. x \in FleetSeals' <=>
              \E c \in Cutoffs :
                /\ closes'[c].status = "complete"
                /\ x = [cutoff |-> c, members |-> UNION {s.receipt.members : s \in closes'[c].root}]
        BY DEF FleetSeals
      <4>2. x = [cutoff |-> r.c, members |-> UNION {s.receipt.members : s \in closes'[r.c].root}]
              <=> x = new
        BY <2>3, <3>1
      <4>3. \A c \in Cutoffs : c # r.c => closes'[c] = closes[c]
        BY <3>1
      <4>4. closes'[r.c].status = "complete" /\ closes[r.c].status # "complete"
        BY <2>3, <2>5, <3>1
      <4> HIDE DEF new
      <4>5. QED
        BY <2>1, <4>1, <4>2, <4>3, <4>4, SealOf
    <3>3. new = [cutoff |-> r.c, members |-> {d \in log : d.at <= r.c}]
      BY <2>1, MembersAreTheLog
    <3> HIDE DEF new
    <3>4. FleetSeals' = FleetSeals \cup {new}
      BY <3>2
    <3>5. new.cutoff = r.c /\ r.c \in Nat
      BY <1>1, <2>1, <3>3
    <3>6. CASE new \in FleetSeals
      BY <2>1, <3>4, <3>6 DEF Fleet!logVars
    <3>7. CASE new \notin FleetSeals
      <4>1. Fleet!Seal(new.cutoff)
        BY <2>1, <3>3, <3>4, <3>5 DEF Fleet!Seal, Fleet!UpTo
      <4>2. QED
        BY <3>4, <3>7, <4>1 DEF Fleet!LogNext
    <3>8. QED
      BY <3>6, <3>7
  <2>6. QED
    BY <2>2, <2>4, <2>5
<1>6. \A t \in Txs, at \in Time : Decide(t, at) => UNCHANGED closes
  BY DEF Decide, catalogVars
<1>7. log' = log \/ \E t \in Txs, at \in Time : Decide(t, at)
  <2>1. QuietStep => log' = log
    BY DEF QuietStep, bucketVars
  <2>2. /\ \A t \in Txs, b \in Bucket : AssignRoute(t, b) => log' = log
        /\ \A t \in Txs : ActivateForReserve(t) \/ Abandon(t) => log' = log
        /\ \A r \in requests : DeliverReserve(r) => log' = log
        /\ \A b \in Bucket, at \in Time : AdmitLegacy(b, at) => log' = log
        /\ \A a \in admitted : DeliverLegacy(a) => log' = log
        /\ \A c \in Cutoffs : \A e \in closes[c].listed : SealBucket(c, e) => log' = log
    BY DEF AssignRoute, ActivateForReserve, Abandon, DeliverReserve, AdmitLegacy,
       DeliverLegacy, SealBucket, bucketVars
  <2>3. QED
    BY <1>1, <2>1, <2>2, StepIsQuietOr
<1>8. QED
  BY <1>3, <1>4, <1>5, <1>6, <1>7

\* The buckets, the catalog and the closes of the fleet together are one log
\* of which every published root names, for ever, the whole history up to its
\* cutoff.
THEOREM FleetImplementsLog == Spec => FleetIsSealedLog
<1>1. Init => Fleet!LogInit
  <2> SUFFICES ASSUME Init PROVE Fleet!LogInit
    OBVIOUS
  <2>1. NoClose.status = "none"
    BY DEF NoClose
  <2>2. log = {} /\ \A c \in Cutoffs : closes[c] = NoClose
    BY DEF Init
  <2>3. QED
    BY <2>1, <2>2 DEF Fleet!LogInit, FleetSeals
<1>2. FleetInv /\ [Next]_vars => [Fleet!LogNext]_(Fleet!logVars)
  BY StepOfLog
<1>3. QED
  BY <1>1, <1>2, FleetSafe, PTL DEF Spec, Fleet!LogSpec, FleetIsSealedLog
=============================================================================
