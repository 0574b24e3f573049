----------------------------- MODULE FleetCatalog -----------------------------
(***************************************************************************)
(* The catalog of a fleet's manifest buckets                               *)
(* (workers/control-plane/src/fleet-manifest-catalog.ts) and the driver    *)
(* that closes the fleet through a cutoff (closeFleetThrough of            *)
(* control-plane/src/index.ts), with the buckets they speak to.            *)
(*                                                                         *)
(* A bucket is a pair of a reservation day and a partition.  It is taken   *)
(* for what ManifestBucket shows it to be: a SealedLog with a decision     *)
(* floor.  A close key stands for its cutoff, which determines it while    *)
(* the partition configuration does not change.  Every RPC of a driver is  *)
(* an action that any driver may take, as often as it likes, once the RPCs *)
(* before it have answered, so drivers overlap, stop and start again.      *)
(*                                                                         *)
(* Times are small numbers from 1 on, 0 is null, and now is the clock of   *)
(* the catalog: a coordinator's decision may be ahead of it or behind.  A  *)
(* hash is awaited inside resumeSnapshot, materializeCloseProgress and     *)
(* finalizeClose: what they read is kept in pages, batches and roots until *)
(* they write, in any number of calls that read the same.  Those waits are *)
(* short, so now does not advance in them.  Bounded: now by MaxTime,       *)
(* events by MaxEvents, snapshots by MaxGens.                              *)
(***************************************************************************)
EXTENDS Naturals, SequencesExt

CONSTANTS
  Txs, Partitions, Cutoffs,
  DayLength, \* the length of a UTC day
  PageSize,  \* rows of one page of a snapshot or of a close
  Retention, \* CATALOG_HISTORY_RETENTION_MS
  MaxTime, MaxEvents, MaxGens

ASSUME FleetAssumption ==
  /\ DayLength \in Nat \ {0} /\ PageSize \in Nat \ {0}
  /\ Retention \in Nat /\ MaxTime \in Nat \ {0}
  /\ MaxEvents \in Nat /\ MaxGens \in Nat
  /\ Partitions # {} /\ Cutoffs \subseteq 1 .. MaxTime

VARIABLES
  now,
  meta,     \* fleet_catalog_metadata
  active,   \* active_buckets
  history,  \* catalog_bucket_activation_history
  snaps,    \* catalog_snapshots and their entries
  closes,   \* catalog_close_operations and their progress
  pages, batches, roots, \* calls of the catalog that await a hash
  bucket,   \* the buckets: decision floor, V1 fence, V1 decisions
  log,      \* the V2 decisions of all buckets
  receipts, \* the seal receipts of all buckets
  tx,       \* the transactions and their frozen routes
  requests, \* reserve calls that were activated and not yet delivered
  admitted  \* V1 registrations that were admitted and not yet delivered

catalogVars == <<meta, active, history, snaps, closes, pages, batches, roots>>
bucketVars == <<bucket, log, receipts>>
clientVars == <<tx, requests, admitted>>
vars == <<now, catalogVars, bucketVars, clientVars>>

Time == 1 .. MaxTime
Day(t) == t \div DayLength
Days == {Day(t) : t \in Time}
Bucket == [day : Days, part : Partitions]
Gen == 1 .. MaxGens
Event == 1 .. MaxEvents

NoSnap == [status |-> "none", cutoff |-> 0, floor |-> 0, fence |-> 0,
           cursor |-> 0, entries |-> {}, live |-> {}, done |-> 0]

NoClose == [status |-> "none", gen |-> 0, cursor |-> 0, listed |-> {},
            sealed |-> {}, count |-> 0, total |-> 0, root |-> {}, upd |-> 0]

Entry == [seq : Event, b : Bucket]
Decision == [tx : Txs, b : Bucket, at : Nat]
Receipt == [b : Bucket, cutoff : Cutoffs, members : SUBSET Decision]
Evidence == [seq : Event, receipt : Receipt]

FleetTypeOK ==
  /\ now \in Time
  /\ meta \in [floor : Nat, seq : Nat, gen : Gen \cup {0}, required : Nat,
               admitted : Nat, grid : Nat, scanned : Nat]
  /\ active \in [Bucket -> [seq : Nat, retired : BOOLEAN]]
  /\ history \subseteq [seq : Event, b : Bucket, until : Nat, at : Nat]
  /\ \A g \in Gen :
       /\ snaps[g].status \in {"none", "BUILDING", "COMPLETE", "deleted"}
       /\ snaps[g].entries \subseteq Entry /\ snaps[g].live \subseteq Entry
  /\ \A c \in Cutoffs :
       /\ closes[c].status \in {"none", "pending", "complete"}
       /\ closes[c].gen \in Gen \cup {0}
       /\ \A e \in closes[c].sealed \cup closes[c].root :
            e.seq \in Event /\ e.receipt \in receipts
  /\ \A e \in log : e.tx \in Txs /\ e.b \in Bucket /\ e.at \in Time
  /\ tx \in [Txs -> [st : {"new", "routed", "reserved", "done"}, b : Bucket]]
  /\ requests \subseteq [tx : Txs, floor : Nat]
  /\ admitted \subseteq [b : Bucket, at : Nat]

\* A transaction that was assigned and gave up may have set the boundary.
Init ==
  /\ now = 1
  /\ meta \in [floor : {0}, seq : {0}, gen : {0}, required : {0, 1},
               admitted : {0}, grid : {0}, scanned : {0}]
  /\ active = [b \in Bucket |-> [seq |-> 0, retired |-> FALSE]]
  /\ history = {}
  /\ snaps = [g \in Gen |-> NoSnap]
  /\ closes = [c \in Cutoffs |-> NoClose]
  /\ pages = {} /\ batches = {} /\ roots = {}
  /\ bucket = [b \in Bucket |-> [floor |-> 0, v1closed |-> FALSE, v1 |-> {}]]
  /\ log = {} /\ receipts = {}
  /\ tx = [t \in Txs |-> [st |-> "new", b |-> CHOOSE b \in Bucket : TRUE]]
  /\ requests = {} /\ admitted = {}

-----------------------------------------------------------------------------
(* Routes, activation and retirement.                                      *)

\* Mutant: the boundary ignores the V1 decisions that were admitted.
Boundary_Now == now

\* The boundary is later than every admitted V1 decision.
Boundary == Max({now, meta.admitted + 1})

\* assignManifestRoute: the route is frozen to the day its call started on,
\* which may have ended, and the first route sets the coverage boundary.
AssignRoute(t, b) ==
  /\ tx[t].st = "new"
  /\ b.day \in {Day(now), Day(now - 1)}
  /\ tx' = [tx EXCEPT ![t] = [st |-> "routed", b |-> b]]
  /\ meta' = IF meta.required = 0 THEN [meta EXCEPT !.required = Boundary] ELSE meta
  /\ UNCHANGED <<now, active, history, snaps, closes, pages, batches, roots,
                 bucketVars, requests, admitted>>

IsActive(b) == active[b].seq # 0 /\ ~active[b].retired

\* A bucket that is not active gets the next event as its activation; an
\* activation key always names the same bucket, so its replay does the same.
Activation(b) ==
  IF IsActive(b) THEN UNCHANGED <<meta, active, history>>
  ELSE /\ meta.seq < MaxEvents
       /\ meta' = [meta EXCEPT !.seq = @ + 1]
       /\ active' = [active EXCEPT ![b] = [seq |-> meta.seq + 1, retired |-> FALSE]]
       /\ history' = history \cup
            {[seq |-> meta.seq + 1, b |-> b, until |-> 0, at |-> 0]}

\* Mutant: an activation does not learn about the snapshots before it.
RequiredFloor_Stale == IF meta.required = 0 THEN 0 ELSE meta.required - 1

\* required_decision_floor_ms.
RequiredFloor == Max({meta.floor, IF meta.required = 0 THEN 0 ELSE meta.required - 1})

\* reserveManifest up to its call of the bucket, which carries the floor.
ActivateForReserve(t) ==
  /\ tx[t].st \in {"routed", "reserved"}
  /\ Activation(tx[t].b)
  /\ requests' = requests \cup {[tx |-> t, floor |-> RequiredFloor]}
  /\ UNCHANGED <<now, snaps, closes, pages, batches, roots, bucketVars, tx, admitted>>

\* retireBucket: external, no caller in the repository.  The certificate says
\* that nothing of the bucket is needed any more.
Retire(b) ==
  /\ IsActive(b)
  /\ \A t \in Txs : tx[t].b = b => tx[t].st \in {"new", "done"}
  /\ ~\E e \in log : e.b = b
  /\ meta.seq < MaxEvents
  /\ meta' = [meta EXCEPT !.seq = @ + 1]
  /\ active' = [active EXCEPT ![b].retired = TRUE]
  /\ history' = {IF h.seq = active[b].seq
                 THEN [h EXCEPT !.until = meta.seq + 1, !.at = now] ELSE h : h \in history}
  /\ UNCHANGED <<now, snaps, closes, pages, batches, roots, bucketVars, clientVars>>

-----------------------------------------------------------------------------
(* The buckets and the coordinators.                                       *)

\* reserve of a bucket: fences V1, merges the floor, makes the row.
DeliverReserve(r) ==
  /\ r \in requests
  /\ requests' = requests \ {r}
  /\ LET b == tx[r.tx].b
     IN bucket' = [bucket EXCEPT ![b].v1closed = TRUE,
                                 ![b].floor = Max({@, r.floor})]
  /\ tx' = [tx EXCEPT ![r.tx].st = IF @ = "routed" THEN "reserved" ELSE @]
  /\ UNCHANGED <<now, catalogVars, log, receipts, admitted>>

\* finalize of a bucket: a decision above the floor, by another clock.
Decide(t, at) ==
  /\ tx[t].st = "reserved"
  /\ at > bucket[tx[t].b].floor
  /\ log' = log \cup {[tx |-> t, b |-> tx[t].b, at |-> at]}
  /\ tx' = [tx EXCEPT ![t].st = "done"]
  /\ UNCHANGED <<now, catalogVars, bucket, receipts, requests, admitted>>

\* cancel of a bucket, or the coordinator gives the route up.
Abandon(t) ==
  /\ tx[t].st \in {"routed", "reserved"}
  /\ tx' = [tx EXCEPT ![t].st = "done"]
  /\ requests' = {r \in requests : r.tx # t}
  /\ UNCHANGED <<now, catalogVars, bucketVars, admitted>>

\* registerManifest up to its call of the bucket: admitLegacyRegistration
\* activates the bucket unless a route was assigned before.
AdmitLegacy(b, at) ==
  /\ at <= now /\ b.day = Day(at)
  /\ meta.required = 0
  /\ IF IsActive(b)
     THEN /\ meta' = [meta EXCEPT !.admitted = Max({@, at})]
          /\ UNCHANGED <<active, history>>
     ELSE /\ meta.seq < MaxEvents
          /\ meta' = [meta EXCEPT !.seq = @ + 1, !.admitted = Max({@, at})]
          /\ active' = [active EXCEPT ![b] = [seq |-> meta.seq + 1, retired |-> FALSE]]
          /\ history' = history \cup
               {[seq |-> meta.seq + 1, b |-> b, until |-> 0, at |-> 0]}
  /\ admitted' = admitted \cup {[b |-> b, at |-> at]}
  /\ UNCHANGED <<now, snaps, closes, pages, batches, roots, bucketVars, tx, requests>>

\* register of a bucket: refused once V1 is fenced there.
DeliverLegacy(a) ==
  /\ a \in admitted
  /\ admitted' = admitted \ {a}
  /\ bucket' = IF bucket[a.b].v1closed THEN bucket
               ELSE [bucket EXCEPT ![a.b].v1 = @ \cup {a.at}]
  /\ UNCHANGED <<now, catalogVars, log, receipts, tx, requests>>

-----------------------------------------------------------------------------
(* The grid of days and the snapshot of a cutoff.                          *)

\* The first day of which the catalog has not activated every partition.
FirstUnmaterialized == IF meta.grid = 0 THEN Day(meta.required) ELSE meta.grid
FirstUnscanned == IF meta.scanned = 0 THEN Day(meta.required) ELSE meta.scanned

\* closeFleetThrough on a day that is not materialized: one bucket of it.
MaterializeGrid(b) ==
  /\ meta.required # 0
  /\ ~IsActive(b)
  /\ b.day = FirstUnmaterialized
  /\ Activation(b)
  /\ UNCHANGED <<now, snaps, closes, pages, batches, roots, bucketVars, clientVars>>

\* advanceLegacyGridMaterializedThrough.
AdvanceGrid ==
  /\ meta.required # 0
  /\ FirstUnmaterialized \in Days
  /\ \A b \in Bucket : b.day = FirstUnmaterialized => IsActive(b)
  /\ meta' = [meta EXCEPT !.grid = FirstUnmaterialized + 1]
  /\ UNCHANGED <<now, active, history, snaps, closes, pages, batches, roots, 
                 bucketVars, clientVars>>

\* The activations that a fence selects.
LiveAt(fence) ==
  {h \in history : h.seq <= fence /\ (h.until = 0 \/ h.until > fence)}

\* Mutant: an entry is the whole activation row.
EntriesOf_Rows(rows) == rows

EntriesOf(rows) == {[seq |-> h.seq, b |-> h.b] : h \in rows}

Building == {g \in Gen : snaps[g].status = "BUILDING"}
OfCutoff(c) == {g \in Gen : snaps[g].cutoff = c /\ snaps[g].status \in {"BUILDING", "COMPLETE"}}

\* snapshotThrough with a new key: the floor and the fence in one step.
NewSnapshot(c) ==
  /\ meta.required # 0 /\ c <= now
  /\ FirstUnmaterialized > Day(c)
  /\ OfCutoff(c) = {}
  /\ Building = {}
  /\ meta.gen < MaxGens
  /\ meta' = [meta EXCEPT !.floor = Max({@, c}), !.gen = @ + 1]
  /\ snaps' = [snaps EXCEPT ![meta.gen + 1] =
       [NoSnap EXCEPT !.status = "BUILDING", !.cutoff = c, !.done = now,
                      !.floor = Max({meta.floor, c}), !.fence = meta.seq,
                      !.live = EntriesOf(LiveAt(meta.seq))]]
  /\ UNCHANGED <<now, active, history, closes, pages, batches, roots, bucketVars, clientVars>>

\* The first n rows: ORDER BY activation_sequence LIMIT n.
FirstRows(rows, n) == {r \in rows : Cardinality({q \in rows : q.seq < r.seq}) < n}

LastSeq(rows, default) == IF rows = {} THEN default ELSE Max({r.seq : r \in rows})

Candidates(g) == {h \in LiveAt(snaps[g].fence) : h.seq > snaps[g].cursor}

\* resumeSnapshot, by a caller or by the alarm, up to the hashes of its page.
ReadPage(g) ==
  /\ snaps[g].status = "BUILDING"
  /\ pages' = pages \cup
       {[gen |-> g, cursor |-> snaps[g].cursor, seen |-> snaps[g].entries,
         rows |-> EntriesOf(FirstRows(Candidates(g), PageSize)),
         more |-> Cardinality(Candidates(g)) > PageSize]}
  /\ UNCHANGED <<now, meta, active, history, snaps, closes, batches, roots, 
                 bucketVars, clientVars>>

\* resumeSnapshot after them: stored unless another call moved the cursor.
StorePage(p) ==
  /\ p \in pages
  /\ pages' \in {pages, pages \ {p}}
  /\ IF /\ snaps[p.gen].status = "BUILDING"
        /\ snaps[p.gen].cursor = p.cursor /\ snaps[p.gen].entries = p.seen
     THEN snaps' = [snaps EXCEPT
            ![p.gen].entries = @ \cup p.rows, ![p.gen].cursor = LastSeq(p.rows, @),
            ![p.gen].status = IF p.more THEN "BUILDING" ELSE "COMPLETE",
            ![p.gen].done = IF p.more THEN @ ELSE now]
     ELSE pages' = pages \ {p} /\ UNCHANGED snaps
  /\ UNCHANGED <<now, meta, active, history, closes, batches, roots, bucketVars, clientVars>>

-----------------------------------------------------------------------------
(* The close of a cutoff.                                                  *)

Complete(g) == snaps[g].status = "COMPLETE"

\* beginClose on the complete snapshot of the cutoff.  A wait for a hash is
\* over before a close that was purged in it begins again.
BeginClose(c, g) ==
  /\ g \in OfCutoff(c) /\ Complete(g)
  /\ closes[c].status = "none"
  /\ \A b \in batches : b.c # c
  /\ closes' = [closes EXCEPT ![c] =
       [NoClose EXCEPT !.status = "pending", !.gen = g, !.upd = now,
                       !.total = Cardinality(snaps[g].entries)]]
  /\ UNCHANGED <<now, meta, active, history, snaps, pages, batches, roots, 
                 bucketVars, clientVars>>

\* materializeCloseProgress up to the hashes of the bucket keys.
ReadBatch(c) ==
  LET rest == {e \in snaps[closes[c].gen].entries : e.seq > closes[c].cursor}
  IN
  /\ closes[c].status = "pending"
  /\ rest # {}
  /\ batches' = batches \cup {[c |-> c, cursor |-> closes[c].cursor,
                               rows |-> FirstRows(rest, PageSize)]}
  /\ UNCHANGED <<now, meta, active, history, snaps, closes, pages, roots, 
                 bucketVars, clientVars>>

\* The rest of it: stored unless another call moved the cursor.
StoreBatch(b) ==
  /\ b \in batches
  /\ batches' \in {batches, batches \ {b}}
  /\ IF closes[b.c].status # "none" /\ closes[b.c].cursor = b.cursor
     THEN closes' = [closes EXCEPT
            ![b.c].listed = @ \cup b.rows, ![b.c].cursor = LastSeq(b.rows, @),
            ![b.c].upd = now]
     ELSE batches' = batches \ {b} /\ UNCHANGED closes
  /\ UNCHANGED <<now, meta, active, history, snaps, pages, roots, bucketVars, clientVars>>

Pending(c) == {e \in closes[c].listed : \A s \in closes[c].sealed : s.seq # e.seq}

\* initializeForSeal takes the floor of the snapshot.
SealFloor(b, g) == Max({bucket[b].floor, snaps[g].floor})

\* initializeForSeal and closeThrough of the bucket of an entry that has no
\* receipt yet: V1 is fenced, the floor covers the cutoff, and the receipt
\* names the decisions up to it.  V1 decisions past the boundary refuse it.
SealBucket(c, e) ==
  /\ closes[c].status = "pending"
  /\ e \in Pending(c) /\ e \in snaps[closes[c].gen].entries
  /\ bucket' = [bucket EXCEPT ![e.b].v1closed = TRUE,
                              ![e.b].floor = SealFloor(e.b, closes[c].gen)]
  /\ \A at \in bucket[e.b].v1 : at < meta.required
  /\ receipts' =
       IF \E r \in receipts : r.b = e.b /\ r.cutoff = c THEN receipts
       ELSE receipts \cup
              {[b |-> e.b, cutoff |-> c,
                members |-> {d \in log : d.b = e.b /\ d.at <= c}]}
  /\ UNCHANGED <<now, catalogVars, log, clientVars>>

\* recordCloseReceipt: a driver hands in the receipt of its bucket.
RecordReceipt(c, e, r) ==
  /\ r \in receipts /\ r.cutoff = c /\ r.b = e.b
  /\ e \in Pending(c)
  /\ closes' = [closes EXCEPT
       ![c].sealed = @ \cup {[seq |-> e.seq, receipt |-> r]},
       ![c].count = @ + 1, ![c].upd = now]
  /\ UNCHANGED <<now, meta, active, history, snaps, pages, batches, roots, 
                 bucketVars, clientVars>>

AllSealed(c) == Cardinality(closes[c].listed) = closes[c].total /\ Pending(c) = {}

\* finalizeClose up to the hash of the receipts.
ReadReceipts(c) ==
  /\ closes[c].status = "pending"
  /\ AllSealed(c)
  /\ roots' = roots \cup {[c |-> c, sealed |-> closes[c].sealed]}
  /\ UNCHANGED <<now, meta, active, history, snaps, closes, pages, batches, 
                 bucketVars, clientVars>>

\* The rest of it.
PublishRoot(r) ==
  /\ r \in roots
  /\ roots' = roots \ {r}
  /\ closes' = IF /\ closes[r.c].status = "pending"
                  /\ Cardinality(closes[r.c].sealed) = closes[r.c].total
               THEN [closes EXCEPT ![r.c].status = "complete",
                                   ![r.c].root = r.sealed, ![r.c].upd = now]
               ELSE closes
  /\ UNCHANGED <<now, meta, active, history, snaps, pages, batches, bucketVars, clientVars>>

\* The entries of the close with a receipt for the buckets of a day.
Certified(c, day) ==
  {e \in snaps[closes[c].gen].entries :
     e.b.day = day /\ \E s \in closes[c].sealed : s.seq = e.seq}

\* advanceLegacyScannedThrough, day by day after a complete close.
AdvanceScanned(c) ==
  /\ meta.required # 0
  /\ FirstUnscanned <= Day(c)
  /\ closes[c].status = "complete"
  /\ Cardinality(Certified(c, FirstUnscanned)) = Cardinality(Partitions)
  /\ meta' = [meta EXCEPT !.scanned = FirstUnscanned + 1]
  /\ UNCHANGED <<now, active, history, snaps, closes, pages, batches, roots, 
                 bucketVars, clientVars>>

-----------------------------------------------------------------------------
(* History retention, the clock, restarts.                                 *)

Old(t) == t + Retention <= now

\* Mutant: a snapshot that is being built does not keep its activations.
Needed_Entries(h, kept) == \E g \in Gen : \E e \in kept[g].entries : e.seq = h.seq

\* What purgeHistory keeps a deactivated activation for.
Needed(h, kept) ==
  \/ \E g \in Gen : \E e \in kept[g].entries : e.seq = h.seq
  \/ \E g \in Gen : /\ kept[g].status = "BUILDING"
                    /\ h.seq <= kept[g].fence /\ h.until > kept[g].fence

\* purgeHistory: closes, then snapshots without one, then activations.
Purge ==
  LET goneCloses == {c \in Cutoffs : closes[c].status # "none" /\ Old(closes[c].upd)}
      used == {closes[c].gen : c \in Cutoffs \ goneCloses}
      goneSnaps == {g \in Gen : /\ g < meta.gen /\ g \notin used
                                /\ snaps[g].status # "none" /\ Old(snaps[g].done)}
      kept == [g \in Gen |-> IF g \in goneSnaps
                             THEN [NoSnap EXCEPT !.status = "deleted"] ELSE snaps[g]]
      goneRows == {h \in history : h.until # 0 /\ Old(h.at) /\ ~Needed(h, kept)}
  IN
  /\ goneCloses # {} \/ goneSnaps # {} \/ goneRows # {}
  /\ closes' = [c \in Cutoffs |-> IF c \in goneCloses THEN NoClose ELSE closes[c]]
  /\ snaps' = kept
  /\ history' = history \ goneRows
  /\ UNCHANGED <<now, meta, active, pages, batches, roots, bucketVars, clientVars>>

Tick ==
  /\ now < MaxTime
  /\ pages = {} /\ batches = {} /\ roots = {}
  /\ now' = now + 1
  /\ UNCHANGED <<catalogVars, bucketVars, clientVars>>

\* The object restarts: the calls in progress are lost.
Restart ==
  /\ pages \cup batches \cup roots # {}
  /\ pages' = {} /\ batches' = {} /\ roots' = {}
  /\ UNCHANGED <<now, meta, active, history, snaps, closes, bucketVars, clientVars>>

Next ==
  \/ \E t \in Txs :
       \/ \E b \in Bucket : AssignRoute(t, b)
       \/ ActivateForReserve(t)
       \/ \E at \in Time : Decide(t, at)
       \/ Abandon(t)
  \/ \E r \in requests : DeliverReserve(r)
  \/ \E b \in Bucket :
       \/ Retire(b)
       \/ \E at \in Time : AdmitLegacy(b, at)
       \/ MaterializeGrid(b)
  \/ \E a \in admitted : DeliverLegacy(a)
  \/ AdvanceGrid
  \/ \E c \in Cutoffs :
       \/ NewSnapshot(c)
       \/ \E g \in Gen : BeginClose(c, g)
       \/ ReadBatch(c)
       \/ \E e \in closes[c].listed : SealBucket(c, e)
       \/ \E e \in closes[c].listed, r \in receipts : RecordReceipt(c, e, r)
       \/ ReadReceipts(c)
       \/ AdvanceScanned(c)
  \/ \E g \in Gen : ReadPage(g)
  \/ \E p \in pages : StorePage(p)
  \/ \E b \in batches : StoreBatch(b)
  \/ \E r \in roots : PublishRoot(r)
  \/ Purge
  \/ Tick
  \/ Restart

Spec == Init /\ [][Next]_vars

-----------------------------------------------------------------------------
(* Properties.                                                             *)

\* The coverage boundary separates the protocols: V1 decisions are before it,
\* also those whose registration was admitted and comes late, V2 decisions at
\* or after it.  So initializeForSeal never refuses a bucket, and a close from
\* the boundary on misses nothing.
CoverageIsSound ==
  meta.required # 0 =>
    /\ \A b \in Bucket : \A at \in bucket[b].v1 : at < meta.required
    /\ \A a \in admitted : a.at < meta.required
    /\ \A d \in log : d.at >= meta.required

\* A complete snapshot has exactly the activations that were live at its
\* fence, though it is read page by page, by calls that overlap, while buckets
\* are activated and retired and history is purged.
SnapshotIsTheFence ==
  \A g \in Gen : Complete(g) => snaps[g].entries = snaps[g].live

\* The fleet as one sealed log: its decisions, and as a seal what the receipts
\* under the root of a complete close name.  No bucket decides below the
\* cutoff of a complete close, and no decision below it is missing from it.
FleetSeals ==
  {[cutoff |-> c, members |-> UNION {s.receipt.members : s \in closes[c].root}] :
     c \in {k \in Cutoffs : closes[k].status = "complete"}}

Fleet == INSTANCE SealedLog WITH seals <- FleetSeals

FleetIsSealedLog == Fleet!LogSpec
=============================================================================
