# CloudflareShard: TLA+ models and proofs

CloudflareShard is a sharded SQL store made of Cloudflare Durable Objects.
This directory holds its formal models: TLA+ modules translated from the
TypeScript source, TLC configurations that check them on small instances, and
proofs that TLAPS checks for every value of the constants. Paths below are
relative to the repository root.

## 1. Inventory

| Component | Source | State it keeps | Operations | What is hard |
|---|---|---|---|---|
| Transaction contract | `packages/contracts/src/transaction.ts` | none: vocabulary and table | transition and classification predicates, validators | coordinator, shards and control plane must classify alike |
| CoordinatorDO (one per transaction) | `src/coordinator.ts` | transactions row, participants, recovery queue, alarm; in memory: recoveries in flight | /begin, /force-abort, /tx-status, audited resolution, alarm, restore fence and discard | every `await` lets another request or the alarm in; restarts; lost answers |
| Manifest admission circuit | `src/coordinator.ts` 466-626 | failure window, open and half-open marks | check, record success, neutral or failure | serves the retries of one transaction only |
| ShardDO, participant | `src/shard.ts` 1487-1573, 3639-3998 | intents, row locks, decision tombstones | /prepare, /commit, /abort, sweep | late and repeated messages, the sweep racing them |
| ShardDO, execute | `src/shard.ts` 2967-3342 | rows, applied requests, fences | /execute | idempotency, locks of transactions, fences |
| ShardDO, queues | `src/shard.ts` 522-946 | index and mirror jobs | enqueue, deliver, flush, drain | order, retries, targets that are out of date |
| ShardDO, restore | `src/shard.ts` 2434-2740 | fence marker, undo bookmark, armed restore | fence, preview, stage, apply, verify, release | the rewind takes effect at a restart |
| JournalManifestDO (one per bucket) | `workers/control-plane/src/journal-manifest.ts` | reservation rows, records, seals, leases, retention | reserve, finalize, cancel, resolveQuarantine, closeThrough, localPage, releaseV2, alarm | publication in two steps, sealing while reservations are open, retention under readers |
| FleetManifestCatalog | `workers/control-plane/src/fleet-manifest-catalog.ts` | buckets, history, snapshots, closes | routes, activation, retirement, snapshot, close | closing many buckets at one cutoff in pages |
| CONTROL_PLANE service | `workers/control-plane/src/index.ts` | none | forwards to the two above; drives a fleet close | drivers that overlap or stop |
| CatalogDO, topology | `src/catalog.ts` | shards, vbucket map, topology lock, index rules | lock lease, migration, drain, index backfill | long operations in many ticks, leases that lapse, aborts |
| CatalogDO, tenants and routing | `src/catalog.ts` 1852-2320 | tenants, tables, rate windows | /route, lookups, rate limit | mostly lookups |
| RestoreCoordinatorDO | `src/restore.ts` | operation, participants, gate, coordinator work, losses | preview, execute, rollback, retry, register-coordinator, alarm | a fleet-wide sequence that may crash anywhere |
| Gateway Worker | `src/index.ts` | none | /mutate, /query, /tx, index and table administration, table scans | calls to several objects, none of them atomic |
| SQL safety, structured ops, auth, hash | `src/*.ts` | none | pure functions | string processing |
| Client, examples | `client/`, `examples/` | none | HTTP | outside the core |

How they interact. The gateway resolves a route at the catalog and calls the
shard; a transaction goes to its coordinator, which reserves a manifest row
(CONTROL_PLANE, JournalManifestDO), prepares the shards, stores a decision
with an immutable *terminal request* (finalize or cancel), finalizes or
cancels the manifest row, tells the shards, and releases the row. The
coordinator's alarm and each shard's sweep drive what a lost call left behind.
A catalog's alarm moves virtual buckets and indexes between shards while both
keep serving. The fleet catalog closes all manifest buckets through a cutoff,
which gives a restore its list of decided transactions; the restore fences
the fleet, rewinds the shards and replays them.

What makes each part correct:

* transaction: all or nothing, one terminal, no commit without a FINALIZED
  manifest row, no lock left behind, every decided transaction is finished;
* manifest bucket and fleet: a sealed range never gains a decision and its
  receipt misses none; readers get each sealed record once;
* migration: the routed copy has every accepted write; no fence is left
  behind; no served copy is wiped; a move ends;
* index: a query finds a row by the value it has; an evacuated shard keeps no
  entries; catalogs agree on the ring;
* restore: a fleet opens whole, its losses are reported, transactions stay
  atomic, what was rewound stays so;
* scan: no row skipped or repeated; a certified table hides no row.

`PROJECT.json` lists the hazards, each at its line, with the properties that
cover it.

## 2. Modules

| Module | Models | Source |
|---|---|---|
| `TxStates` | states, transition table, classification | `packages/contracts/src/transaction.ts` |
| `TxParticipant` | a ShardDO as participant | `src/shard.ts` |
| `ManifestRow` | the manifest row of one transaction | `journal-manifest.ts`, control plane `index.ts` |
| `CrossShardTx` | coordinator, shards, manifest row and network, composed | `src/coordinator.ts` and the three above |
| `CrossShardTxProps` | its properties and refinement mapping | |
| `AtomicCommit` | what a transaction promises | |
| `ManifestBucket` | one bucket: rows, decision clock, seals, leases, retention | `journal-manifest.ts` |
| `FleetCatalog` | the fleet's buckets, snapshots and closes, with the driver | `fleet-manifest-catalog.ts`, control plane `index.ts` |
| `SealedLog` | what a bucket and the fleet promise to readers | |
| `VbucketMigration` | a virtual bucket moving under client writes | `src/catalog.ts`, `src/shard.ts`, `src/index.ts` |
| `IndexRing` | an index through its life: backfill, upkeep, queries, drain, drop | the same |
| `Restore` | point-in-time restore of the fleet | `src/restore.ts`, `src/shard.ts`, `src/coordinator.ts`, `src/catalog.ts` |
| `TableScan` | paged scans, owner entries, their backfill | `src/index.ts`, `src/shard.ts`, `src/catalog.ts` |
| `MC*` | the small instances | |
| `CrossShardTxProofs` | theorems about transactions | |
| `ManifestBucketProofs`, `FleetCatalogProofs` | theorems about the manifest | |
| `AbstractProofs` | theorems about `AtomicCommit` and `SealedLog` | |
| `VbucketMigrationProofs`, `IndexRingProofs`, `TableScanProofs` | theorems about moves, indexes and scans | |
| `RestoreProofs` | theorems about restores | |

How they compose: `CrossShardTx` extends `TxParticipant`, `ManifestRow` and
`TxStates`, and implements `AtomicCommit`. `ManifestBucket` and `FleetCatalog`
both implement `SealedLog`; `FleetCatalog` takes each bucket for the sealed log
that `ManifestBucket` is. `Restore` takes a transaction's row and votes in one
step each, for `CrossShardTx` has their detail, and the manifest for the closed
fleet that `FleetCatalog` shows. `TableScan` and `IndexRing` take what
`VbucketMigration` shows of a move.

### How state and actions correspond to the code

In all modules: a handler's code between two awaits is one action; a storage
transaction is never divided; a handler that holds a shard's mutation barrier
from entry to exit is one action. What the code reads before an await and uses
after it is kept in a variable of its own (`seen`, `pages`, `batch`,
`handler.seen`, `scan.pages`), which is where stale state bites. A call is
executed and answered, executed with its answer lost, or not executed.

*Participant.* `intents`, `tombstone` and `locked` are the rows of
pending_intents, participant_decision_tombstones and row_locks of one
transaction on each shard. `applied` counts executions of
applyCommittedIntents. The sweep holds the barrier over its network call, so
it is two actions (`SweepAsk`, then `SweepCommit`, `SweepAbort` or
`SweepFails`). /commit writes its tombstone in one storage transaction and
applies in another, hence `HandleCommitApplyThrows`. All messages carry the one
epoch and operation hash, so those comparisons succeed and are left out.

*Coordinator.* `st`, `decision`, `finReq`, `canReq`, `parked`, `phase` and
`queue` are the durable row, its participants and its queue item; `armed` is
the alarm. A *fiber* is one request or alarm in progress: `pc` names the await
it is at, `seen` is the row it read before it, `acks` and `reply` are the
answers that arrived meanwhile. `excl` is recoveryInFlight, `act` and `fresh`
are what the alarm read of the queue item and whether it is still that one. A
message sent stays in `msgs` and may be executed later any number of times:
this is the delayed original and every retry. An answer is delivered to a fiber
that waits for it, or lost. `Restart` loses the fibers and keeps what is
durable; an alarm whose handler did not finish is delivered again.

*Bucket.* `rows` are manifest_reservations with their quarantine, `gens` the
seal generations with the entries digested so far, `leases` and `schedule` the
page cursors and alarm purposes. `publish`, `sealer` and `sweep` are what waits
for a hash (finalize, a seal step, the retention sweep), and are lost by a
restart. A digest is the sequence of the entries that were hashed. `reader`
pages through a sealed range under leases.

*Fleet.* Every RPC of closeFleetThrough is an action any driver may take once
the ones before it answered, so drivers overlap, stop and start again. `pages`,
`batches` and `roots` are calls that wait for a hash. `requests` and `admitted`
are reserve and V1 register calls that passed the catalog and have yet to reach
their bucket.

*Migration.* `handler` is the tick or abort that runs: each call it makes to a
shard is a step, and `StopHandler` ends it anywhere. `flights` are requests
that resolved their route and have not arrived. `store`, `fenced`, `queue`,
`requests`, `mirrors` and `intents` are the two shards' tables for the virtual
bucket; `batch` is what a shard's alarm read of its queue. `ghost` says what a
correct store would hold and which writes strayed.

*Index.* `gateway`, `filler`, `mover` and `query` are the calls and ticks in
progress, `flights` and `upkeep` client writes and the index writes that follow
them. One secondary index on a drained shard is modelled; the drained shard's
virtual buckets have already moved, and what its remaining rows queued is
flushed like any other base shard's.

*Restore.* `op`, `gate`, `part`, `undo`, `work`, `losses` and `registry` are
the coordinator's tables; `shard` has each database, its last certified
checkpoint, the fence marker and what the provider was told to do at the next
start; `hold` is the request that passed the gate and holds the barrier.

*Scan.* The gateway keeps nothing: `scan` is the caller's cursor and the pages
that arrived for the call it waits for. `fill` and `admin` are the two ways a
row gets an owner entry.

Mutants stand beside the definition they change (`Name_Change`, or a name of
their own after the word Mutant). They are plausible bugs, are not part of any
specification, and show that each property can be broken by the code.

### Deliberate abstractions

* Transaction: one, state-model version 2, one content. Another transaction
  meets it only through row locks, which appear as refused prepares. A restore
  gate is read before a call; a passed gate and the call are one step
  (`Restore` has the two apart). Backoff times are abstracted: an armed alarm
  may fire at any later time, an item that is not due is `AlarmDeferred`.
* Bucket: a decision time is unique and stands for the pair with
  decision_sequence; an alarm purpose may run as soon as it is scheduled; V1
  records are left out (`FleetCatalog` has their times).
* Fleet: a close key stands for its cutoff, for the partition configuration
  does not change. The clock does not advance while a call waits for a hash. A
  wait for a hash of a close is over before that close, purged in the meantime,
  is begun anew: `fleet-manifest-catalog.ts:1432-1480` compares only the cursor
  after its hash, and between a purge and a new close lie days.
* Migration: the rows of one virtual bucket, in export order, one per page; a
  row's value is absent, the seeded contents or a new one, so that a write may
  leave a row as it was. `LeaseLapses` is both an expiry and a forced release.
* Index: one index, one indexed column; where the code hashes a key to a ring
  position the hash is a constant. Shards are numbered in the order in which
  /list-shards has them (`catalog.ts:3090`); an empty ring has no place.
* Restore: every transaction spans every shard; a tick of the operation is one
  action; `PassCutoff` marks the instant a later preview names.
* Scan: every key is a virtual bucket of its own; what a move is, is
  `VbucketMigration`.

## 3. Runs

| Run | Instance | Distinct states | What it shows |
|---|---|---|---|
| `atomic_commitment` | 3 shards, 2 fibers, symmetric | 0.31 million | safety of the composition under every fault |
| `recovery` | 2 shards, 1 fiber, 1 resolution, fair | 41 thousand | locks follow intents; convergence without a client; implements AtomicCommit |
| `bucket` | 2 transactions, 2 cutoffs, 2 generations | 0.52 million | seals exact, enumeration complete, retention safe; implements SealedLog |
| `bucket_progress` | 1 transaction, 2 sealers, fair | 41 thousand | a draining seal ends |
| `fleet_close` | 1 transaction, 1 partition over two days, 2 snapshots | 0.62 million | coverage, snapshots, the fleet implements SealedLog |
| `migration` | 2 shards, 2 moves, 2 requests, 1 failure, fair | 0.28 million | the routed copy is current and never wiped; fences are owned; a move ends |
| `index` | 3 shards, 2 catalogs, 2 keys, 3 operations | 0.92 million | queries find rows; evacuated shards are empty; rings agree |
| `restore` | 2 shards, 1 transaction, 1 restore, 1 fault | 0.85 million | the fleet opens whole, losses reported, atomic, rewound for good |
| `table_scan` | 3 keys, 2 shards, 2 events | 0.87 million | rows returned exactly once, moved ones at least once; certification honest |
| `scans_see_every_row` | 1 event | violated | finding, see below |
| `rollback_precedes_discard` | 1 restore, 1 fault | violated | finding |
| `mirror_after_flip` | 1 move, a write and a transaction, no failure | violated | finding |

### Bounds

The bounds appear in the guards, never in a replaced definition.

* Transaction: three shards are one that is ahead, one behind and one that
  refuses. Two fibers are what a race needs, and joins; the alarm and each
  request kind can be either fiber. `MaxResolutions` counts what operators ask
  for: audited resolution needs conflicting evidence first, so it is checked
  with one fiber (`recovery`) and proved for any number. Conflicting evidence
  reaches the manifest once.
* Bucket: `MaxTime` 2 gives a decision before and after a cutoff; `MaxGens` 2
  lets a seal replace another; `Floors` are the floors a reservation may carry
  from the catalog; `MaxConflicts` 1; pages of one row make every multi-page
  path happen. `Crashes` switches restarts. `bucket_progress` has two sealers
  on one generation, for that is the race that can stop it.
* Fleet: two times of one day each, so a bucket of yesterday and of today;
  `MaxEvents` 3 activations and retirements, `MaxGens` 2 snapshots, so that one
  is pending while another is asked for. Pages of one row.
* Migration: `MaxMigrations` 2 is there and back; `MaxFailures` 1 is any one of
  a tick, an abort or a delivery that stops half way, a lost answer, a lapsed
  lease or a request that is sent again. Combinations of failures are covered
  by the proofs, which hold for any number of each.
* Index: `MaxOps` 3 topology operations (create, drain, drop or create again),
  `MaxFaults` 1 for a lost call, a stopped tick or a lapsed lease. One client
  write of any kind. Three shards: the one that leaves, another of the ring,
  a substitute that is added.
* Restore: `MaxRestores` 1, `MaxFaults` 1: a lost answer, retries that run out
  or a session restart anywhere. `Written` are the shards the client writes.
* Scan: `PageSize` 2 with limits 1 and 3 puts the limit below and above a
  page; `FillPage` 1; `Legacy` are the rows that may lack an owner entry;
  `MaxEvents` 2 writes, moves, failures or backfills next to the scan.

Runs without deadlock checking are those whose bounds or whose system really
stop: a finished scan, restore, move or close with nothing left to ask.

### What the properties say

*Transaction.* `AtomicOutcome`, `CommitIsAuthorized`, `OneAuthorization`: the
outcome is one, was voted for, and is in the manifest. `RecordsAreTrue`: what
the coordinator recorded is so on every shard, exactly once.
`NoSpuriousQuarantine`: retries alone never need an operator.
`DecidedWorkIsQueued`: a decision is never without its forward-work item.
`LegalSteps`: no step leaves the contract's table. `ImplementsAtomicCommit`:
the terminal request, unlike the decision column, survives a quarantine.

*Manifest.* `ImplementsSealedLog` and `FleetIsSealedLog`: a published receipt
has all decisions up to its cutoff and none is added later.
`EnumerationIsComplete`: a finished enumeration has exactly the sealed records
of its range, in strictly increasing order of decision. `RetentionIsSafe`:
retention takes nothing from a lease, a coordinator or an unfinished seal.
`CoverageIsSound`, `SnapshotIsTheFence`: V1 and V2 decisions lie on either
side of the boundary; a snapshot read in pages is the fleet at its fence.

*Migration.* `RoutedCopyIsCurrent` compares the served copy with what the
accepted writes make of it. It holds while no lease lapsed, and until a write
reaches a served copy by another way than its route; then such a write must be
one of the three kinds named in section 4 (`ghost.purged`, `ghost.stranded`,
`ghost.undrained`). `FencesAreOwned`, `RoutedCopyIsNeverWiped`, `MigrationEnds`.

*Index.* `QueriesFindRows` holds for rows whose index writes are done, except
those the code documents as given up: overlapping writes to one row, a write
whose gateway or shard never answered, one that began under no index, and a
ring registered twice with different members (`Clean`). A query between whose
two look-ups the source's entries are deleted is let off, and one while a drop
has reached some catalogs and not others. `EvacuatedShardsStayEmpty`: once its
drain is over, a shard holds no entry of an index that every catalog has, but
three kinds: of rows a transaction prepared before the fence (`ghost.late`), of
an earlier index whose drop left them (`ghost.left`), and of writes that began
under no index or before a drop (`ghost.unseen`). `RingsAgree`: unless an
evacuation is marked, the catalogs write and read the index at the same places.

*Restore.* `FleetOpensWhole`, `LossesAreReported`, `AtomicAcrossRestores`,
`RewoundStaysRewound`. `stray` marks what a lost answer hid from a rollback:
the second finding is one of its cases, and section 4 has another, which is why
the report's claim about acknowledged writes excuses it too.

*Scan.* `ScanIsExact` and `MovedRowsAreSeen` (a row that moved is returned at
least once, if no page is shorter than the limit; the first finding says why),
`PagesAdvance`, `CompleteHidesNothing`.

### Fairness

Transaction: an armed alarm eventually fires even when requests keep the
object busy (strong fairness, since a running alarm disables it for a while), a
fiber that can run does, a call that is waited for reaches its target, and a
shard's alarm keeps sweeping. No request is assumed to arrive. Both liveness
properties are conditional on `FaultsStop`: from some time on no restart, no
closed gate, no call given up, no failing apply. `ArmedWorkConverges` asks for
an armed alarm because of the first divergence below.

Bucket: coordinators replay their finalize and the catalog its close, which the
code does on every retry and alarm, and what waits for a hash goes on.
`DrainingEnds` is conditional on restarts ending.

Migration: the catalog's alarm re-arms while a move is active and a shard's
while jobs are queued; a tick that started goes on; coordinators decide what
they prepared. Nobody is assumed to ask for a move, nor a client to send.

## 4. Findings and divergences

Three findings have a run of their own:

* `scans_see_every_row`: with a limit above the page size the cursors of the
  shards stand at different keys. A row that migrates between two pages from a
  shard whose cursor is before it to one whose cursor is past it is on none of
  the later pages, without an error. The comment in `src/index.ts:3607` says a
  scan must see every existing row.
* `rollback_precedes_discard`: a coordinator executed its irreversible discard
  and the answer was lost. The restore still counts it as to be discarded, so
  a rollback is accepted, against the runbook
  (`docs/runbooks/fleet-pitr.md:236`).
* `mirror_after_flip`: the cutover drains the mirrors before it counts the
  prepared intents. A transaction prepared before the fence commits between the
  two and queues a mirror nobody waits for. If its write left the row as the
  target has it the checksums agree and the map flips; the old source's alarm
  may then deliver that mirror over a newer write, though
  `src/catalog.ts:4117` says that no mirror can still land after the flip.

The models show further behaviour that a reader of the docs would not expect.
It is part of the next-state relations, and the properties are stated around it:

* Armed before decided. The coordinator arms its alarm, awaits hashes, then
  stores the decision; the alarm can fire in between, find nothing and be
  consumed. A later request, or the shards' own sweeps, go on.
* A release that is overwritten. A failing alarm reschedules the action it read
  over the release item a concurrent commit queued: the manifest row is then
  never released.
* Quarantine overwrites the decision column; the terminal request survives,
  and everything that matters relies on that.
* A mirror job in a batch that a shard's alarm has read is delivered even if
  the queue was purged meanwhile by a rewind or an abort; it can reach a copy
  after the cutover compared it.
* A request that resolved its route before a move can arrive after the old
  source was unfenced, and then writes to a shard the map no longer names.
* An index intent that a transaction prepared before the fence is applied to
  the drained shard after its entries were deleted, though
  `src/catalog.ts:3406` says no new write can arrive.
* A catalog that cannot be reached is skipped when the drain flushes queued
  index jobs: the jobs of its shards may arrive after the evacuation, where only the
  fence turns them to the new ring.
* A drop deletes the entries of the ring it knows. A write in flight, a backfill
  tick, or a shard that was not reached can leave entries behind it, and an
  index that is created anew under the same name inherits them.
* After a lapsed topology lease, a tick that passed its check can overlap the
  next operation.
* A coordinator that registers late while the restore is parked in its fencing
  moves the stage to resume to the losses (`src/restore.ts:614`). The retry then
  skips the fences that were missing: it finds participants it does not expect,
  can neither go on nor, having armed none, be rolled back, and the gate stays
  closed. No shard is rewound without its fence.
* A shard that was armed by a staging call whose answer was lost is not undone
  by a rollback. It stays armed behind an open gate, acknowledges writes, and
  rewinds at its next restart; a later restore that completes does not report
  those writes.

## 5. Proofs

All are for any constants. What is assumed of them is that sizes and times are
natural numbers, that a page holds at least one row, and that a set which the
code counts or orders is finite (the `ASSUME` of each module). There is no
bound on failures, calls in progress, resolutions or restarts; where a model
caps a counter the cap is any number. A step in which `Next` does something is
first classified by what it touches (`StepIs`, `StepShape`, `RowMoves`), so each
part of an invariant is shown once per class.

**Participant** (`CrossShardTxProofs`, its first part). `ParticipantInv` is inductive. One
application and `LocksFollowIntents` are not inductive alone: the sweep applies
whatever intents it finds, so one needs that a sweep with an answer holds the
barrier over prepared intents. From it follow `AppliesOnce`,
`LocksAreAccounted` and `DecisionsAreFinal`.

**Transaction** (`CrossShardTxProofs`). `Inv` is inductive; `TypeCorrect`,
`AuthorizesOne`, `CommitsOnAuthority` and `Atomic` follow. The argument follows
the evidence:

* the two terminal requests are stored by a compare-and-set from states that
  have neither (`RowsAgree`);
* whatever a fiber remembers over an await (`FibersOK`), a message or an
  operator's request says (`MessagesOK`), or a shard recorded
  (`OutcomesFollow`) implies the terminal it serves was authorized, and that
  never becomes false;
* votes that were counted are held until an abort is authorized (`VotesHeld`).

The control operators (`Await`, `Resume`, `Return`, ...) have one lemma each,
saying that they keep what fibers remember justified if the row they go on with
is a true one; each action then only shows what it does to the row.

A second invariant, `RecordInv`, is proved on top of the first, with the single
alarm and its work (`AlarmHasWork`), what an answer says of the manifest row and
of the participants (`AnswerOK`) and what a remembered row still tells
(`MemoryOK`). From it: `RecordsTrue`, `QuarantineHasEvidence`, `WorkIsQueued`,
`LocksHeldInSystem`; `StepsAreLegal`, for every move of the row is one of the
table (`RowMoves`); and `Implements`, that the whole protocol refines
`AtomicCommit`, in which a client is told the verdict that the terminal requests
fix (`Verdict`, `Parts`, `ClientTold`).

**Bucket** (`ManifestBucketProofs`). `BucketInv` is inductive:

* `RowsTrue`: decision times are unique, above 0, and none is past the last one
  that was assigned;
* `GenTrue`: what a draining generation has digested is held; what a complete
  one has digested is held or was taken by retention, and covers every decision
  up to its cutoff; a cutoff is at or below the floor, so no decision comes
  below it;
* `SealerTrue`: while nothing raised the evidence revision, a batch that waits
  for its hash is what comes after the cursor it was read at, though other seal
  steps moved the generation meanwhile;
* `ReaderTrue`: what a reader has is the sealed range up to its cursor.

Two arguments are about the operators alone: a decision's place in `InOrder` is
the number of decisions up to it (`RanksFit`, `InOrderIsSorted`), and a digest
of as many distinct members as there are members has them all
(`CountIsComplete`), which is all the code compares before it publishes. From
the invariant follow `BucketTypes`, `EnumerationsComplete` and `RetentionSafe`
(after its hash the sweep asks again, for the time at which it began, and a
lease that is live now was live then), and `ImplementsLog`, the refinement of
`SealedLog`: a decision is later than every cutoff, a receipt names exactly the
log up to its cutoff, and every other step forgets at most.

**Fleet** (`FleetCatalogProofs`). `FleetInv` is inductive. `LegacyIsBehind` and
`FloorsAtBoundary` give `Coverage`: the boundary is stored before a V2 route is
served and reaches every bucket with the reservation. `RowsTrue`, `SnapsTrue`
and `PagesTrue` give `SnapshotTrue`: the stored entries are the prefix of the
fence that was read, and a page that was read is the next part of it or fails
the comparison. `UsedIsActive` and `SnapsCover` say why a bucket that a snapshot
does not list cannot gain a decision at the cutoff: it was activated after the
floor was raised, or retired when nothing was open. With `ReceiptsTrue` it
follows that a root that is published has the whole log (`Rooted`), and
`FleetImplementsLog`.

**Migration** (`VbucketMigrationProofs`). `MigrationInv` ties the step of the
running handler to the status of the map: `FencesOwned` and `NeverWiped` follow
(`OneMover`: without a lapsed lease the checked call is the only one). `CopyInv`
says where each mirror is: run at its target, excused, or in the served shard's
queue before the drain (`JobsAreAccounted`); that the source is quiet once the
prepared intents were counted (`SourceIsQuiet`); and that the checksums taken
still hold (`CopiesAgree`). From it `RoutedCopyTrue`.

**Index** (`IndexRingProofs`). `RingInv` is inductive. `DrainTrue`: the steps of
a drain come in order, fence before marker before anything is moved, and the
fence stays to the end. `RulesTrue` and `AgreeTrue`: a catalog without the index
has nothing of it, and when a marker goes the rings agree again. `AwayTrue`: the
shard leaves the ring before its entries are copied, and nothing puts it back.
The last two alone do not say that the shard stays empty, for what is on its way
to it may have been sent long before: `WritesTied` says that an index write
which may go to the shard finds it in the ring or fenced, unless its index was
dropped since it began; `FillTied` says so of a backfill tick. With them
`SourceTrue` is kept by every step: out of the ring, the shard has only entries
that are let off. It follows that `RingsAlwaysAgree`, `EvacuatedEmpty` and
`IndexTypes`. The proof showed that entries an earlier index left behind have to
be let off (section 4).

`QueriesFindRows` needs more than where an entry may not be, and `FindInv` adds
to `RingInv` where it is, for every row the code does not give up on (`LetOff`):

* `OneWriter`: such a row has one write at a time, what that write read is still
  so, and its index writes take away no entry the row is due (`Due`: the value
  it has, or the one a decided transaction will give it);
* `OpsTrue`: a backfill that holds the lock is of the index now registered, and
  no lock is held that is older than the call of the gateway in progress;
* `CloseTrue`: rings differ only by the substitute a marked evacuation has put
  in the shard's place;
* `AimTrue`, while the tenant's catalog has a ring that no finished drain left
  behind (`Whole`): every write, outstanding job and backfill tick sends its entry
  where the tenant's catalog has it, to the substitute ahead of that catalog's
  repoint, or to the fenced shard, which refuses it;
* `FilledTrue`, likewise: a row the backfill has behind it is `Settled`: its entry is in
  the ring, at the read-shadow or at the substitute, or a write of it is out;
* `CopyTrue`: what a drain copied, or may delete at the source, is at the
  substitute, so that `MoveDeletes` takes no row's last entry;
* `QueryTrue`: a fair query has its row's entry at a shard it has yet to read,
  or has found it.

The invariant was first checked by TLC, on the run's instance and on six others.
It follows (`FindSafe`, `RowsAreFound`) that queries find their rows for any
rows, keys, shards, catalogs, clients and page size.

**Scan** (`TableScanProofs`). `OwnersInv`: what the backfill has behind it hides
nothing, hence `CertifiedTablesHideNothing`. `ScanInv`: a row that stays was
counted once exactly when its shard's cursor passed it, hence `ScansAreExact`.
`FollowInv`: a row that moves is, until it was returned, ahead of every cursor,
hence `MovedRowsSeen`. `CallsAdvance`: a call moves the cursor or ends.

**Restore** (`RestoreProofs`). `RestoreInv` is inductive. It is long
because a restore spans every object and may stop anywhere:

* `StageTrue`, `PartTrue`: the gate, the stage (the one to resume, when parked)
  and the status of each participant go together, and a participant has an undo
  bookmark from its arming on;
* `MarkTrue`: what that status says of the shard's fence marker and of what its
  provider is armed with, the answers that were lost in between included;
* `HoldTrue`: a request that holds a barrier is as it was admitted, and a
  fenced shard has none;
* `DecidedTrue`: nothing is committed undecided, and a shard that is back has
  only what the cutoff has;
* `WorkTrue`, `EndedTrue`: what the inventory says of each coordinator, of this
  restore and of those that ended;
* `DoomTrue`: a transaction that aborted, was discarded or was missed by a
  restore can commit no more: no shard has it committed, no checkpoint brings it
  back, and only such transactions are aborted;
* `KeptTrue`: an acknowledged write is at its shard, in what an undo brings
  back, or reported;
* `ReplayTrue`: what was replayed is committed everywhere.

A step of a closed operation is, at each shard, one of ten moves (`Move`), so
each part is shown once per move. It follows that restored fleets open whole
(`FleetStaysWhole`), that reports are complete (`ReportIsComplete`), that
transactions stay atomic (`RestoresAreAtomic`) and that what was rewound stays
so (`RewoundForEver`), for any number of shards, transactions, restores and
faults. The proof showed why `LossesAreReported` has to excuse `stray`: without
it the claim holds in the run's instance and fails in a larger one, where TLC
finds the case too (two restores, two faults, a write to the second shard). The
proof assumes that shards are numbered as the coordinator orders its
participants (`RestoreAssumption`).

`AtomicCommit` and `SealedLog` themselves (`AbstractProofs`): the abstract
transaction keeps `Consistent` and `ToldTruth`; a published seal stays complete
(`SealedForEver`), and with the two refinements so do the receipts of a bucket
and of the fleet.

**Model-checked only.** Liveness (`ArmedWorkConverges`, `LocksReleased`,
`MigrationEnds`, `DrainingEnds`), for fairness and ENABLED are out of the
prover's reach; and the runs whose property is violated.

## 6. Plan

Every invariant and every action property that the passing runs check is stated
by a theorem. What would come next is more of the system, first the parts that
section 7 lists, and not more about these modules.

## 7. Not modelled

* V1 registration, the V1 to V2 bridge and the adoption of legacy rows in the
  coordinator: an upgrade path. `FleetCatalog` has what a V1 registration
  means for the coverage boundary.
* The manifest admission circuit: a coordinator serves one transaction id, so
  the circuit counts the retries of one /begin. It changes how long they wait
  and decides nothing.
* The life of tenant tokens, quotas other than the scan's, table and schema
  administration: each is one lookup or one write in one object.
* Collation and SQL text: which of two texts sorts first, whether a statement
  is allowed. SQL safety, structured operations, authentication and hashing are
  pure string functions.
* Drain of virtual buckets by a drain operation: each is a `VbucketMigration`
  under the drain's lock; `IndexRing` starts where they have moved.
* Client, dashboards, load generators: no protocol state. Fault injection: its
  faults are actions here.
