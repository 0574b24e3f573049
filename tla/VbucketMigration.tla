-------------------------- MODULE VbucketMigration --------------------------
(***************************************************************************)
(* One virtual bucket moving between shards while clients write to it: the  *)
(* catalog's alarm and abort handler (src/catalog.ts), the shards' copies,  *)
(* write fences, mirror queues and prepared intents (src/shard.ts), the     *)
(* topology lease the gateway takes for the move, and client writes that    *)
(* resolve a route first and reach the shard later (src/index.ts).          *)
(*                                                                         *)
(* Every call to a shard is a step of its own; anything may happen between  *)
(* two of them.  A tick or an abort may stop at any step, because a call    *)
(* failed, its answer was lost or the catalog restarted (StopHandler).      *)
(* The rows of the vbucket are 1..NRows in export order, one per page; two  *)
(* writes may give a row the same contents.                                *)
(***************************************************************************)
EXTENDS Naturals, SequencesExt

CONSTANTS Shards,        \* the active shards of the catalog
          Home,          \* the shard that holds the vbucket first
          NRows,         \* rows of the vbucket, in export order
          Writes,        \* client request ids
          Statement,     \* what each request does: its row, its kind, the
                         \* contents it writes, and its path
          Contents,      \* what a row may hold
          Absent,        \* a row that is not there
          Seeded,        \* the contents of a row written before the moves
          NoShard,
          MaxMigrations, \* moves requested
          MaxFailures    \* ticks, aborts and deliveries that stop half way,
                         \* topology leases that expire or are forced,
                         \* requests that a client sends again

Rows == 1 .. NRows
Values == Contents \cup {Absent}
Operations == 0 .. MaxMigrations      \* topology lock ids; 0: not held

ASSUME MigrationAssumption ==
    /\ Home \in Shards /\ NoShard \notin Shards
    /\ NRows \in Nat \ {0}
    /\ Seeded \in Contents /\ Absent \notin Contents
    /\ Statement \in [Writes -> [row : Rows,
                                 kind : {"insert", "upsert", "update", "delete"},
                                 value : Contents,
                                 path : {"execute", "tx"}]]
    /\ {MaxMigrations, MaxFailures} \subseteq Nat

VARIABLES
    map,       \* the vbucket's row of vbucket_map
    lock,      \* the topology lock: the operation that holds it
    calls,     \* /migrate-vbucket calls between their check and their claim
    handler,   \* the tick or abort that runs: its next step and its locals
    store,     \* the vbucket's rows on each shard
    fenced,    \* shards with a fence row for the vbucket
    queue,     \* __cf_mirror_pending of each shard
    batch,     \* the jobs a shard's alarm read and has yet to deliver
    requests,  \* request ids each shard has applied (applied_requests)
    mirrors,   \* mirror ids each shard has applied (applied_requests)
    intents,   \* prepared 2PC intents of each shard
    flights,   \* routed requests that have not reached their shard
    ghost,     \* what a correct store would hold, and the writes that strayed
    used       \* how much of each bound is used

mapVars == <<map, lock, calls>>
shardVars == <<store, fenced, queue, requests, mirrors, intents>>
vars == <<map, lock, calls, handler, store, fenced, queue, batch, requests,
          mirrors, intents, flights, ghost, used>>

-----------------------------------------------------------------------------
(* What a statement does to a row. *)

\* A plain INSERT fails on the primary key; the other kinds always execute.
Fails(w, copy) == Statement[w].kind = "insert" /\ copy[Statement[w].row] # Absent

\* rowsAffected > 0
Touches(w, copy) ==
    Statement[w].kind \in {"update", "delete"} => copy[Statement[w].row] # Absent

Run(w, copy) ==
    IF ~Touches(w, copy) THEN copy
    ELSE [copy EXCEPT ![Statement[w].row] =
             IF Statement[w].kind = "delete" THEN Absent ELSE Statement[w].value]

Routed == map.shard

Jobs == [write : Writes, to : Shards]

Queued(s) == {queue[s][i] : i \in DOMAIN queue[s]}

NoMap == [shard |-> NoShard, status |-> "none", target |-> NoShard,
          cursor |-> 0, cleanup |-> NoShard, op |-> 0]

Resting == [pc |-> "idle", at |-> 0, value |-> Absent, side |-> NoShard,
            seen |-> [r \in Rows |-> Absent]]

Init ==
    /\ map = [NoMap EXCEPT !.shard = Home]
    /\ lock = 0
    /\ calls = {}
    /\ handler = Resting
    /\ \E present \in SUBSET Rows :
         store = [s \in Shards |->
                    [r \in Rows |-> IF s = Home /\ r \in present THEN Seeded ELSE Absent]]
    /\ fenced = {}
    /\ queue = [s \in Shards |-> <<>>]
    /\ batch = [s \in Shards |-> <<>>]
    /\ requests = [s \in Shards |-> {}]
    /\ mirrors = [s \in Shards |-> {}]
    /\ intents = [s \in Shards |-> {}]
    /\ flights = {}
    /\ ghost = [truth |-> store[Home], stranded |-> {}, purged |-> {},
                undrained |-> {}, landed |-> {}, late |-> {}]
    /\ used = [migrations |-> 0, failures |-> 0, lapses |-> 0,
                sent |-> {}]

-----------------------------------------------------------------------------
(* Client writes. *)

CanFail == used.failures < MaxFailures
Failed(u) == [u EXCEPT !.failures = @ + 1]

\* The gateway resolves the route: the shard, and while the vbucket moves the
\* target the shard must mirror the write to.  A client whose answer was lost
\* sends the request again; the coordinator sends a transaction's intent once.
Route(w) ==
    /\ \/ w \notin used.sent /\ used' = [used EXCEPT !.sent = @ \cup {w}]
       \/ /\ w \in used.sent /\ Statement[w].path = "execute" /\ CanFail
          /\ used' = Failed(used)
    /\ flights' = flights \cup
         {[write |-> w, shard |-> Routed,
           mirror |-> IF map.status \in {"backfilling", "cutover"}
                      THEN map.target ELSE NoShard]}
    /\ UNCHANGED <<mapVars, handler, shardVars, batch, ghost>>

At(step) == handler.pc = step

RowLocked(s, w) == \E i \in intents[s] : Statement[i.write].row = Statement[w].row

\* The copy that the cutover has verified, to be served next.
Verified(t) ==
    /\ t = map.target
    /\ \/ At("holds") \/ At("flip")
       \/ At("compare") /\ handler.side = t

\* A write changes a copy other than by its way through the routed shard: late
\* (the first time) when the copy is served, landed when it was verified to be
\* served next.
Stray(w, s) ==
    [ghost EXCEPT !.late   = IF s = Routed /\ @ = {} THEN {w} ELSE @,
                  !.landed = IF Verified(s) THEN @ \cup {w} ELSE @]

\* A mirror queued after the drain found the queue empty and before the prepared
\* intents are counted: the tick looks at neither again.
Slips(w, s, mirror) ==
    At("intents") /\ s = Routed /\ mirror # NoShard /\ Touches(w, store[s])

\* The shard runs the statement and queues its mirror in one transaction.
Apply(s, w, mirror) ==
    /\ store' = [store EXCEPT ![s] = Run(w, @)]
    /\ queue' = IF mirror # NoShard /\ Touches(w, store[s])
                THEN [queue EXCEPT ![s] = Append(@, [write |-> w, to |-> mirror])]
                ELSE queue
    /\ ghost' = IF s = Routed
                THEN [ghost EXCEPT
                        !.truth = Run(w, @),
                        !.undrained = IF Slips(w, s, mirror) THEN @ \cup {w} ELSE @]
                ELSE IF ~Touches(w, store[s]) THEN ghost
                ELSE [Stray(w, s) EXCEPT !.stranded = @ \cup {w}]

\* The request ids that /execute looks up: the replay of an applied one is
\* answered from the cache, before the fence and the row lock are looked at.
Replayed(s, w) == w \in requests[s]

Refused(s, w) == s \in fenced \/ RowLocked(s, w) \/ Fails(w, store[s])

Execute(f) ==
    LET s == f.shard  w == f.write
    IN /\ Statement[w].path = "execute"
       /\ flights' = flights \ {f}
       /\ IF Replayed(s, w) \/ Refused(s, w)
          THEN UNCHANGED <<store, queue, requests, ghost>>
          ELSE /\ Apply(s, w, f.mirror)
               /\ requests' = [requests EXCEPT ![s] = @ \cup {w}]
       /\ UNCHANGED <<mapVars, handler, fenced, batch, mirrors, intents, used>>

\* A transaction's intent is prepared under the same fence and locks, and only
\* if it touches a row; its mirror target is the one of the route it came by.
Prepare(f) ==
    /\ Statement[f.write].path = "tx"
    /\ flights' = flights \ {f}
    /\ intents' = IF Refused(f.shard, f.write) \/ ~Touches(f.write, store[f.shard])
                  THEN intents
                  ELSE [intents EXCEPT ![f.shard] =
                          @ \cup {[write |-> f.write, mirror |-> f.mirror]}]
    /\ UNCHANGED <<mapVars, handler, store, fenced, queue, batch, requests,
                   mirrors, ghost, used>>

\* The coordinator's decision is applied whether or not the vbucket is fenced.
CommitIntent(s, i) ==
    /\ ~Fails(i.write, store[s])
    /\ intents' = [intents EXCEPT ![s] = @ \ {i}]
    /\ Apply(s, i.write, i.mirror)
    /\ UNCHANGED <<mapVars, handler, fenced, batch, requests, mirrors, flights, used>>

AbortIntent(s, i) ==
    /\ intents' = [intents EXCEPT ![s] = @ \ {i}]
    /\ UNCHANGED <<mapVars, handler, store, fenced, queue, batch, requests,
                   mirrors, flights, ghost, used>>

-----------------------------------------------------------------------------
(* Mirror jobs. *)

\* The target runs a mirror under its own request id, with neither fence nor
\* lock, and records the client's request id with it.
MirrorApplied(job) ==
    \/ job.write \in mirrors[job.to]
    \/ ~Fails(job.write, store[job.to])

Mirror(job) ==
    LET t == job.to  w == job.write
    IN IF w \in mirrors[t] \/ Fails(w, store[t])
       THEN UNCHANGED <<store, mirrors, requests, ghost>>
       ELSE /\ store' = [store EXCEPT ![t] = Run(w, @)]
            /\ mirrors' = [mirrors EXCEPT ![t] = @ \cup {w}]
            /\ requests' = IF Statement[w].path = "execute"
                           THEN [requests EXCEPT ![t] = @ \cup {w}] ELSE requests
            /\ ghost' = IF Touches(w, store[t]) THEN Stray(w, t) ELSE ghost

\* The alarm reads the jobs that are due and delivers them one by one, without
\* the shard's mutation barrier.
AlarmReads(s) ==
    /\ batch[s] = <<>> /\ queue[s] # <<>>
    /\ batch' = [batch EXCEPT ![s] = queue[s]]
    /\ UNCHANGED <<mapVars, handler, shardVars, flights, ghost, used>>

\* A job leaves the queue when its answer came; it stays, for a later alarm,
\* when the answer was lost or the target refused it.
AlarmDelivers(s) ==
    /\ batch[s] # <<>>
    /\ LET job == Head(batch[s])
       IN /\ Mirror(job)
          /\ \E answered \in BOOLEAN :
               /\ answered \/ CanFail
               /\ used' = IF answered THEN used ELSE Failed(used)
               /\ queue' = IF answered /\ MirrorApplied(job)
                           THEN [queue EXCEPT ![s] = RemoveFirst(@, job)] ELSE queue
    /\ batch' = [batch EXCEPT ![s] = Tail(@)]
    /\ UNCHANGED <<mapVars, handler, fenced, intents, flights>>

\* The target did not answer and did not run the job: it waits for its backoff.
AlarmSkips(s) ==
    /\ batch[s] # <<>> /\ CanFail
    /\ used' = Failed(used)
    /\ batch' = [batch EXCEPT ![s] = Tail(@)]
    /\ UNCHANGED <<mapVars, handler, shardVars, flights, ghost>>

\* A queue emptied under its jobs: the ones that were never delivered.
Purged(s) == {j.write : j \in {k \in Queued(s) : k.write \notin mirrors[k.to]}}

-----------------------------------------------------------------------------
(* Starting a move. *)

\* The gateway takes the topology lock; the catalog checks the vbucket and
\* asks its shard for unattributed rows.
RequestMigration(t) ==
    /\ used.migrations < MaxMigrations /\ lock = 0
    /\ map.status = "none" /\ map.cleanup = NoShard /\ t # Routed
    /\ used' = [used EXCEPT !.migrations = @ + 1]
    /\ lock' = used.migrations + 1
    /\ calls' = calls \cup {[op |-> used.migrations + 1, target |-> t]}
    /\ UNCHANGED <<map, handler, shardVars, batch, flights, ghost>>

\* The conditional update; the loser's lock is released by the gateway.
ClaimMigration(c) ==
    /\ calls' = calls \ {c}
    /\ IF map.status = "none" /\ map.cleanup = NoShard
       THEN /\ map' = [map EXCEPT !.status = "backfilling", !.target = c.target,
                                  !.cursor = 0, !.op = c.op]
            /\ lock' = lock
       ELSE /\ map' = map
            /\ lock' = IF lock = c.op THEN 0 ELSE lock
    /\ UNCHANGED <<handler, shardVars, batch, flights, ghost, used>>

\* A lease expires, or an operator forces its release.
LeaseLapses ==
    /\ lock # 0 /\ CanFail
    /\ lock' = 0
    /\ used' = [Failed(used) EXCEPT !.lapses = @ + 1]
    /\ UNCHANGED <<map, calls, handler, shardVars, batch, flights, ghost>>

-----------------------------------------------------------------------------
(* The alarm's tick.  migrationTickInFlight keeps ticks and aborts apart.  *)

Goto(step) == handler' = [handler EXCEPT !.pc = step]
Rest == handler' = Resting

tickVars == <<batch, flights>>

Beats == lock = map.op      \* heartbeat or holds-topology-lock says yes

BeginBackfill ==
    /\ At("idle") /\ map.status = "backfilling" /\ Beats
    /\ handler' = [handler EXCEPT !.pc = "export", !.at = map.cursor]
    /\ UNCHANGED <<mapVars, shardVars, tickVars, ghost, used>>

BeginCutover ==
    /\ At("idle") /\ map.status = "cutover" /\ Beats
    /\ Goto("fence")
    /\ UNCHANGED <<mapVars, shardVars, tickVars, ghost, used>>

\* The retried cleanup looks at neither the status nor the lease.
BeginCleanup ==
    /\ At("idle") /\ map.cleanup # NoShard
    /\ Goto("delete")
    /\ UNCHANGED <<mapVars, shardVars, tickVars, ghost, used>>

\* Mutant: the row at the cursor is exported again.
RemainingFromCursor == {r \in Rows : r >= handler.at /\ store[map.shard][r] # Absent}

Remaining == {r \in Rows : r > handler.at /\ store[map.shard][r] # Absent}

Export ==
    /\ At("export") /\ Remaining # {}
    /\ \E r \in Remaining :
         /\ \A q \in Remaining : r <= q
         /\ handler' = [handler EXCEPT !.pc = "import", !.at = r,
                                       !.value = store[map.shard][r]]
    /\ UNCHANGED <<mapVars, shardVars, tickVars, ghost, used>>

\* After a page the tick goes on, or saves its cursor and stops.
Import ==
    /\ At("import")
    /\ store' = [store EXCEPT ![map.target][handler.at] = handler.value]
    /\ \E step \in {"export", "save"} :
         handler' = [handler EXCEPT !.pc = step, !.value = Absent]
    /\ UNCHANGED <<mapVars, fenced, queue, requests, mirrors, intents, tickVars,
                   ghost, used>>

\* Mutant: the saved cursor is past the last page.
SaveNextCursor ==
    /\ At("save")
    /\ map' = [map EXCEPT !.cursor = handler.at + 1]
    /\ Rest
    /\ UNCHANGED <<lock, calls, shardVars, tickVars, ghost, used>>

SaveCursor ==
    /\ At("save")
    /\ map' = [map EXCEPT !.cursor = handler.at]
    /\ Rest
    /\ UNCHANGED <<lock, calls, shardVars, tickVars, ghost, used>>

EnterCutover ==
    /\ At("export") /\ Remaining = {}
    /\ map' = [map EXCEPT !.status = "cutover", !.cursor = 0]
    /\ handler' = [Resting EXCEPT !.pc = "fence"]
    /\ UNCHANGED <<lock, calls, shardVars, tickVars, ghost, used>>

Fence ==
    /\ At("fence")
    /\ fenced' = fenced \cup {map.shard}
    /\ Goto("drain")
    /\ UNCHANGED <<mapVars, store, queue, requests, mirrors, intents, tickVars,
                   ghost, used>>

\* /drain-mirror-jobs delivers every job it can reach.
DrainMirror(job) ==
    /\ At("drain") /\ job \in Queued(map.shard)
    /\ MirrorApplied(job)
    /\ Mirror(job)
    /\ queue' = [queue EXCEPT ![map.shard] = RemoveFirst(@, job)]
    /\ UNCHANGED <<mapVars, handler, fenced, intents, tickVars, used>>

DrainEnds ==
    /\ At("drain")
    /\ IF queue[map.shard] = <<>> THEN Goto("intents")
       ELSE /\ \A job \in Queued(map.shard) : ~MirrorApplied(job)
            /\ Rest
    /\ UNCHANGED <<mapVars, shardVars, tickVars, ghost, used>>

\* Mutant: prepared intents are not counted.
CountIntentsSkipped ==
    /\ At("intents") /\ Goto("sums")
    /\ UNCHANGED <<mapVars, shardVars, tickVars, ghost, used>>

CountIntents ==
    /\ At("intents")
    /\ IF intents[map.shard] = {} THEN Goto("sums") ELSE Rest
    /\ UNCHANGED <<mapVars, shardVars, tickVars, ghost, used>>

\* /migrate-checksums digests every row: equal for equal copies only.
Checksum(s) == store[s]

\* The two checksums are requested together and computed in either order.
FirstChecksum(s) ==
    /\ At("sums") /\ s \in {map.shard, map.target}
    /\ handler' = [handler EXCEPT !.pc = "compare", !.side = s, !.seen = Checksum(s)]
    /\ ghost' = [ghost EXCEPT !.landed = {}]
    /\ UNCHANGED <<mapVars, shardVars, tickVars, used>>

SecondChecksum ==
    /\ At("compare")
    /\ \E s \in {map.shard, map.target} :
         /\ s # handler.side \/ map.shard = map.target
         /\ handler' = [Resting EXCEPT !.pc =
                          IF Checksum(s) = handler.seen THEN "holds" ELSE "unfence"]
    /\ UNCHANGED <<mapVars, shardVars, tickVars, ghost, used>>

\* A mismatch lifts the fence, purges the mirrors and wipes the target; an
\* abort runs the same three calls.
LiftFence ==
    /\ \/ At("unfence") /\ Goto("purge")
       \/ At("abort unfence") /\ Goto("abort purge")
    /\ fenced' = fenced \ {map.shard}
    /\ UNCHANGED <<mapVars, store, queue, requests, mirrors, intents, tickVars,
                   ghost, used>>

PurgeMirrors ==
    /\ \/ At("purge") /\ Goto("wipe")
       \/ At("abort purge") /\ Goto("abort wipe")
    /\ queue' = [queue EXCEPT ![map.shard] = <<>>]
    /\ ghost' = [ghost EXCEPT !.purged = @ \cup Purged(map.shard)]
    /\ UNCHANGED <<mapVars, store, fenced, requests, mirrors, intents, tickVars, used>>

\* /delete-vbucket-rows on shard s: the rows, and the shard's own mirror jobs.
DeleteRows(s) ==
    /\ store' = [store EXCEPT ![s] = [r \in Rows |-> Absent]]
    /\ queue' = [queue EXCEPT ![s] = <<>>]
    /\ ghost' = [ghost EXCEPT !.purged = @ \cup Purged(s)]

WipeTarget ==
    /\ \/ At("wipe") /\ Goto("rewind")
       \/ At("abort wipe") /\ Goto("clear")
    /\ DeleteRows(map.target)
    /\ UNCHANGED <<mapVars, fenced, requests, mirrors, intents, tickVars, used>>

Rewind ==
    /\ At("rewind")
    /\ map' = [map EXCEPT !.status = "backfilling"]
    /\ Rest
    /\ UNCHANGED <<lock, calls, shardVars, tickVars, ghost, used>>

\* The lease is looked at again, and the map flips.
CheckLease ==
    /\ At("holds")
    /\ IF Beats THEN Goto("flip") ELSE Rest
    /\ UNCHANGED <<mapVars, shardVars, tickVars, ghost, used>>

\* Mutant: the shard to clean up is read after the map was updated.
FlipCleansTarget ==
    /\ At("flip")
    /\ map' = [map EXCEPT !.shard = map.target, !.status = "none",
                          !.target = NoShard, !.cleanup = map.target]
    /\ ghost' = [ghost EXCEPT !.late = IF @ = {} THEN ghost.landed ELSE @, !.landed = {}]
    /\ Goto("delete")
    /\ UNCHANGED <<lock, calls, shardVars, tickVars, used>>

Flip ==
    /\ At("flip")
    /\ map' = [map EXCEPT !.shard = map.target, !.status = "none",
                          !.target = NoShard, !.cleanup = map.shard]
    /\ ghost' = [ghost EXCEPT !.late = IF @ = {} THEN ghost.landed ELSE @, !.landed = {}]
    /\ Goto("delete")
    /\ UNCHANGED <<lock, calls, shardVars, tickVars, used>>

DeleteSource ==
    /\ At("delete")
    /\ DeleteRows(map.cleanup)
    /\ Goto("unfence source")
    /\ UNCHANGED <<mapVars, fenced, requests, mirrors, intents, tickVars, used>>

UnfenceSource ==
    /\ At("unfence source")
    /\ fenced' = fenced \ {map.cleanup}
    /\ Goto("release")
    /\ UNCHANGED <<mapVars, store, queue, requests, mirrors, intents, tickVars,
                   ghost, used>>

\* The move ends: its lock is released, its row cleared.
EndMigration ==
    /\ \/ At("release") /\ map' = [map EXCEPT !.cleanup = NoShard, !.op = 0]
       \/ At("clear") /\ map' = [NoMap EXCEPT !.shard = map.shard, !.cleanup = map.cleanup]
    /\ lock' = IF lock = map.op THEN 0 ELSE lock
    /\ Rest
    /\ UNCHANGED <<calls, shardVars, tickVars, ghost, used>>

\* Mutant: an abort forgets the source's fence.
AbortKeepsFence ==
    /\ At("idle") /\ map.status # "none" /\ map.target # NoShard
    /\ map' = [map EXCEPT !.status = "aborting"]
    /\ Goto("abort purge")
    /\ UNCHANGED <<lock, calls, shardVars, tickVars, ghost, used>>

\* /migrate-vbucket-abort waits for the tick's latch and takes it.
Abort ==
    /\ At("idle") /\ map.status # "none" /\ map.target # NoShard
    /\ map' = [map EXCEPT !.status = "aborting"]
    /\ Goto("abort unfence")
    /\ UNCHANGED <<lock, calls, shardVars, tickVars, ghost, used>>

\* A call failed or its answer was lost, or the catalog restarted.
StopHandler ==
    /\ ~At("idle") /\ CanFail
    /\ used' = Failed(used)
    /\ Rest
    /\ UNCHANGED <<mapVars, shardVars, tickVars, ghost>>

-----------------------------------------------------------------------------
Client ==
    \/ \E w \in Writes : Route(w)
    \/ \E f \in flights : Execute(f) \/ Prepare(f)
    \/ \E s \in Shards : \E i \in intents[s] : CommitIntent(s, i) \/ AbortIntent(s, i)

Alarm(s) == AlarmReads(s) \/ AlarmDelivers(s)

Tick ==
    \/ BeginBackfill \/ BeginCutover \/ BeginCleanup
    \/ Export \/ Import \/ SaveCursor \/ EnterCutover
    \/ Fence \/ DrainEnds \/ CountIntents
    \/ \E s \in Shards : \E job \in Queued(s) : DrainMirror(job)
    \/ \E s \in Shards : FirstChecksum(s)
    \/ SecondChecksum \/ CheckLease \/ Flip
    \/ LiftFence \/ PurgeMirrors \/ WipeTarget \/ Rewind
    \/ DeleteSource \/ UnfenceSource \/ EndMigration

Next ==
    \/ Client
    \/ \E s \in Shards : Alarm(s) \/ AlarmSkips(s)
    \/ \E t \in Shards : RequestMigration(t)
    \/ \E c \in calls : ClaimMigration(c)
    \/ LeaseLapses
    \/ Tick
    \/ Abort
    \/ StopHandler

Spec == Init /\ [][Next]_vars

(***************************************************************************)
(* The catalog's alarm re-arms while a move is active, a shard's while jobs *)
(* are queued; coordinators decide the transactions they prepared.          *)
(***************************************************************************)
Fairness ==
    /\ WF_vars(Tick)
    /\ \A s \in Shards : WF_vars(Alarm(s))
    /\ WF_vars(\E s \in Shards : \E i \in intents[s] : CommitIntent(s, i) \/ AbortIntent(s, i))

FairSpec == Spec /\ Fairness

-----------------------------------------------------------------------------
\* No topology lease has lapsed.
Undisturbed == used.lapses = 0

\* A queued mirror that its target refuses: an INSERT of a row it has copied.
MirrorRefused == \E s \in Shards : \E job \in Queued(s) : ~MirrorApplied(job)

(***************************************************************************)
(* A move that is copying or cutting over ends, flipped or aborted, through *)
(* rewinds and stopped ticks, as long as its lease is not lost and the      *)
(* target refuses no mirror (advanceMigration, catalog.ts:3724).            *)
(***************************************************************************)
MigrationEnds == (map.status \in {"backfilling", "cutover"} /\ Undisturbed)
                    ~> \/ map.status \in {"none", "aborting"}
                       \/ ~Undisturbed \/ MirrorRefused

Steps == {"idle", "export", "import", "save", "fence", "drain", "intents", "sums",
          "compare", "unfence", "purge", "wipe", "rewind", "holds", "flip", "delete",
          "unfence source", "release", "abort unfence", "abort purge", "abort wipe",
          "clear"}
Maps == [shard : Shards, status : {"none", "backfilling", "cutover", "aborting"},
         target : Shards \cup {NoShard}, cursor : 0 .. NRows,
         cleanup : Shards \cup {NoShard}, op : Operations]
Handlers == [pc : Steps, at : 0 .. NRows, value : Values,
             side : Shards \cup {NoShard}, seen : [Rows -> Values]]
Calls == [op : Operations, target : Shards]
Intents == [write : Writes, mirror : Shards \cup {NoShard}]
Requests == [write : Writes, shard : Shards, mirror : Shards \cup {NoShard}]
Uses == [migrations : 0 .. MaxMigrations, failures : Nat, lapses : Nat,
         sent : SUBSET Writes]

MigrationTypeOK ==
    /\ map \in Maps /\ lock \in Operations /\ calls \subseteq Calls
    /\ handler \in Handlers
    /\ store \in [Shards -> [Rows -> Values]]
    /\ fenced \subseteq Shards
    /\ queue \in [Shards -> Seq(Jobs)] /\ batch \in [Shards -> Seq(Jobs)]
    /\ requests \in [Shards -> SUBSET Writes]
    /\ mirrors \in [Shards -> SUBSET Writes]
    /\ intents \in [Shards -> SUBSET Intents]
    /\ flights \subseteq Requests
    /\ used \in Uses

(***************************************************************************)
(* The shard the map names holds every row as the accepted writes left it,  *)
(* through copy, cutover, rewind, abort and the move back, unless a mirror  *)
(* was applied to it after the cutover verified it or a lease lapsed        *)
(* (advanceMigration, catalog.ts:3929; the checksum gate, 4187).  Such a    *)
(* mirror was purged while an alarm still held it, its write had itself     *)
(* followed a route that was out of date, or a transaction queued it        *)
(* between the drain and the count of prepared intents: none of those the   *)
(* drain counted (catalog.ts:4114).                                         *)
(***************************************************************************)
RoutedCopyIsCurrent ==
    Undisturbed =>
        /\ ghost.late \subseteq ghost.purged \cup ghost.stranded \cup ghost.undrained
        /\ ghost.late = {} => store[Routed] = ghost.truth

(***************************************************************************)
(* catalog.ts:4117: once the count of queued mirrors "is zero no slow       *)
(* mirror can still land on the target after the flip".  So unless a mirror *)
(* was purged, or its write went astray, the served copy is what the        *)
(* accepted writes made of it.                                              *)
(***************************************************************************)
NoMirrorLandsAfterFlip ==
    Undisturbed /\ ghost.late \cap (ghost.purged \cup ghost.stranded) = {}
        => store[Routed] = ghost.truth

(***************************************************************************)
(* A fence row outlives no move: a fenced shard is the source of a cutover  *)
(* or of an abort under way, or awaits its cleanup (catalog.ts:4423, 4287). *)
(***************************************************************************)
FencesAreOwned ==
    \A s \in fenced : \/ s = Routed /\ map.status \in {"cutover", "aborting"}
                     \/ s = map.cleanup

(***************************************************************************)
(* Rows are deleted only on a shard the map does not name: the target of a  *)
(* rewind or an abort, the old source after a flip (catalog.ts:4287).       *)
(***************************************************************************)
RoutedCopyIsNeverWiped ==
    [][Undisturbed /\ (DeleteSource \/ WipeTarget)
         => \A s \in Shards : s = Routed => store'[s] = store[s]]_vars

=============================================================================
