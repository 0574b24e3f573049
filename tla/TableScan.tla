------------------------------ MODULE TableScan ------------------------------
(***************************************************************************)
(* /v1/table-scan: a tenant reads its rows of one table page by page       *)
(* (tableScanCore and mergeTableScanPages in src/index.ts), while its rows *)
(* are written, moved between shards, and given the owner entries          *)
(* (__cf_row_owners) that make them visible: /admin/backfill-provenance    *)
(* and /admin/set-row-owner.                                               *)
(*                                                                         *)
(* The gateway keeps nothing between two calls: what a scan has read is in *)
(* its cursor, one partition key per shard.  A call asks the catalog       *)
(* twice, then every shard, each at its own time, and merges the pages.    *)
(* A handler of a shard is one action, for it awaits nothing.              *)
(*                                                                         *)
(* Keys are numbers in the order of the BINARY collation, 0 is "".  Every  *)
(* key is a virtual bucket of its own; how one moves is VbucketMigration,  *)
(* of which only the contents of the two copies matter here: the copy of   *)
(* the target is brought to that of the source any number of times, by     *)
(* backfill pages and mirrored writes, and is equal to it at the flip.     *)
(***************************************************************************)
EXTENDS Naturals, FiniteSets, FiniteSetsExt

CONSTANTS
  NKeys,       \* partition keys of the table
  Shards,      \* natural numbers, in the order of the shard ids
  PageSize,    \* TENANT_SCAN_PAGE_SIZE
  Limits,      \* the limits a caller asks for
  FillPage,    \* PROVENANCE_BACKFILL_PAGE_SIZE
  Legacy,      \* the sets of rows that may be older than owner entries
  Candidates,  \* for each key, how many tenants hash it to its shard
  Capacity,    \* TABLE_SCAN_RATE_LIMIT_CAPACITY
  MaxEvents    \* writes, moves, failures and runs for owner entries, together

Keys == 1 .. NKeys

ASSUME ScanAssumption ==
  /\ NKeys \in Nat /\ Shards \subseteq Nat /\ IsFiniteSet(Shards)
  /\ PageSize \in Nat \ {0} /\ Limits \subseteq Nat \ {0}
  /\ FillPage \in Nat \ {0} /\ Capacity \in Nat \ {0}
  /\ Candidates \in [Keys -> 0 .. 2]

VARIABLES
  base,     \* the tenant's rows in the table of each shard
  owner,    \* the keys of its owner entries on each shard
  home,     \* the shard a key is routed to
  pool,     \* the shards that are active or draining
  move,     \* the migration in progress, if any
  complete, \* table_rules.provenance_complete
  tokens,   \* tenant_scan_rate_limit.tokens, refilled by Refill
  scan,     \* the caller's scan and the call it waits for
  fill,     \* the backfill of owner entries, if one runs
  admin,    \* /admin/set-row-owner between its two calls
  used      \* the events that happened, up to MaxEvents

rowVars == <<base, owner>>
vars == <<base, owner, home, pool, move, complete, tokens, scan, fill, admin, used>>

NoMove == [pc |-> "idle", key |-> 0, from |-> 0, to |-> 0]
NoFill == [on |-> FALSE, todo |-> {}, at |-> 0, page |-> {}, last |-> FALSE, bad |-> FALSE, map |-> home]
NoPage == [rows |-> {}, scanned |-> 0, last |-> 0]
NoPages == [s \in Shards |-> NoPage]
NoCursor == [s \in Shards |-> 0]

-----------------------------------------------------------------------------
(* A call of the scan.                                                     *)

\* The n smallest keys of a set: ORDER BY partition_key LIMIT n.
Smallest(n, S) == {k \in S : Cardinality({j \in S : j < k}) < n}

PerShardLimit == Min({PageSize, scan.limit})

\* handleTenantScanPage: owner entries from the cursor on, each looked up in
\* the table; an entry without its row is skipped, but counted.
ScanPage(s) ==
  LET batch == Smallest(PerShardLimit, {k \in owner[s] : k > scan.cursor[s]})
  IN [rows |-> batch \cap base[s], scanned |-> Cardinality(batch),
      last |-> Max({0} \cup batch)]

\* The merged entries, by key and then by shard, and those that are returned.
Fetched == UNION {{<<k, s>> : k \in scan.pages[s].rows} : s \in scan.asked}

Before(d, e) == d[1] < e[1] \/ (d[1] = e[1] /\ d[2] < e[2])

Kept == {e \in Fetched : Cardinality({d \in Fetched : Before(d, e)}) < scan.limit}

Delivered(s) == {k \in Keys : <<k, s>> \in Kept}

Consumed(s) == scan.pages[s].scanned >= PerShardLimit

\* Mutant: the scan position wins also over rows that were cut.
NextCursor_SkipsCut(s) ==
  LET kept == Max({scan.cursor[s]} \cup Delivered(s))
  IN IF Consumed(s) THEN Max({kept, scan.pages[s].last}) ELSE kept

\* Mutant: the earlier of both positions.
NextCursor_Stalls(s) == Max({scan.cursor[s]} \cup Delivered(s))

\* The position of a shard: its last row that was returned or, when all it
\* found was returned and its LIMIT was consumed, the last entry it read.
NextCursor(s) ==
  LET kept == Max({scan.cursor[s]} \cup Delivered(s))
  IN IF Consumed(s) /\ Delivered(s) = scan.pages[s].rows
     THEN Max({kept, scan.pages[s].last}) ELSE kept

\* A nextCursor is returned.
MayHaveMore == Kept # Fetched \/ \E s \in scan.asked : Consumed(s)

\* The caller begins.  What the scan owes are the rows that are visible now
\* and stay.
StartScan(l) ==
  /\ scan.pc = "idle"
  /\ LET visible == {k \in Keys : k \in base[home[k]] \cap owner[home[k]]}
     IN scan' = [scan EXCEPT !.pc = "ready", !.limit = l, !.lasting = visible,
                   !.still = {k \in visible : move.pc = "idle" \/ move.key # k}]
  /\ UNCHANGED <<rowVars, home, pool, move, complete, tokens, fill, admin, used>>

\* The caller asks for a page, the first, the next or the same one again:
\* /lookup-table-scan takes a token.  Without one the answer is 429, and
\* nothing changes.
Lookup ==
  /\ scan.pc = "ready"
  /\ tokens >= 1
  /\ tokens' = tokens - 1
  /\ scan' = [scan EXCEPT !.pc = "list"]
  /\ UNCHANGED <<rowVars, home, pool, move, complete, fill, admin, used>>

\* Mutant: what was saved up is not capped.
Refill_Uncapped ==
  /\ tokens < NKeys
  /\ tokens' = tokens + 1
  /\ UNCHANGED <<rowVars, home, pool, move, complete, scan, fill, admin, used>>

\* Time passes: the bucket fills up to its capacity.
Refill ==
  /\ tokens < Capacity
  /\ tokens' = tokens + 1
  /\ UNCHANGED <<rowVars, home, pool, move, complete, scan, fill, admin, used>>

\* /list-shards, draining ones included.
List ==
  /\ scan.pc = "list"
  /\ scan' = [scan EXCEPT !.pc = "fan", !.todo = pool, !.asked = pool]
  /\ UNCHANGED <<rowVars, home, pool, move, complete, tokens, fill, admin, used>>

Read(s) ==
  /\ scan.pc = "fan" /\ s \in scan.todo
  /\ scan' = [scan EXCEPT !.todo = @ \ {s}, !.pages[s] = ScanPage(s),
                          !.gap = @ \/ ScanPage(s).scanned > Cardinality(ScanPage(s).rows)]
  /\ UNCHANGED <<rowVars, home, pool, move, complete, tokens, fill, admin, used>>

\* One shard that does not answer fails the call; the caller keeps its cursor.
Unreachable ==
  /\ scan.pc = "fan" /\ scan.todo # {} /\ used < MaxEvents
  /\ used' = used + 1
  /\ scan' = [scan EXCEPT !.pc = "ready", !.todo = {}, !.asked = {}, !.pages = NoPages]
  /\ UNCHANGED <<rowVars, home, pool, move, complete, tokens, fill, admin>>

\* mergeTableScanPages, and the caller takes the rows.
Merge ==
  /\ scan.pc = "fan" /\ scan.todo = {}
  /\ scan' = [scan EXCEPT
       !.pc = IF MayHaveMore THEN "ready" ELSE "done",
       !.cursor = [s \in Shards |-> IF s \in scan.asked THEN NextCursor(s) ELSE @[s]],
       !.got = [k \in Keys |-> @[k] + Cardinality({s \in Shards : <<k, s>> \in Kept})],
       !.asked = {}, !.pages = NoPages]
  /\ UNCHANGED <<rowVars, home, pool, move, complete, tokens, fill, admin, used>>

-----------------------------------------------------------------------------
(* Writes, and rows that change shards.                                    *)

\* A mutation writes the row and its owner entry in one transaction.
Insert(k) ==
  /\ used < MaxEvents
  /\ k \notin base[home[k]]
  /\ base' = [base EXCEPT ![home[k]] = @ \cup {k}]
  /\ owner' = [owner EXCEPT ![home[k]] = @ \cup {k}]
  /\ used' = used + 1
  /\ UNCHANGED <<home, pool, move, complete, tokens, scan, fill, admin>>

Delete(k) ==
  /\ used < MaxEvents
  /\ k \in base[home[k]]
  /\ base' = [base EXCEPT ![home[k]] = @ \ {k}]
  /\ owner' = [owner EXCEPT ![home[k]] = @ \ {k}]
  /\ scan' = [scan EXCEPT !.lasting = @ \ {k}]
  /\ used' = used + 1
  /\ UNCHANGED <<home, pool, move, complete, tokens, fill, admin>>

AddShard(s) ==
  /\ s \notin pool
  /\ pool' = pool \cup {s}
  /\ UNCHANGED <<rowVars, home, move, complete, tokens, scan, fill, admin, used>>

\* handleUnattributedCount: every row of the source has its owner.
Attributed(s) == base[s] \subseteq owner[s]

StartMove(k, t) ==
  /\ move.pc = "idle" /\ used < MaxEvents
  /\ t \in pool \ {home[k]}
  /\ Attributed(home[k])
  /\ move' = [pc |-> "copy", key |-> k, from |-> home[k], to |-> t]
  /\ used' = used + 1
  /\ UNCHANGED <<rowVars, home, pool, complete, tokens, scan, fill, admin>>

\* Export and import of the row with its owner entry, or a mirrored write:
\* only what has a row and an owner is exported.
Copied(k, S) == [S EXCEPT ![move.to] =
  IF k \in base[move.from] \cap owner[move.from] THEN @ \cup {k} ELSE @ \ {k}]

CopyRow ==
  /\ move.pc = "copy"
  /\ base' = Copied(move.key, base)
  /\ owner' = Copied(move.key, owner)
  /\ scan' = [scan EXCEPT !.still = @ \ {move.key}]
  /\ UNCHANGED <<home, pool, move, complete, tokens, fill, admin, used>>

\* The flip, the two copies being equal.
FlipRow ==
  /\ move.pc = "copy"
  /\ \A S \in {base, owner} : move.key \in S[move.from] <=> move.key \in S[move.to]
  /\ home' = [home EXCEPT ![move.key] = move.to]
  /\ move' = [move EXCEPT !.pc = "purge"]
  /\ UNCHANGED <<rowVars, pool, complete, tokens, scan, fill, admin, used>>

\* handleDeleteVbucketRows: the rows that have an owner entry, then these.
DeleteRow(k, s) ==
  /\ base' = [base EXCEPT ![s] = @ \ ({k} \cap owner[s])]
  /\ owner' = [owner EXCEPT ![s] = @ \ {k}]

PurgeRow ==
  /\ move.pc = "purge"
  /\ DeleteRow(move.key, move.from)
  /\ scan' = [scan EXCEPT !.swept = IF scan.pc = "fan" THEN @ \cup {move.key} ELSE @]
  /\ move' = NoMove
  /\ UNCHANGED <<home, pool, complete, tokens, fill, admin, used>>

AbortMove ==
  /\ move.pc = "copy"
  /\ DeleteRow(move.key, move.to)
  /\ move' = NoMove
  /\ UNCHANGED <<home, pool, complete, tokens, scan, fill, admin, used>>

-----------------------------------------------------------------------------
(* Owner entries for the rows written before there were any.               *)

\* One run over every shard, with the map of the routes as it is now.
StartFill ==
  /\ ~fill.on
  /\ used < MaxEvents
  /\ used' = used + 1
  /\ fill' = [NoFill EXCEPT !.on = TRUE, !.todo = pool, !.map = home]
  /\ UNCHANGED <<rowVars, home, pool, move, complete, tokens, scan, admin>>

FillShard == Min(fill.todo)

\* After the last row of the last page, the next shard.
Turned(f) ==
  IF f.page = {} /\ f.last
  THEN [f EXCEPT !.todo = @ \ {FillShard}, !.last = FALSE, !.at = 0] ELSE f

\* A page of rows without owner; a short one is the shard's last.
FillReads ==
  /\ fill.on /\ fill.todo # {} /\ fill.page = {}
  /\ LET page == Smallest(FillPage, {k \in base[FillShard] \ owner[FillShard] : k > fill.at})
     IN fill' = Turned([fill EXCEPT !.page = page, !.last = Cardinality(page) < FillPage,
                                    !.at = Max({@} \cup page)])
  /\ UNCHANGED <<rowVars, home, pool, move, complete, tokens, scan, admin, used>>

\* The tenants that hash the key to the shard on which it was found.
CandidatesOf(k) == IF fill.map[k] = FillShard THEN Candidates[k] ELSE 0

\* Mutant: a row that is left without owner is not reported.
FillRow_Forgets(k) ==
  /\ fill.on /\ k \in fill.page
  /\ owner' = IF CandidatesOf(k) = 1 THEN [owner EXCEPT ![FillShard] = @ \cup {k}] ELSE owner
  /\ fill' = Turned([fill EXCEPT !.page = @ \ {k}])
  /\ UNCHANGED <<base, home, pool, move, complete, tokens, scan, admin, used>>

\* writeProvenanceDirect when one tenant can own the row, whether the row
\* is still there or not; else it is reported as orphaned or ambiguous.
FillRow(k) ==
  /\ fill.on /\ k \in fill.page
  /\ owner' = IF CandidatesOf(k) = 1 THEN [owner EXCEPT ![FillShard] = @ \cup {k}] ELSE owner
  /\ fill' = Turned([fill EXCEPT !.page = @ \ {k}, !.bad = @ \/ CandidatesOf(k) # 1])
  /\ UNCHANGED <<base, home, pool, move, complete, tokens, scan, admin, used>>

\* The write of an owner entry fails: the row is reported as orphaned.
FillRowFails(k) ==
  /\ fill.on /\ k \in fill.page /\ CandidatesOf(k) = 1 /\ used < MaxEvents
  /\ used' = used + 1
  /\ fill' = Turned([fill EXCEPT !.page = @ \ {k}, !.bad = TRUE])
  /\ UNCHANGED <<rowVars, home, pool, move, complete, tokens, scan, admin>>

\* A page or the probe of a table fails: so does the whole run.
FillFails ==
  /\ fill.on /\ used < MaxEvents
  /\ used' = used + 1
  /\ fill' = NoFill
  /\ UNCHANGED <<rowVars, home, pool, move, complete, tokens, scan, admin>>

\* Every shard was read: a run that has nothing to report certifies the table.
FillEnds ==
  /\ fill.on /\ fill.todo = {}
  /\ complete' = (complete \/ ~fill.bad)
  /\ fill' = NoFill
  /\ UNCHANGED <<rowVars, home, pool, move, tokens, scan, admin, used>>

\* /admin/set-row-owner for a row that was reported: it reads the routes,
AdminReads(k) ==
  /\ admin.key = 0 /\ used < MaxEvents
  /\ k \in base[home[k]] \ owner[home[k]]
  /\ admin' = [key |-> k, shard |-> home[k]]
  /\ used' = used + 1
  /\ UNCHANGED <<rowVars, home, pool, move, complete, tokens, scan, fill>>

\* and writes the owner to the shard it was told.
AdminWrites ==
  /\ admin.key # 0
  /\ owner' = [owner EXCEPT ![admin.shard] = @ \cup {admin.key}]
  /\ admin' = [key |-> 0, shard |-> 0]
  /\ UNCHANGED <<base, home, pool, move, complete, tokens, scan, fill, used>>

-----------------------------------------------------------------------------
Init ==
  /\ pool \in SUBSET Shards \ {{}}
  /\ home \in [Keys -> pool]
  /\ base = [s \in Shards |-> {k \in Keys : home[k] = s}]
  /\ \E legacy \in Legacy : owner = [s \in Shards |-> base[s] \ legacy]
  /\ move = NoMove
  /\ complete = FALSE
  /\ tokens = Capacity
  /\ scan = [pc |-> "idle", limit |-> 1, cursor |-> NoCursor, asked |-> {}, todo |-> {},
             pages |-> NoPages, got |-> [k \in Keys |-> 0],
             lasting |-> {}, still |-> {}, swept |-> {}, gap |-> FALSE]
  /\ fill = NoFill
  /\ admin = [key |-> 0, shard |-> 0]
  /\ used = 0

Scan ==
  \/ \E l \in Limits : StartScan(l)
  \/ Lookup
  \/ List
  \/ \E s \in Shards : Read(s)
  \/ Unreachable
  \/ Merge

Rows ==
  \/ \E k \in Keys : Insert(k)
  \/ \E k \in Keys : Delete(k)
  \/ \E s \in Shards : AddShard(s)
  \/ \E k \in Keys, t \in Shards : StartMove(k, t)
  \/ CopyRow
  \/ FlipRow
  \/ PurgeRow
  \/ AbortMove

Owners ==
  \/ StartFill
  \/ FillReads
  \/ \E k \in Keys : FillRow(k)
  \/ \E k \in Keys : FillRowFails(k)
  \/ FillFails
  \/ FillEnds
  \/ \E k \in Keys : AdminReads(k)
  \/ AdminWrites

Next == Scan \/ Refill \/ Rows \/ Owners

Spec == Init /\ [][Next]_vars

-----------------------------------------------------------------------------
\* Every variable has the shape the code gives it; a shard that was not
\* asked has no page.
ScanTypeOK ==
  /\ base \in [Shards -> SUBSET Keys] /\ owner \in [Shards -> SUBSET Keys]
  /\ home \in [Keys -> pool] /\ pool \subseteq Shards
  /\ tokens \in 0 .. Capacity /\ complete \in BOOLEAN
  /\ scan.pc \in {"idle", "ready", "list", "fan", "done"}
  /\ scan.cursor \in [Shards -> 0 .. NKeys]
  /\ \A s \in Shards \ (scan.asked \ scan.todo) : scan.pages[s] = NoPage

\* A scan that ends returned each row that was visible all along, and did not
\* change shards, exactly once (mergeTableScanPages, "the largest risk item"):
\* whatever the limits, the entries without row, the writes next to it, the
\* calls that failed, and the shards that came.
ScanIsExact ==
  scan.pc = "done" => \A k \in scan.lasting \cap scan.still : scan.got[k] = 1

\* A row that changed shards meanwhile was returned at least once, if no call
\* saw its source after and its target before the whole move, no page was
\* shorter than the limit, and no entry without row was skipped.
MovedRowsAreSeen ==
  scan.pc = "done" /\ scan.limit <= PageSize /\ ~scan.gap =>
    \A k \in scan.lasting \ scan.swept : scan.got[k] >= 1

\* The comment of tableScanCore: "a table-scan must SEE every existing row".
ScansSeeEveryRow ==
  scan.pc = "done" => \A k \in scan.lasting \ scan.swept : scan.got[k] >= 1

\* A call that is not the last one brings the scan forward, so it cannot ask
\* the same thing for ever (mergeTableScanPages, case B).
PagesAdvance ==
  [][scan.pc = "fan" /\ scan'.pc = "ready" /\ scan.todo = {}
     => \E s \in Shards : scan'.cursor[s] > scan.cursor[s]]_vars

\* A table is certified as complete only when no row of it is hidden
\* for want of an owner, and that stays so (adminBackfillProvenanceCore).
CompleteHidesNothing ==
  complete => \A s \in Shards : base[s] \subseteq owner[s]
=============================================================================
