----------------------------- MODULE IndexRing -----------------------------
(***************************************************************************)
(* One secondary index through its life: registered on every catalog,       *)
(* backfilled by catalog-0's alarm, maintained after each client write,     *)
(* queried, moved off a draining shard, dropped (src/index.ts,              *)
(* src/catalog.ts, the __cf_indexes handlers of src/shard.ts).              *)
(*                                                                         *)
(* An entry <<row, key>> lies on the shard the index's ring gives its key.  *)
(* A client write resolves the ring, reads the row, writes it, and only     *)
(* then sends its index writes, each on its own; a transaction prepares     *)
(* them with the row.  A write may reach a shard long after the ring it     *)
(* was sent by is gone.  Every call is a step; gateway calls, ticks and     *)
(* index writes may fail at any step.                                      *)
(***************************************************************************)
EXTENDS Naturals, Sequences, FiniteSets

CONSTANTS NRows,        \* rows of the table, in partition-key order
          Keys,         \* values of the indexed columns
          Gone,         \* a row that is not there
          NShards,      \* shards, in /list-shards order
          Active0,      \* those active at first
          Leaving,      \* the shard that is drained
          Hash,         \* hash of each key
          Catalogs, Zero, \* the catalogs; catalog-0
          Owner,        \* the catalog of the draining shard
          Home,         \* the catalog of the tenant whose rows these are
          PageSize,     \* rows of a backfill page
          Clients,      \* client writes
          Ops,          \* the operations clients ask for
          MaxOps,       \* topology operations
          MaxFaults     \* calls and answers that are lost, gateway calls and ticks
                        \* that stop half way, topology leases that run out

Shards == 1 .. NShards
NoShard == 0
Rows == 1 .. NRows
Values == Keys \cup {Gone}
NoOp == 0

ASSUME IndexAssumption ==
    /\ {NRows, PageSize, NShards} \subseteq Nat \ {0}
    /\ Gone \notin Keys
    /\ Active0 \subseteq Shards /\ Leaving \in Active0
    /\ Hash \in [Keys -> Nat]
    /\ IsFiniteSet(Catalogs) /\ {Zero, Owner, Home} \subseteq Catalogs
    /\ Ops \subseteq {"insert", "update", "upsert", "delete", "tx-upsert", "tx-delete"}
    /\ {MaxOps, MaxFaults} \subseteq Nat

VARIABLES
    row,      \* the table: each row's indexed value
    entries,  \* __cf_indexes of each shard
    fenced,   \* shards with a fence for the index's ring
    rule,     \* index_rules of each catalog: status, ring, read-shadow
    fill,     \* backfill columns of catalog-0's index_rules
    active,   \* active shards
    leave,    \* the draining shard's row, and its drain_ring_evac marker
    lock,     \* the topology lock
    gateway,  \* the create-index or drop-index call that runs
    filler,   \* catalog-0's backfill tick
    mover,    \* the drain tick of the draining shard's catalog
    flights,  \* client writes between their route and their answer
    upkeep,   \* index writes not yet done
    query,    \* an index query between its look-ups
    ghost,    \* rows whose index the code gives up on, and why
    used

shardVars == <<row, entries, fenced>>
catalogVars == <<rule, fill, active, leave, lock>>
handlerVars == <<gateway, filler, mover>>
clientVars == <<flights, upkeep>>
vars == <<shardVars, catalogVars, handlerVars, clientVars, query, ghost, used>>

-----------------------------------------------------------------------------
(* Placement. *)

\* indexShardIdForKey; a ring of no shards has no place.
Place(key, ring) == IF ring = <<>> THEN NoShard ELSE ring[(Hash[key] % Len(ring)) + 1]

\* /list-shards: a set of shards, in order.
ListShards(set) ==
    [n \in 1 .. Cardinality(set) |->
        CHOOSE s \in set : Cardinality({t \in set : t <= s}) = n]

InRing(s, ring) == \E i \in DOMAIN ring : ring[i] = s

Members(ring) == {ring[i] : i \in DOMAIN ring}

NoRule == [status |-> "none", ring |-> <<>>, shadow |-> {}]
NoFill == [on |-> FALSE, past |-> FALSE, at |-> 0, op |-> NoOp]
NoCall == [kind |-> "none", pc |-> "idle", ring |-> <<>>, todo |-> {}, op |-> NoOp]
NoTick == [pc |-> "idle", ring |-> <<>>, page |-> {}, last |-> 0, short |-> FALSE,
           key |-> Gone, to |-> NoShard, todo |-> {}]
NoMove == [pc |-> "idle", ring |-> <<>>, todo |-> {}, copied |-> {}, entry |-> <<>>]
NoFlight == [pc |-> "none", op |-> "none", row |-> 0, key |-> Gone,
             ring |-> <<>>, before |-> Gone]
NoQuery == [pc |-> "idle", row |-> 0, key |-> Gone, ring |-> NoShard, shadow |-> {},
            found |-> FALSE, fair |-> FALSE]

Registered(c) == rule[c].status # "none"

Init ==
    /\ row \in [Rows -> Values]
    /\ entries = [s \in Shards |-> {}]
    /\ fenced = {}
    /\ rule = [c \in Catalogs |-> NoRule]
    /\ fill = NoFill
    /\ active = Active0
    /\ leave = [draining |-> FALSE, op |-> NoOp, substitute |-> NoShard]
    /\ lock = NoOp
    /\ gateway = NoCall /\ filler = NoTick /\ mover = NoMove
    /\ flights = [w \in Clients |-> NoFlight]
    /\ upkeep = {}
    /\ query = NoQuery
    /\ ghost = [overlapped |-> {}, unseen |-> {}, lost |-> {}, late |-> {}, left |-> {},
                forked |-> FALSE]
    /\ used = [ops |-> 0, faults |-> 0]

-----------------------------------------------------------------------------
(* Client writes. *)

Ring(w) == flights[w].ring
IsTx(w) == flights[w].op \in {"tx-upsert", "tx-delete"}
Deletes(w) == flights[w].op \in {"delete", "tx-delete"}
NeedsPreRead(w) == Ring(w) # <<>> /\ flights[w].op # "insert"

\* The write a flight asks for changes the row's value to:
After(w) == IF Deletes(w) THEN Gone ELSE flights[w].key

\* rowsAffected > 0; a plain INSERT of an existing row fails instead.
Affects(w) == CASE flights[w].op = "insert" -> row[flights[w].row] = Gone
                [] flights[w].op \in {"update", "delete", "tx-delete"} ->
                       row[flights[w].row] # Gone
                [] OTHER -> TRUE

\* computeIndexDeltas: what the write does to the index, by its pre-read.
Deltas(w) ==
    LET f == flights[w]
        old == IF f.op = "insert" THEN Gone ELSE f.before
        Entry(del, key) == [by |-> w, del |-> del, row |-> f.row, key |-> key,
                            to |-> Place(key, f.ring), at |-> Place(key, f.ring),
                            stage |-> IF IsTx(w) THEN "intent" ELSE "sent", ran |-> {}]
    IN IF \/ f.ring = <<>> \/ old = After(w)
          \/ f.op = "update" /\ old = Gone
       THEN {}
       ELSE {Entry(TRUE, k) : k \in {old} \ {Gone}} \cup
            {Entry(FALSE, k) : k \in {After(w)} \ {Gone}}

\* The index writes a transaction prepares with its row, on the ring's shards.
Intents(w) == IF IsTx(w) THEN Deltas(w) ELSE {}

\* Another write of the row has read it, or has index writes outstanding.
Busy(r, w) ==
    \/ \E v \in Clients \ {w} : flights[v].row = r /\ flights[v].pc \in {"read", "prepared", "committing"}
    \/ \E u \in upkeep : u.row = r

RowLocked(r) == \E v \in Clients : flights[v].row = r /\ flights[v].pc \in {"prepared", "committing"}

Done(w) == [flights EXCEPT ![w] = [NoFlight EXCEPT !.pc = "done"]]

Overlap(w) ==
    IF Busy(flights[w].row, w) THEN [ghost EXCEPT !.overlapped = @ \cup {flights[w].row}]
    ELSE ghost

\* What a query of the row may no longer count on, once the row is written.
Disturb(r) == query' = IF query.row = r THEN [query EXCEPT !.fair = FALSE] ELSE query

Route(w) ==
    /\ flights[w].pc = "none"
    /\ \E op \in Ops, r \in Rows, k \in Keys :
         /\ op \in {"delete", "tx-delete"} => k = CHOOSE x \in Keys : TRUE
         /\ flights' = [flights EXCEPT ![w] =
                [pc |-> "routed", op |-> op, row |-> r, key |-> k,
                 ring |-> rule[Home].ring, before |-> Gone]]
    /\ UNCHANGED <<shardVars, catalogVars, handlerVars, upkeep, query, ghost, used>>

PreRead(w) ==
    /\ flights[w].pc = "routed" /\ NeedsPreRead(w)
    /\ flights' = [flights EXCEPT ![w].pc = "read", ![w].before = row[flights[w].row]]
    /\ ghost' = Overlap(w)
    /\ UNCHANGED <<shardVars, catalogVars, handlerVars, upkeep, query, used>>

Ready(w) == flights[w].pc = (IF NeedsPreRead(w) THEN "read" ELSE "routed")

\* The row is written by a gateway that saw no index, and there is one now.
Unseen(w, g) ==
    IF Ring(w) = <<>> /\ \E c \in Catalogs : Registered(c)
    THEN [g EXCEPT !.unseen = @ \cup {flights[w].row}] ELSE g

\* The base shard runs the statement; the gateway answers and sends the index
\* writes after it.
Execute(w) ==
    LET f == flights[w]
    IN /\ Ready(w) /\ ~IsTx(w)
       /\ flights' = Done(w)
       /\ IF RowLocked(f.row) \/ ~Affects(w)
          THEN UNCHANGED <<row, upkeep, query, ghost>>
          ELSE /\ row' = [row EXCEPT ![f.row] = After(w)]
               /\ upkeep' = upkeep \cup Deltas(w)
               /\ ghost' = Unseen(w, Overlap(w))
               /\ Disturb(f.row)
       /\ UNCHANGED <<entries, fenced, catalogVars, handlerVars, used>>

\* The answer of the base shard is lost, or the gateway dies with it.
ExecuteUnanswered(w) ==
    LET f == flights[w]
    IN /\ Ready(w) /\ ~IsTx(w) /\ ~RowLocked(f.row) /\ Affects(w) /\ Deltas(w) # {}
       /\ used.faults < MaxFaults
       /\ used' = [used EXCEPT !.faults = @ + 1]
       /\ flights' = Done(w)
       /\ row' = [row EXCEPT ![f.row] = After(w)]
       /\ ghost' = [ghost EXCEPT !.lost = @ \cup {f.row}]
       /\ Disturb(f.row)
       /\ UNCHANGED <<entries, fenced, catalogVars, handlerVars, upkeep>>

\* A participant with a fence for the index votes abort.
Prepare(w) ==
    LET f == flights[w]
    IN /\ Ready(w) /\ IsTx(w)
       /\ flights' = IF \/ RowLocked(f.row) \/ ~Affects(w)
                        \/ \E d \in Intents(w) : d.to \in fenced
                     THEN Done(w)
                     ELSE [flights EXCEPT ![w].pc = "prepared"]
       /\ ghost' = Overlap(w)
       /\ UNCHANGED <<shardVars, catalogVars, handlerVars, upkeep, query, used>>

AbortTx(w) ==
    /\ flights[w].pc = "prepared"
    /\ flights' = Done(w)
    /\ UNCHANGED <<shardVars, catalogVars, handlerVars, upkeep, query, ghost, used>>

CommitTx(w) ==
    /\ flights[w].pc = "prepared"
    /\ flights' = [flights EXCEPT ![w].pc = "committing"]
    /\ upkeep' = upkeep \cup Intents(w)
    /\ Disturb(flights[w].row)
    /\ UNCHANGED <<shardVars, catalogVars, handlerVars, ghost, used>>

CommitRow(w) ==
    /\ flights[w].pc = "committing"
    /\ flights' = Done(w)
    /\ row' = [row EXCEPT ![flights[w].row] = After(w)]
    /\ ghost' = Unseen(w, ghost)
    /\ Disturb(flights[w].row)
    /\ UNCHANGED <<entries, fenced, catalogVars, handlerVars, upkeep, used>>

-----------------------------------------------------------------------------
(* Index writes: writeIndexEntryBestEffort, and the retry jobs of the base  *)
(* shard when it fails.                                                    *)

Apply(u) ==
    entries' = IF u.at \in u.ran THEN entries
               ELSE [entries EXCEPT ![u.at] = IF u.del THEN @ \ {<<u.row, u.key>>}
                                              ELSE @ \cup {<<u.row, u.key>>}]

Replace(u, v) == upkeep' = (upkeep \ {u}) \cup {v}

Accepts(u) == u.stage = "intent" \/ u.at \notin fenced \/ u.at \in u.ran

\* A prepared index write is applied whether or not the ring has been fenced.
Deliver(u) ==
    /\ Accepts(u)
    /\ Apply(u)
    /\ upkeep' = upkeep \ {u}
    /\ ghost' = IF u.stage = "intent" /\ u.at \in fenced
                THEN [ghost EXCEPT !.late = @ \cup {u.row}] ELSE ghost
    /\ UNCHANGED <<row, fenced, catalogVars, handlerVars, flights, query, used>>

\* /index-ring: what a fenced write is told by catalog-0.
RingNow == rule[Zero].ring

\* Refused by the fence: the ring is asked for again; a queued write whose
\* place has not changed waits.
Resolve(u) ==
    LET ring == RingNow
        moved == ring # <<>> /\ Place(u.key, ring) # u.to
    IN /\ ~Accepts(u) /\ u.at = u.to
       /\ \/ /\ moved
             /\ Replace(u, [u EXCEPT !.at = Place(u.key, ring)])
          \/ /\ ~moved /\ u.stage = "sent"
             /\ Replace(u, [u EXCEPT !.stage = "queued"])
       /\ UNCHANGED <<shardVars, catalogVars, handlerVars, flights, query, ghost, used>>

\* A call fails: the write is queued, or waits in the queue, by its old target.
Fails(u) ==
    /\ u.stage # "intent"
    /\ \/ u.at # u.to /\ ~Accepts(u) /\ used' = used
       \/ u.stage = "sent" /\ used.faults < MaxFaults /\ used' = [used EXCEPT !.faults = @ + 1]
    /\ Replace(u, [u EXCEPT !.stage = "queued", !.at = u.to])
    /\ UNCHANGED <<shardVars, catalogVars, handlerVars, flights, query, ghost>>

\* The shard applies the write and the answer is lost: it will be sent again,
\* by the same request id.
Unanswered(u) ==
    /\ u.stage # "intent" /\ Accepts(u) /\ u.at \notin u.ran
    /\ used.faults < MaxFaults
    /\ used' = [used EXCEPT !.faults = @ + 1]
    /\ Apply(u)
    /\ Replace(u, [u EXCEPT !.stage = "queued", !.at = u.to, !.ran = @ \cup {u.at}])
    /\ UNCHANGED <<row, fenced, catalogVars, handlerVars, flights, query, ghost>>

\* Neither the index shard nor the base shard answers: the write is lost.
Lose(u) ==
    /\ u.stage = "sent" /\ used.faults < MaxFaults
    /\ used' = [used EXCEPT !.faults = @ + 1]
    /\ upkeep' = upkeep \ {u}
    /\ ghost' = [ghost EXCEPT !.lost = @ \cup {u.row}]
    /\ UNCHANGED <<shardVars, catalogVars, handlerVars, flights, query>>

-----------------------------------------------------------------------------
(* Index queries. *)

\* What the maintenance of a row has promised: nothing is outstanding for it,
\* and none of its writes is one whose index the code gives up on.
Clean(r) ==
    /\ ~ghost.forked
    /\ r \notin ghost.overlapped \cup ghost.unseen \cup ghost.lost \cup ghost.late
    /\ ~RowLocked(r)
    /\ \A u \in upkeep : u.row # r

\* /lookup-index answers only for a ready index; a row is looked for by the
\* value it has.  A catalog the repoint has yet to reach sends the query to the
\* source alone, though a refused write already goes by catalog-0's ring.
QueryLookup(r) ==
    /\ query.pc = "idle" /\ row[r] # Gone
    /\ rule[Home].status = "ready" /\ rule[Home].ring # <<>>
    /\ query' = [pc |-> "ring", row |-> r, key |-> row[r],
                 ring |-> Place(row[r], rule[Home].ring), shadow |-> rule[Home].shadow,
                 found |-> FALSE,
                 fair |-> /\ Clean(r) /\ rule[Home].ring = rule[Zero].ring
                          /\ \A c \in Catalogs : Registered(c)]
    /\ UNCHANGED <<shardVars, catalogVars, handlerVars, clientVars, ghost, used>>

\* The ring's shard first, then the shards the ring is being moved off.
QueryRing ==
    /\ query.pc = "ring"
    /\ query' = [query EXCEPT !.pc = "shadow",
                    !.found = <<query.row, query.key>> \in entries[query.ring]]
    /\ UNCHANGED <<shardVars, catalogVars, handlerVars, clientVars, ghost, used>>

QueryShadow ==
    /\ query.pc = "shadow"
    /\ query' = [query EXCEPT !.pc = "answer",
                    !.found = @ \/ \E s \in query.shadow : <<query.row, query.key>> \in entries[s]]
    /\ UNCHANGED <<shardVars, catalogVars, handlerVars, clientVars, ghost, used>>

\* Each match is read again on its base shard before it is answered.
QueryAnswer ==
    /\ query.pc = "answer"
    /\ query' = NoQuery
    /\ UNCHANGED <<shardVars, catalogVars, handlerVars, clientVars, ghost, used>>

-----------------------------------------------------------------------------
(* create-index and drop-index, run by the gateway under the topology lock. *)

NextOp == used.ops + 1
Take == /\ lock = NoOp /\ used.ops < MaxOps
        /\ lock' = NextOp
        /\ used' = [used EXCEPT !.ops = @ + 1]
Drop(op) == lock' = IF lock = op THEN NoOp ELSE lock

\* The ring is the active shards; it is listed once before the checks, ...
CreateBegins ==
    /\ gateway.kind = "none" /\ Take
    /\ gateway' = [NoCall EXCEPT !.kind = "create", !.pc = "list", !.op = NextOp,
                                 !.ring = ListShards(active)]
    /\ UNCHANGED <<shardVars, rule, fill, active, leave, filler, mover, clientVars, query, ghost>>

\* ... and once more before it is registered.
CreateVerifies ==
    /\ gateway.kind = "create" /\ gateway.pc = "list"
    /\ LET ring == ListShards(Members(gateway.ring) \cap active)
       IN /\ ring # <<>>
          /\ gateway' = [gateway EXCEPT !.pc = "register", !.ring = ring, !.todo = Catalogs]
    /\ UNCHANGED <<shardVars, catalogVars, filler, mover, clientVars, query, ghost, used>>

\* A catalog is given another ring than one has already, or one with a shard
\* that has begun to leave since the ring was listed, or while a tick that
\* began in the index's last life has yet to end.
Forks(c) ==
    /\ ~Registered(c)
    /\ \/ \E d \in Catalogs : Registered(d) /\ rule[d].ring # gateway.ring
       \/ ~(Members(gateway.ring) \subseteq active)
       \/ filler.pc # "idle" \/ mover.pc # "idle"

\* An index is registered anew over what an earlier one has left on the shard: its
\* drop did not reach it, or a tick or a write wrote behind the drop.
Leftover == IF \E c \in Catalogs : Registered(c) THEN {} ELSE {e[1] : e \in entries[Leaving]}

\* Mutant: a second /create-index replaces the ring.
RegisterReplaces(c) ==
    /\ gateway.kind = "create" /\ gateway.pc = "register" /\ c \in gateway.todo
    /\ rule' = [rule EXCEPT ![c] = [NoRule EXCEPT !.status = "building", !.ring = gateway.ring]]
    /\ gateway' = [gateway EXCEPT !.todo = @ \ {c},
                                  !.pc = IF gateway.todo = {c} THEN "start" ELSE @]
    /\ ghost' = [ghost EXCEPT !.forked = @ \/ Forks(c), !.left = @ \cup Leftover]
    /\ UNCHANGED <<shardVars, fill, active, leave, lock, filler, mover, clientVars, query, used>>

\* /create-index on one catalog: an index it has already is left as it is.
Register(c) ==
    /\ gateway.kind = "create" /\ gateway.pc = "register" /\ c \in gateway.todo
    /\ rule' = IF Registered(c) THEN rule
               ELSE [rule EXCEPT ![c] = [NoRule EXCEPT !.status = "building", !.ring = gateway.ring]]
    /\ gateway' = [gateway EXCEPT !.todo = @ \ {c},
                                  !.pc = IF gateway.todo = {c} THEN "start" ELSE @]
    /\ ghost' = [ghost EXCEPT !.forked = @ \/ Forks(c), !.left = @ \cup Leftover]
    /\ UNCHANGED <<shardVars, fill, active, leave, lock, filler, mover, clientVars, query, used>>

\* /start-index-backfill: catalog-0 takes the lock over, unless the index is
\* ready; then the gateway releases it.
StartBackfill ==
    /\ gateway.kind = "create" /\ gateway.pc = "start"
    /\ IF rule[Zero].status = "ready"
       THEN /\ Drop(gateway.op) /\ UNCHANGED <<rule, fill>>
       ELSE /\ rule' = [rule EXCEPT ![Zero].status = "building"]
            /\ fill' = [on |-> TRUE, past |-> FALSE, at |-> 0, op |-> gateway.op]
            /\ lock' = lock
    /\ gateway' = NoCall
    /\ UNCHANGED <<shardVars, active, leave, filler, mover, clientVars, query, ghost, used>>

DropBegins ==
    /\ gateway.kind = "none" /\ Registered(Zero) /\ Take
    /\ gateway' = [NoCall EXCEPT !.kind = "drop", !.pc = "unregister", !.op = NextOp,
                                 !.ring = rule[Zero].ring, !.todo = Catalogs]
    /\ UNCHANGED <<shardVars, rule, fill, active, leave, filler, mover, clientVars, query, ghost>>

\* Rows with a write in progress: one that began before a drop may still leave
\* an entry, or take one away, after it.
UnderWay == {u.row : u \in upkeep} \cup
            {flights[w].row : w \in {v \in Clients : flights[v].pc \notin {"none", "done"}}}

Unregister(c) ==
    /\ gateway.kind = "drop" /\ gateway.pc = "unregister" /\ c \in gateway.todo
    /\ rule' = [rule EXCEPT ![c] = NoRule]
    /\ fill' = IF c = Zero THEN NoFill ELSE fill
    /\ gateway' = IF gateway.todo # {c} THEN [gateway EXCEPT !.todo = @ \ {c}]
                  ELSE [gateway EXCEPT !.pc = "clean", !.todo = active \cup Members(gateway.ring)]
    /\ query' = [query EXCEPT !.fair = FALSE]
    /\ ghost' = [ghost EXCEPT !.unseen = @ \cup UnderWay]
    /\ UNCHANGED <<shardVars, active, leave, lock, filler, mover, clientVars, used>>

\* The entries of the live shards and of the ring are deleted.
CleanShard(s) ==
    /\ gateway.kind = "drop" /\ gateway.pc = "clean" /\ s \in gateway.todo
    /\ entries' = [entries EXCEPT ![s] = {}]
    /\ IF gateway.todo = {s} THEN gateway' = NoCall /\ Drop(gateway.op)
       ELSE gateway' = [gateway EXCEPT !.todo = @ \ {s}] /\ lock' = lock
    /\ UNCHANGED <<row, fenced, rule, fill, active, leave, filler, mover, clientVars, query, ghost, used>>

\* A call of the gateway fails, and it releases its lock; or the gateway is
\* gone and its lease lapses.
GatewayStops ==
    /\ gateway.kind # "none" /\ used.faults < MaxFaults
    /\ used' = [used EXCEPT !.faults = @ + 1]
    /\ gateway' = NoCall
    /\ Drop(gateway.op)
    /\ UNCHANGED <<shardVars, rule, fill, active, leave, filler, mover, clientVars, query, ghost>>

LeaseLapses ==
    /\ lock # NoOp /\ used.faults < MaxFaults
    /\ lock' = NoOp
    /\ used' = [used EXCEPT !.faults = @ + 1]
    /\ UNCHANGED <<shardVars, rule, fill, active, leave, handlerVars, clientVars, query, ghost>>

\* A split adds a shard to the active set.
AddShard(s) ==
    /\ lock = NoOp /\ used.ops < MaxOps
    /\ s \notin active \cup {Leaving}
    /\ active' = active \cup {s}
    /\ used' = [used EXCEPT !.ops = @ + 1]
    /\ UNCHANGED <<shardVars, rule, fill, leave, lock, handlerVars, clientVars, query, ghost>>

-----------------------------------------------------------------------------
(* The backfill: catalog-0's alarm, a page a tick, while it holds the lock. *)

First(set, n) == {r \in set : Cardinality({q \in set : q <= r}) <= n}
Largest(set) == CHOOSE r \in set : \A q \in set : q <= r
Smallest(set) == CHOOSE r \in set : \A q \in set : r <= q

\* An alarm of one catalog runs its ticks one after another.
Latch == Owner = Zero => filler.pc = "idle" /\ mover.pc = "idle"

FillDue == /\ filler.pc = "idle" /\ Latch
           /\ rule[Zero].status = "building" /\ fill.on /\ lock = fill.op

fillFrame == <<row, fenced, active, leave, gateway, mover, clientVars, query, ghost>>

\* A page of the rows after the cursor; none left: the shard is done.
FillScan ==
    /\ FillDue /\ ~fill.past
    /\ LET page == First({r \in Rows : r > fill.at /\ row[r] # Gone}, PageSize)
       IN IF page = {}
          THEN /\ fill' = [fill EXCEPT !.past = TRUE, !.at = 0]
               /\ filler' = filler
          ELSE /\ filler' = [NoTick EXCEPT !.pc = "refresh", !.ring = rule[Zero].ring,
                                !.page = page, !.last = Largest(page),
                                !.short = Cardinality(page) < PageSize]
               /\ fill' = fill
    /\ UNCHANGED <<fillFrame, entries, rule, lock, used>>

\* Each row is read again right before its entry is written.
FillRefresh ==
    /\ filler.pc = "refresh" /\ filler.page # {}
    /\ LET r == Smallest(filler.page)
       IN filler' = IF row[r] = Gone THEN [filler EXCEPT !.page = @ \ {r}]
                    ELSE [filler EXCEPT !.pc = "write", !.key = row[r],
                                        !.to = Place(row[r], filler.ring)]
    /\ UNCHANGED <<fillFrame, entries, rule, fill, lock, used>>

\* A shard that is fenced refuses: the place is taken from the ring of now, and
\* if it is the same the tick fails.
FillWrite ==
    /\ filler.pc = "write"
    /\ LET r == Smallest(filler.page)
           ring == RingNow
       IN IF filler.to \notin fenced
          THEN /\ entries' = [s \in Shards |-> entries[s] \cup
                                 (IF s = filler.to THEN {<<r, filler.key>>} ELSE {})]
               /\ filler' = [filler EXCEPT !.pc = "refresh", !.page = @ \ {r}]
          ELSE /\ entries' = entries
               /\ filler' = IF ring # <<>> /\ Place(filler.key, ring) # filler.to
                            THEN [filler EXCEPT !.to = Place(filler.key, ring)]
                            ELSE NoTick
    /\ UNCHANGED <<fillFrame, rule, fill, lock, used>>

\* The cursor moves past the page, or past the shard, of the index it finds.
FillPageEnds ==
    /\ filler.pc = "refresh" /\ filler.page = {}
    /\ filler' = NoTick
    /\ fill' = IF rule[Zero].status # "building" THEN fill
               ELSE IF filler.short THEN [fill EXCEPT !.past = TRUE, !.at = 0]
               ELSE [fill EXCEPT !.at = filler.last]
    /\ UNCHANGED <<fillFrame, entries, rule, lock, used>>

\* Every shard scanned: the index is marked ready, here last, and the lock is
\* released.
FillEnds ==
    /\ FillDue /\ fill.past
    /\ filler' = [NoTick EXCEPT !.pc = "ready", !.todo = Catalogs]
    /\ UNCHANGED <<fillFrame, entries, rule, fill, lock, used>>

\* /mark-index-ready: a catalog without the index has nothing to mark.
Readied(c) == IF Registered(c) THEN [rule EXCEPT ![c].status = "ready"] ELSE rule

MarkReady(c) ==
    /\ filler.pc = "ready" /\ c \in filler.todo
    /\ c = Zero => filler.todo = {Zero}
    /\ IF ~Registered(c) /\ c # Zero
       THEN UNCHANGED <<rule, fill, lock>> /\ filler' = NoTick
       ELSE /\ rule' = Readied(c)
            /\ filler' = IF c = Zero THEN NoTick ELSE [filler EXCEPT !.todo = @ \ {c}]
            /\ IF c = Zero THEN fill' = NoFill /\ Drop(fill.op)
               ELSE UNCHANGED <<fill, lock>>
    /\ UNCHANGED <<fillFrame, entries, used>>

\* A shard rejects the scan, or a row has no owner: the index has failed until
\* it is created again.
FillFails ==
    /\ filler.pc \in {"refresh", "write"} /\ used.faults < MaxFaults
    /\ used' = [used EXCEPT !.faults = @ + 1]
    /\ filler' = NoTick
    /\ rule' = IF Registered(Zero) THEN [rule EXCEPT ![Zero].status = "failed"] ELSE rule
    /\ fill' = [fill EXCEPT !.op = NoOp]
    /\ Drop(fill.op)
    /\ UNCHANGED <<fillFrame, entries>>

FillStops ==
    /\ filler.pc # "idle" /\ used.faults < MaxFaults
    /\ used' = [used EXCEPT !.faults = @ + 1]
    /\ filler' = NoTick
    /\ UNCHANGED <<fillFrame, entries, rule, fill, lock>>

-----------------------------------------------------------------------------
(* The drain moves the index off the shard.  Its vbuckets are gone already. *)

moveFrame == <<row, fill, active, gateway, filler, clientVars, ghost>>

Candidates == active \ ({Leaving} \cup Members(rule[Owner].ring))

\* /pending-intent-count: no transaction is prepared on the shard.
ShardIsQuiet ==
    /\ \A w \in Clients : flights[w].pc = "prepared" => \A d \in Intents(w) : d.to # Leaving
    /\ \A u \in upkeep : u.stage = "intent" => u.to # Leaving

\* /drain-shard: the entries have somewhere to go, the shard takes no new
\* work, and its row keeps the lock until the drain is over.
BeginDrain(op) ==
    /\ InRing(Leaving, rule[Owner].ring) => Candidates # {}
    /\ leave' = [leave EXCEPT !.draining = TRUE, !.op = op]
    /\ active' = active \ {Leaving}

\* The gateway asks the shard, takes the lock and hands it to the catalog.
StartDrain ==
    /\ ~leave.draining /\ ShardIsQuiet /\ Take
    /\ BeginDrain(NextOp)
    /\ UNCHANGED <<shardVars, rule, fill, handlerVars, clientVars, query, ghost>>

Marked == leave.substitute # NoShard

MoveDue == mover.pc = "idle" /\ Latch /\ leave.draining /\ leave.op # NoOp /\ lock = leave.op

\* Mutant: the marker without the fence.
MoveSkipsFence ==
    /\ MoveDue /\ ~Marked /\ InRing(Leaving, rule[Owner].ring) /\ Candidates # {}
    /\ mover' = [mover EXCEPT !.pc = "mark"]
    /\ UNCHANGED <<moveFrame, fenced, entries, rule, leave, lock, query, used>>

\* /fence-index-ring on the shard that leaves.
FenceRing == fenced' = fenced \cup {Leaving}

\* First the fence, then the marker.
MoveFences ==
    /\ MoveDue /\ ~Marked /\ InRing(Leaving, rule[Owner].ring) /\ Candidates # {}
    /\ FenceRing
    /\ mover' = [mover EXCEPT !.pc = "mark"]
    /\ UNCHANGED <<moveFrame, entries, rule, leave, lock, query, used>>

MoveMarks ==
    /\ mover.pc = "mark"
    /\ \E s \in Candidates : leave' = [leave EXCEPT !.substitute = s]
    /\ mover' = [mover EXCEPT !.pc = "repoint"]
    /\ UNCHANGED <<moveFrame, entries, fenced, rule, lock, query, used>>

MoveResumes ==
    /\ MoveDue /\ Marked
    /\ mover' = [mover EXCEPT !.pc = "repoint"]
    /\ UNCHANGED <<moveFrame, entries, fenced, rule, leave, lock, query, used>>

\* The ring is read again; only this shard's place in it is changed.
MoveRepoints ==
    /\ mover.pc = "repoint"
    /\ LET ring == rule[Owner].ring
       IN mover' = IF ~InRing(Leaving, ring) THEN [mover EXCEPT !.pc = "flush"]
                   ELSE [mover EXCEPT !.pc = "fan", !.todo = Catalogs,
                           !.ring = [i \in DOMAIN ring |->
                                       IF ring[i] = Leaving THEN leave.substitute ELSE ring[i]]]
    /\ UNCHANGED <<moveFrame, entries, fenced, rule, leave, lock, query, used>>

\* /update-index-ring on a sibling; on the catalog of the drain last.
SetRing(c, shadow) ==
    /\ c \in mover.todo /\ (c = Owner => mover.todo = {Owner})
    /\ rule' = IF Registered(c)
               THEN [rule EXCEPT ![c].ring = mover.ring, ![c].shadow = shadow] ELSE rule

\* Mutant: the ring without its read-shadow.
FanWithoutShadow(c) ==
    /\ mover.pc = "fan"
    /\ SetRing(c, rule[c].shadow)
    /\ mover' = [mover EXCEPT !.todo = @ \ {c}, !.pc = IF c = Owner THEN "flush" ELSE @]
    /\ UNCHANGED <<moveFrame, entries, fenced, leave, lock, query, used>>

\* Mutant: the substitute is the shadow.
FanShadowsSubstitute(c) ==
    /\ mover.pc = "fan"
    /\ SetRing(c, rule[c].shadow \cup {leave.substitute})
    /\ mover' = [mover EXCEPT !.todo = @ \ {c}, !.pc = IF c = Owner THEN "flush" ELSE @]
    /\ UNCHANGED <<moveFrame, entries, fenced, leave, lock, query, used>>

FanRepoint(c) ==
    /\ mover.pc = "fan"
    /\ SetRing(c, rule[c].shadow \cup {Leaving})
    /\ mover' = [mover EXCEPT !.todo = @ \ {c}, !.pc = IF c = Owner THEN "flush" ELSE @]
    /\ UNCHANGED <<moveFrame, entries, fenced, leave, lock, query, used>>

\* /flush-index-jobs-for-target: what a base shard has left for the target.
Queued(s) == {u \in upkeep : u.stage = "queued" /\ u.to = s}

\* Every base shard is asked to deliver its queued writes for the shard; the
\* tick ends if one has any left, or does not answer.
MoveFlushes ==
    /\ mover.pc = "flush"
    /\ mover' = IF Queued(Leaving) # {} THEN NoMove ELSE [mover EXCEPT !.pc = "copy"]
    /\ UNCHANGED <<moveFrame, entries, fenced, rule, leave, lock, query, used>>

\* A sibling catalog that cannot be reached leaves its base shards out of the
\* list, and whatever they have queued is not counted.
MoveFlushesBlind ==
    /\ mover.pc = "flush" /\ Queued(Leaving) # {}
    /\ used.faults < MaxFaults
    /\ used' = [used EXCEPT !.faults = @ + 1]
    /\ mover' = [mover EXCEPT !.pc = "copy"]
    /\ UNCHANGED <<moveFrame, entries, fenced, rule, leave, lock, query>>

\* copyIndexEntries: what a pass over the source has yet to copy.
Uncopied == entries[Leaving] \ mover.copied

MoveExports ==
    /\ mover.pc = "copy"
    /\ \E e \in Uncopied :
         mover' = [mover EXCEPT !.pc = "import", !.entry = e, !.copied = @ \cup {e}]
    /\ UNCHANGED <<moveFrame, entries, fenced, rule, leave, lock, query, used>>

MoveImports ==
    /\ mover.pc = "import"
    /\ entries' = [entries EXCEPT ![leave.substitute] = @ \cup {mover.entry}]
    /\ mover' = [mover EXCEPT !.pc = "copy", !.entry = <<>>]
    /\ UNCHANGED <<moveFrame, fenced, rule, leave, lock, query, used>>

\* A pass that finds nothing new.
MoveConverges ==
    /\ mover.pc = "copy" /\ Uncopied = {}
    /\ mover' = [mover EXCEPT !.pc = "delete", !.copied = {}]
    /\ UNCHANGED <<moveFrame, entries, fenced, rule, leave, lock, query, used>>

MoveDeletes ==
    /\ mover.pc = "delete"
    /\ entries' = [entries EXCEPT ![Leaving] = {}]
    /\ mover' = [mover EXCEPT !.pc = "unshadow", !.todo = Catalogs, !.ring = rule[Owner].ring]
    /\ query' = [query EXCEPT !.fair = FALSE]
    /\ UNCHANGED <<moveFrame, fenced, rule, leave, lock, used>>

FanUnshadow(c) ==
    /\ mover.pc = "unshadow"
    /\ SetRing(c, rule[c].shadow \ {Leaving})
    /\ IF c = Owner THEN mover' = NoMove /\ leave' = [leave EXCEPT !.substitute = NoShard]
       ELSE mover' = [mover EXCEPT !.todo = @ \ {c}] /\ leave' = leave
    /\ UNCHANGED <<moveFrame, entries, fenced, lock, query, used>>

\* Nothing is left on the shard, or there is nowhere for it to go: the drain
\* releases the lock it was given.
MoveEnds ==
    /\ MoveDue /\ ~Marked
    /\ InRing(Leaving, rule[Owner].ring) => Candidates = {}
    /\ leave' = [leave EXCEPT !.op = NoOp]
    /\ Drop(leave.op)
    /\ UNCHANGED <<moveFrame, entries, fenced, rule, mover, query, used>>

MoveStops ==
    /\ mover.pc # "idle" /\ used.faults < MaxFaults
    /\ used' = [used EXCEPT !.faults = @ + 1]
    /\ mover' = NoMove
    /\ UNCHANGED <<moveFrame, entries, fenced, rule, leave, lock, query>>

-----------------------------------------------------------------------------
Client == \E w \in Clients :
    \/ Route(w)
    \/ PreRead(w)
    \/ Execute(w)
    \/ ExecuteUnanswered(w)
    \/ Prepare(w)
    \/ AbortTx(w)
    \/ CommitTx(w)
    \/ CommitRow(w)

Upkeep == \E u \in upkeep :
    \/ Deliver(u)
    \/ Resolve(u)
    \/ Fails(u)
    \/ Unanswered(u)
    \/ Lose(u)

Query ==
    \/ \E r \in Rows : QueryLookup(r)
    \/ QueryRing
    \/ QueryShadow
    \/ QueryAnswer

Gateway ==
    \/ CreateBegins
    \/ CreateVerifies
    \/ \E c \in Catalogs : Register(c)
    \/ StartBackfill
    \/ DropBegins
    \/ \E c \in Catalogs : Unregister(c)
    \/ \E s \in Shards : CleanShard(s)
    \/ GatewayStops
    \/ LeaseLapses
    \/ \E s \in Shards : AddShard(s)

Filler ==
    \/ FillScan
    \/ FillRefresh
    \/ FillWrite
    \/ FillPageEnds
    \/ FillEnds
    \/ \E c \in Catalogs : MarkReady(c)
    \/ FillFails
    \/ FillStops

Mover ==
    \/ StartDrain
    \/ MoveFences
    \/ MoveMarks
    \/ MoveResumes
    \/ MoveRepoints
    \/ \E c \in Catalogs : FanRepoint(c)
    \/ MoveFlushes
    \/ MoveFlushesBlind
    \/ MoveExports
    \/ MoveImports
    \/ MoveConverges
    \/ MoveDeletes
    \/ \E c \in Catalogs : FanUnshadow(c)
    \/ MoveEnds
    \/ MoveStops

Next == Client \/ Upkeep \/ Query \/ Gateway \/ Filler \/ Mover

Spec == Init /\ [][Next]_vars

-----------------------------------------------------------------------------
(* Every variable has the shape the code gives it, and what is fenced or read  *)
(* as a shadow is the shard that leaves.                                       *)
IndexTypeOK ==
    /\ row \in [Rows -> Values]
    /\ entries \in [Shards -> SUBSET (Rows \X Keys)]
    /\ fenced \subseteq {Leaving} /\ active \subseteq Shards
    /\ \A c \in Catalogs :
         /\ rule[c].status \in {"none", "building", "ready", "failed"}
         /\ Members(rule[c].ring) \subseteq Shards
         /\ rule[c].shadow \subseteq {Leaving}
    /\ fill.at \in 0 .. NRows /\ fill.op \in 0 .. MaxOps
    /\ leave.substitute \in (Shards \ {Leaving}) \cup {NoShard}
    /\ lock \in 0 .. MaxOps
    /\ \A u \in upkeep : u.to \in Shards /\ u.at \in Shards

(* A query of a ready index finds a row by the value it has had all along, if  *)
(* the row's own index writes are done (src/index.ts:3104-3150), and whatever  *)
(* backfill, drain, fence, repoint, retry or lapsed lease is in progress; only *)
(* the deletion of the source's entries between two look-ups of the query, and *)
(* the writes that Clean names, are let off.                                   *)
QueriesFindRows == query.pc = "answer" /\ query.fair => query.found

(* Once its drain is over, a shard holds no entry of the index but what a      *)
(* transaction prepared before the fence, what an earlier index left there, and *)
(* what a write knew under no index or an earlier one (src/catalog.ts:3406).   *)
EvacuatedShardsStayEmpty ==
    leave.draining /\ leave.op = NoOp /\ ~ghost.forked /\ (\A c \in Catalogs : Registered(c)) =>
        \A e \in entries[Leaving] : e[1] \in ghost.late \cup ghost.left \cup ghost.unseen

(* Unless an evacuation is marked, the catalogs that have the index agree on   *)
(* where its entries are written and read (src/catalog.ts:1257-1264).          *)
RingsAgree ==
    ~Marked /\ ~ghost.forked =>
        \A c, d \in Catalogs : Registered(c) /\ Registered(d) =>
            rule[c].ring = rule[d].ring /\ rule[c].shadow = rule[d].shadow
=============================================================================
