---------------------------- MODULE ManifestBucket ----------------------------
(***************************************************************************)
(* One JournalManifestDO bucket (workers/control-plane/src/                *)
(* journal-manifest.ts): the reservation rows of many transactions, the    *)
(* decision clock, seal generations, pages with their leases, and the      *)
(* retention sweeps.  Storage transactions are atomic; a hash is awaited   *)
(* between two of them in finalize, in resolveQuarantine, twice in a seal  *)
(* step and in the retention sweep, and everything else may run there.     *)
(*                                                                         *)
(* The environment is the worst one: any request for any transaction may   *)
(* come at any time and again, also with conflicting content.  Times are   *)
(* small numbers and now is the clock.  A decision time is unique, so it   *)
(* stands for the pair with decision_sequence.  A record hash is the mark  *)
(* rec, a digest the sequence of the entries that were hashed.  Bounded:   *)
(* now by MaxTime, generations by MaxGens, conflicts by MaxConflicts.      *)
(* An alarm purpose may run as soon as it is scheduled: a sweep that comes *)
(* early finds nothing due.  The V1 records (register) are left out.       *)
(***************************************************************************)
EXTENDS Naturals, SequencesExt

CONSTANTS
  Txs, Cutoffs,
  Floors,    \* decision floors that reservations carry from the catalog
  Retention, \* COORDINATOR_RETENTION_DAYS
  Lease,     \* MANIFEST_CURSOR_LEASE_MS
  PageSize,  \* rows digested by one seal step
  Limit,     \* rows of one local page
  Sealers,   \* seal steps that may be in progress at once
  Crashes,   \* whether the object restarts
  MaxTime, MaxGens, MaxConflicts

ASSUME BucketAssumption ==
  /\ IsFiniteSet(Txs) /\ Cutoffs \subseteq Nat /\ Floors \subseteq Nat
  /\ Retention \in Nat /\ Lease \in Nat
  /\ PageSize \in Nat \ {0} /\ Limit \in Nat \ {0}
  /\ MaxTime \in Nat /\ MaxGens \in Nat \ {0}

VARIABLES
  now,
  rows,      \* manifest_reservations
  floor,     \* decision_floor_ms
  last,      \* last_assigned_ms
  sealedTo,  \* sealed_through_ms
  deletedTo, \* records_deleted_through_ms
  revision,  \* evidence_revision
  gens,      \* manifest_seal_generations
  leases,    \* manifest_page_cursors
  schedule,  \* manifest_alarm_schedule: generations and "retention"
  \* volatile
  publish,   \* transactions whose finalize awaits the record hash
  sealer,    \* the seal steps in progress
  sweep,     \* the retention sweep in progress
  reader     \* the enumeration of a caller, page by page

bucketVars == <<floor, last, sealedTo, deletedTo, revision>>
fiberVars == <<publish, sealer, sweep>>
vars == <<now, rows, bucketVars, gens, leases, schedule, fiberVars,
          reader>>

Gen == 1 .. MaxGens

NoRow == [state |-> "none", decided |-> 0, rec |-> FALSE, released |-> FALSE,
          q |-> "NONE", att |-> 0, upd |-> 0]

Row == [state : {"none", "RESERVED", "FINALIZED", "CANCELLED"},
        decided : Nat, rec : BOOLEAN, released : BOOLEAN,
        q : {"NONE", "UNRESOLVED", "RESOLVED"}, att : Nat, upd : Nat]

NoGen == [status |-> "none", cutoff |-> 0, advance |-> FALSE, digest |-> <<>>,
          rev |-> 0, upd |-> 0]

Entry == [tx : Txs, at : Nat, att : Nat]
Record == [tx : Txs, at : Nat]

Generation ==
  [status : {"none", "DRAINING", "COMPLETE", "QUARANTINED", "deleted"},
   cutoff : Nat, advance : BOOLEAN, digest : Seq(Entry), rev : Nat, upd : Nat]

IdleSealer == [phase |-> "idle", gen |-> 1, seen |-> NoGen, batch |-> <<>>]
IdleSweep == [on |-> FALSE, at |-> 0, picked |-> {}, later |-> FALSE]
IdleReader == [gen |-> 0, from |-> 0, after |-> 0, want |-> {}, got |-> <<>>,
               done |-> FALSE]

BucketTypeOK ==
  /\ now \in 0 .. MaxTime
  /\ rows \in [Txs -> Row]
  /\ floor \in Nat /\ last \in Nat /\ sealedTo \in Nat /\ deletedTo \in Nat
  /\ revision \in Nat
  /\ gens \in [Gen -> Generation]
  /\ leases \subseteq [gen : Gen, from : Nat, cutoff : Nat, after : Nat,
                       until : Nat]
  /\ schedule \subseteq Gen \cup {0}
  /\ publish \subseteq Txs
  /\ sealer \in [Sealers -> [phase : {"idle", "digest", "receipt"}, gen : Gen,
                              seen : Generation, batch : Seq(Entry)]]
  /\ sweep \in [on : BOOLEAN, at : Nat, later : BOOLEAN,
                 picked : SUBSET [tx : Txs, at : Nat]]
  /\ reader \in [gen : Gen \cup {0}, from : Nat, after : Nat, done : BOOLEAN,
                  want : SUBSET Record, got : Seq(Record)]

\* The key of the retention purpose among the generations'.
RetentionPurpose == 0

Init ==
  /\ now = 0
  /\ rows = [t \in Txs |-> NoRow]
  /\ floor = 0 /\ last = 0 /\ sealedTo = 0 /\ deletedTo = 0 /\ revision = 0
  /\ gens = [g \in Gen |-> NoGen]
  /\ leases = {}
  /\ schedule = {}
  /\ publish = {}
  /\ sealer = [s \in Sealers |-> IdleSealer] /\ sweep = IdleSweep
  /\ reader = IdleReader

Exists(t) == rows[t].state # "none"
Unresolved(t) == rows[t].q = "UNRESOLVED"

\* manifestMemberAt: what a cutoff covers.
Members(cutoff) ==
  {t \in Txs : rows[t].state = "FINALIZED" /\ rows[t].decided <= cutoff}

\* updated_at_ms, which is only read of rows that the history sweep drops.
Touched(t) == IF rows[t].state = "FINALIZED" THEN 0 ELSE now

\* scheduleAlarmPurpose.
Schedule(purposes) == schedule' = schedule \cup purposes

-----------------------------------------------------------------------------
(* Reservation, finalization, cancellation, release.                       *)

\* A request that contradicts the row: the row keeps its content and is put
\* in quarantine.
Quarantine(t) ==
  /\ revision < MaxConflicts
  /\ rows' = [rows EXCEPT ![t].q = "UNRESOLVED", ![t].upd = Touched(t)]
  /\ revision' = revision + 1

\* reserve: a new row, after merging the floor that the catalog requires.
Reserve(t, required) ==
  /\ ~Exists(t)
  /\ rows' = [rows EXCEPT ![t] = [NoRow EXCEPT !.state = "RESERVED", !.upd = now]]
  /\ floor' = Max({floor, required})
  /\ Schedule({RetentionPurpose})
  /\ UNCHANGED <<now, last, sealedTo, deletedTo, revision, gens,
                 leases, fiberVars, reader>>

\* reserve again: the floor is merged before the row is looked at.
ReserveAgain(t, required) ==
  /\ Exists(t)
  /\ required > floor
  /\ floor' = required
  /\ IF Unresolved(t) THEN UNCHANGED schedule ELSE Schedule({RetentionPurpose})
  /\ UNCHANGED <<now, rows, last, sealedTo, deletedTo, revision, gens,
                 leases, fiberVars, reader>>

\* reserve with other content for the same transaction.
ReserveOther(t) ==
  /\ Exists(t)
  /\ Quarantine(t)
  /\ UNCHANGED <<now, floor, last, sealedTo, deletedTo, gens, leases, schedule,
                 fiberVars, reader>>

\* Mutant: the floor does not push the decision.
DecisionTime_NoFloor == Max({now, last + 1})

\* The decision time: after the clock, the last decision and the floor.
DecisionTime == Max({now, last + 1, floor + 1})

\* finalize up to the hash of the record: the row is FINALIZED at once, with
\* its decision time; a replay of an unfinished one keeps that time.
Assign(t) ==
  /\ rows[t].state \in {"RESERVED", "FINALIZED"}
  /\ ~Unresolved(t)
  /\ ~rows[t].rec
  /\ publish' = publish \cup {t}
  /\ Schedule({RetentionPurpose})
  /\ IF rows[t].state = "RESERVED"
     THEN /\ last' = DecisionTime
          /\ rows' = [rows EXCEPT ![t].state = "FINALIZED",
                                  ![t].decided = DecisionTime, ![t].upd = 0]
     ELSE UNCHANGED <<last, rows>>

Finalize(t) ==
  /\ Assign(t)
  /\ UNCHANGED <<now, floor, sealedTo, deletedTo, revision, gens,
                 leases, sealer, sweep, reader>>

FinalizeConflict(t) ==
  /\ rows[t].state = "CANCELLED"
  /\ ~Unresolved(t)
  /\ Quarantine(t)
  /\ UNCHANGED <<now, floor, last, sealedTo, deletedTo, gens, leases, schedule,
                 fiberVars, reader>>

\* The rest of finalize: the record is stored, whether or not a conflict put
\* the row in quarantine meanwhile.
PublishRecord(t) ==
  /\ t \in publish
  /\ publish' = publish \ {t}
  /\ rows' = [rows EXCEPT ![t].rec = @ \/ rows[t].state = "FINALIZED"]
  /\ UNCHANGED <<now, bucketVars, gens, leases, schedule, 
                 sealer, sweep, reader>>

CancelRow(t) ==
  /\ rows[t].state = "RESERVED"
  /\ ~Unresolved(t)
  /\ rows' = [rows EXCEPT ![t].state = "CANCELLED", ![t].upd = now]
  /\ Schedule({RetentionPurpose})

Cancel(t) ==
  /\ CancelRow(t)
  /\ UNCHANGED <<now, bucketVars, gens, leases, fiberVars, reader>>

CancelConflict(t) ==
  /\ rows[t].state = "FINALIZED"
  /\ ~Unresolved(t)
  /\ Quarantine(t)
  /\ UNCHANGED <<now, floor, last, sealedTo, deletedTo, gens, leases, schedule,
                 fiberVars, reader>>

\* releaseV2: the coordinator is done with the record.
Release(t) ==
  /\ rows[t].rec /\ ~Unresolved(t)
  /\ rows' = [rows EXCEPT ![t].released = TRUE]
  /\ Schedule({RetentionPurpose})
  /\ UNCHANGED <<now, bucketVars, gens, leases, fiberVars, reader>>

-----------------------------------------------------------------------------
(* Audited resolution of a quarantine.                                     *)

\* The evidence a request may select: a terminal row is confirmed by its
\* record or its intent, a reserved one is decided by the intent.
Selectable(t, resolution, selected) ==
  \/ /\ rows[t].state = "RESERVED" /\ selected = "intent"
  \/ /\ rows[t].state = "CANCELLED" /\ selected = "intent"
     /\ resolution = "CANCELLED"
  \/ /\ rows[t].state = "FINALIZED" /\ selected = "record" /\ rows[t].rec
     /\ resolution = "FINALIZED"

\* resolveQuarantine: the attestation is stored; it then
\* makes the call of Finalize or Cancel for a row that is still reserved, which
\* can come later, fail, or be lost with the object.
Resolve(t, resolution, selected) ==
  /\ Exists(t)
  /\ Selectable(t, resolution, selected)
  /\ Unresolved(t)
  /\ rows' = [rows EXCEPT ![t].q = "RESOLVED", ![t].att = revision + 1,
                          ![t].upd = Touched(t)]
  /\ revision' = revision + 1
  /\ UNCHANGED <<now, floor, last, sealedTo, deletedTo, gens, leases, schedule,
                 fiberVars, reader>>

-----------------------------------------------------------------------------
(* Seal generations.                                                       *)

EntryOf(t) == [tx |-> t, at |-> rows[t].decided, att |-> rows[t].att]

\* The entries of members, in the order of their decisions: i members are
\* decided up to the i-th.
InOrder(members) ==
  [i \in 1 .. Cardinality(members) |->
     EntryOf(CHOOSE t \in members :
       Cardinality({u \in members : rows[u].decided <= rows[t].decided}) = i)]

\* The first n members after a decision time.
FirstAfter(members, after, n) ==
  LET rest == InOrder({t \in members : rows[t].decided > after})
  IN SubSeq(rest, 1, Min({n, Len(rest)}))

CursorOf(digest) == IF digest = <<>> THEN 0 ELSE Last(digest).at

Incomplete(cutoff) == \E t \in Members(cutoff) : ~rows[t].rec
Disputed(cutoff) == \E t \in Members(cutoff) : Unresolved(t)

\* Mutant: starting over keeps the revision it started from.
Restarted_OldRevision(gen) ==
  [gen EXCEPT !.status = "DRAINING", !.digest = <<>>, !.upd = now]

\* A generation that starts over digests the evidence as it is now.
Restarted(gen) == [gen EXCEPT !.status = "DRAINING", !.digest = <<>>,
                              !.rev = revision, !.upd = now]

\* The first part of resumeSeal on generation g, from the generations and the
\* purposes that its caller leaves.
Drain(s, g, table, purposes) ==
  LET gen == table[g]
      batch == FirstAfter(Members(gen.cutoff), CursorOf(gen.digest), PageSize)
      Keep(next) == gens' = next /\ UNCHANGED sealer
  IN
  \/ /\ gen.status # "DRAINING"
     /\ Keep(table) /\ schedule' = purposes \ {g}
  \/ /\ gen.status = "DRAINING" /\ Disputed(gen.cutoff)
     /\ Keep([table EXCEPT ![g].status = "QUARANTINED", ![g].upd = now])
     /\ schedule' = purposes \ {g}
  \/ /\ gen.status = "DRAINING" /\ ~Disputed(gen.cutoff) /\ gen.rev # revision
     /\ Keep([table EXCEPT ![g] = Restarted(gen)])
     /\ schedule' = purposes \cup {g}
  \/ /\ gen.status = "DRAINING" /\ ~Disputed(gen.cutoff) /\ gen.rev = revision
     /\ \E i \in DOMAIN batch : ~rows[batch[i].tx].rec
     /\ Keep(table) /\ schedule' = purposes \cup {g}
  \/ /\ gen.status = "DRAINING" /\ ~Disputed(gen.cutoff) /\ gen.rev = revision
     /\ \A i \in DOMAIN batch : rows[batch[i].tx].rec
     /\ gens' = table /\ schedule' = purposes
     /\ sealer' = [sealer EXCEPT ![s] = [phase |-> "digest", gen |-> g,
                                         seen |-> gen, batch |-> batch]]

\* closeThrough with a new key: a new generation that raises the floor.
CloseNew(s, c) ==
  LET g == Min({h \in Gen : gens[h].status = "none"})
  IN
  /\ sealer[s].phase = "idle"
  /\ c <= now
  /\ ~\E h \in Gen : gens[h].status = "COMPLETE" /\ gens[h].cutoff = c
  /\ ~\E h \in Gen : gens[h].status = "DRAINING"
  /\ \E h \in Gen : gens[h].status = "none"
  /\ floor' = Max({floor, c})
  /\ Drain(s, g,
           [gens EXCEPT ![g] = [NoGen EXCEPT !.status = "DRAINING", !.cutoff = c,
                                  !.advance = (c >= sealedTo),
                                  !.rev = revision, !.upd = now]],
           schedule)
  /\ UNCHANGED <<now, rows, last, sealedTo, deletedTo, revision,
                 leases, publish, sweep, reader>>

\* closeThrough with a known key; a quarantined generation starts over when
\* its conflicts were resolved.
CloseAgain(s, g) ==
  /\ sealer[s].phase = "idle"
  /\ gens[g].status \in {"DRAINING", "COMPLETE", "QUARANTINED"}
  /\ Drain(s, g,
           IF gens[g].status = "QUARANTINED" /\ ~Disputed(gens[g].cutoff)
           THEN [gens EXCEPT ![g] = Restarted(gens[g])] ELSE gens,
           schedule)
  /\ UNCHANGED <<now, rows, bucketVars, leases, publish, 
                 sweep, reader>>

\* The alarm on a seal purpose: the purpose is consumed first.
AlarmSeal(s, g) ==
  /\ sealer[s].phase = "idle"
  /\ g \in schedule
  /\ Drain(s, g, gens, schedule \ {g})
  /\ UNCHANGED <<now, rows, bucketVars, leases, publish, 
                 sweep, reader>>

\* The generation is as the step that hashed a batch of it read it.
Unmoved(w) ==
  /\ gens[w.gen].status = "DRAINING"
  /\ gens[w.gen].rev = w.seen.rev /\ revision = w.seen.rev
  /\ CursorOf(gens[w.gen].digest) = CursorOf(w.seen.digest)

\* The members of the generation are the entries that were hashed.
Counted(gen) ==
  /\ ~Incomplete(gen.cutoff)
  /\ Cardinality(Members(gen.cutoff)) = Len(gen.digest)
  /\ revision = gen.rev

\* resumeSeal after the batch was hashed: the progress is stored, and the
\* last batch goes on to hash the receipt.
DigestBatch(s) ==
  LET w == sealer[s]
      gen == [gens[w.gen] EXCEPT !.digest = @ \o w.batch, !.upd = now]
  IN
  /\ w.phase = "digest"
  /\ IF ~Unmoved(w)
     THEN UNCHANGED gens
     ELSE gens' = [gens EXCEPT ![w.gen] = gen]
  /\ IF Unmoved(w) /\ Len(w.batch) < PageSize /\ Counted(gen)
     THEN /\ sealer' = [sealer EXCEPT ![s] = [phase |-> "receipt", gen |-> w.gen,
                                              seen |-> gen, batch |-> <<>>]]
          /\ UNCHANGED schedule
     ELSE /\ sealer' = [sealer EXCEPT ![s] = IdleSealer]
          /\ Schedule({w.gen})
  /\ UNCHANGED <<now, rows, bucketVars, leases, publish, 
                 sweep, reader>>

\* What the publication of a receipt checks again after its hash.
Publishable(w) ==
  LET gen == gens[w.gen]
  IN /\ gen.status = "DRAINING"
     /\ gen.rev = w.seen.rev /\ revision = gen.rev
     /\ gen.digest = w.seen.digest
     /\ Cardinality(Members(gen.cutoff)) = Len(gen.digest)
     /\ ~Disputed(gen.cutoff) /\ ~Incomplete(gen.cutoff)

PublishReceipt(s) ==
  LET w == sealer[s]
  IN
  /\ w.phase = "receipt"
  /\ IF Publishable(w)
     THEN /\ gens' = [gens EXCEPT ![w.gen].status = "COMPLETE",
                                  ![w.gen].upd = now]
          /\ sealedTo' = IF gens[w.gen].advance
                         THEN Max({sealedTo, gens[w.gen].cutoff}) ELSE sealedTo
          /\ schedule' = (schedule \ {w.gen}) \cup {RetentionPurpose}
     ELSE UNCHANGED <<gens, sealedTo>> /\ Schedule({w.gen})
  /\ sealer' = [sealer EXCEPT ![s] = IdleSealer]
  /\ UNCHANGED <<now, rows, floor, last, deletedTo, revision, leases,
                 publish, sweep, reader>>

-----------------------------------------------------------------------------
(* Pages of a sealed range, under a lease.                                 *)

InRange(from, cutoff) == {t \in Members(cutoff) : rows[t].decided >= from}

\* The records of entries; attestations are no part of them.
Records(entries) ==
  [i \in DOMAIN entries |-> [tx |-> entries[i].tx, at |-> entries[i].at]]

\* A lease holds its range from the first decision to the cutoff.
Leased(held, from, to) == \E l \in held : l.from <= to /\ l.cutoff >= from

\* Mutant: reads what retention has started to delete.
Readable_Deleted(g, from, after) ==
  /\ gens[g].status = "COMPLETE"
  /\ \A t \in InRange(from, gens[g].cutoff) : ~Unresolved(t)
  /\ after >= 0

\* localPage: a page of at most Limit records after the cursor, or refusal.
Readable(g, from, after) ==
  /\ gens[g].status = "COMPLETE"
  /\ after > 0 => \E l \in leases : /\ l.gen = g /\ l.from = from
                                    /\ l.after = after /\ l.until > now
  /\ deletedTo = 0 \/ from > deletedTo
  /\ \A t \in InRange(from, gens[g].cutoff) : ~Unresolved(t)

NewLease(g, from, after) ==
  [gen |-> g, from |-> from, cutoff |-> gens[g].cutoff, after |-> after,
   until |-> now + Lease]

\* The leases of a request, renewed with the cursor that it is given.
Renewed(g, from, next) ==
  {l \in leases : ~(l.gen = g /\ l.from = from /\ l.after \in {0, next})}
    \cup {NewLease(g, from, after) : after \in {0, next}}

\* The reader asks for the next page of its enumeration.
LocalPage(g, from) ==
  LET after == IF reader.gen = 0 THEN 0 ELSE reader.after
      page == FirstAfter({t \in InRange(from, gens[g].cutoff) : rows[t].rec},
                     after, Limit + 1)
      more == Len(page) > Limit
      taken == IF more THEN Front(page) ELSE page
      next == IF more THEN Last(taken).at ELSE 0
  IN
  /\ ~reader.done
  /\ reader.gen = 0 \/ (reader.gen = g /\ reader.from = from)
  /\ Readable(g, from, after)
  /\ leases' = Renewed(g, from, next)
  /\ Schedule({RetentionPurpose})
  /\ reader' = [gen |-> g, from |-> from, after |-> next, done |-> ~more,
                want |-> {r \in ToSet(Records(gens[g].digest)) : r.at >= from},
                got |-> reader.got \o Records(taken)]
  /\ UNCHANGED <<now, rows, bucketVars, gens, fiberVars>>

\* A refused reader starts over.
PageRefused ==
  /\ reader.gen # 0 /\ ~reader.done
  /\ ~Readable(reader.gen, reader.from, reader.after)
  /\ reader' = IdleReader
  /\ Schedule({RetentionPurpose})
  /\ UNCHANGED <<now, rows, bucketVars, gens, leases, fiberVars>>

-----------------------------------------------------------------------------
(* The retention alarm.                                                    *)

\* What sweepV2Retention may delete.
Due(t, at) ==
  /\ rows[t].state = "FINALIZED" /\ rows[t].rec
  /\ rows[t].released /\ ~Unresolved(t)
  /\ rows[t].decided + Retention <= at

Candidates(at) == {[tx |-> t, at |-> rows[t].decided] : t \in {u \in Txs : Due(u, at)}}

Draining == \E g \in Gen : gens[g].status = "DRAINING"

\* Every record with a deadline, due or not, wakes the sweep again.
Deadlines(table) ==
  \E t \in Txs : table[t].state = "FINALIZED" /\ table[t].rec
                 /\ table[t].q # "UNRESOLVED"

\* What sweepV2History may delete: rows without a decision, and generations
\* that failed or were superseded.
HistoryRow(t) == rows[t].state \in {"RESERVED", "CANCELLED"} /\ ~Unresolved(t)
HistoryGen(g) ==
  \/ gens[g].status = "QUARANTINED"
  \/ gens[g].status = "COMPLETE" /\ \E h \in Gen : h > g /\ gens[h].status = "COMPLETE"
Old(upd) == upd + Retention <= now

OldRows == {t \in Txs : HistoryRow(t) /\ Old(rows[t].upd)}
OldGens == {g \in Gen : HistoryGen(g) /\ Old(gens[g].upd)}

\* Mutant: a deleted row is marked.
Dropped_Marked(gone) ==
  [t \in Txs |-> IF t \in gone THEN [NoRow EXCEPT !.state = "DELETED"] ELSE rows[t]]

Dropped(gone) == [t \in Txs |-> IF t \in gone THEN NoRow ELSE rows[t]]

\* The alarm computes its successor: none clears the purpose.
Reschedule(wanted) ==
  schedule' = IF wanted THEN schedule \cup {RetentionPurpose}
                        ELSE schedule \ {RetentionPurpose}

\* The alarm on the retention purpose up to the hash of what it will delete.
SweepStart ==
  LET held == {l \in leases : l.until > now}
      picked == Candidates(now)
      times == {p.at : p \in picked}
      later == \/ held # {}
               \/ \E t \in Txs \ OldRows : HistoryRow(t)
               \/ \E g \in Gen \ OldGens : HistoryGen(g)
      blocked == Draining \/ Leased(held, Min(times), Max(times))
  IN
  /\ RetentionPurpose \in schedule /\ ~sweep.on
  /\ rows' = Dropped(OldRows)
  /\ gens' = [g \in Gen |-> IF g \in OldGens
                            THEN [NoGen EXCEPT !.status = "deleted"] ELSE gens[g]]
  /\ leases' = held
  /\ IF picked # {} /\ ~blocked
     THEN /\ sweep' = [on |-> TRUE, at |-> now, picked |-> picked,
                       later |-> later]
          /\ schedule' = schedule \ {RetentionPurpose}
     ELSE /\ UNCHANGED sweep
          /\ Reschedule(later \/ Draining \/ Deadlines(rows))
  /\ UNCHANGED <<now, bucketVars, publish, sealer, reader>>

\* Mutant: deletes what it hashed, whatever happened meanwhile.
StillDue_AsRead == sweep.on

\* The deletion checks again what it will delete and who reads it.
StillDue ==
  LET times == {p.at : p \in sweep.picked}
  IN /\ ~Leased({l \in leases : l.until > sweep.at}, Min(times), Max(times))
     /\ ~Draining
     /\ Candidates(sweep.at) = sweep.picked

SweepFinish ==
  LET gone == IF StillDue THEN {p.tx : p \in sweep.picked} ELSE {}
      deferred == ~StillDue /\ Candidates(sweep.at) = sweep.picked
      times == {p.at : p \in sweep.picked}
  IN
  /\ sweep.on
  /\ rows' = Dropped(gone)
  /\ deletedTo' = IF gone = {} THEN deletedTo ELSE Max({deletedTo, Max(times)})
  /\ Reschedule(sweep.later \/ deferred \/ Deadlines(rows'))
  /\ sweep' = IdleSweep
  /\ UNCHANGED <<now, floor, last, sealedTo, revision, gens, leases, publish,
                 sealer, reader>>

-----------------------------------------------------------------------------
Tick ==
  /\ now < MaxTime
  /\ now' = now + 1
  /\ UNCHANGED <<rows, bucketVars, gens, leases, schedule, fiberVars,
                 reader>>

\* The object is evicted: what was waiting for a hash is gone.
Restart ==
  /\ Crashes
  /\ publish' = {}
  /\ sealer' = [s \in Sealers |-> IdleSealer] /\ sweep' = IdleSweep
  /\ UNCHANGED <<now, rows, bucketVars, gens, leases, schedule, reader>>

Next ==
  \/ \E t \in Txs :
       \/ \E f \in Floors : Reserve(t, f) \/ ReserveAgain(t, f)
       \/ ReserveOther(t) \/ Finalize(t) \/ FinalizeConflict(t)
       \/ PublishRecord(t) \/ Cancel(t) \/ CancelConflict(t) \/ Release(t)
       \/ \E res \in {"FINALIZED", "CANCELLED"}, sel \in {"record", "intent"} :
            Resolve(t, res, sel)
  \/ \E s \in Sealers :
       \/ \E c \in Cutoffs : CloseNew(s, c)
       \/ \E g \in Gen : CloseAgain(s, g) \/ AlarmSeal(s, g)
       \/ DigestBatch(s) \/ PublishReceipt(s)
  \/ \E g \in Gen, from \in Cutoffs : LocalPage(g, from)
  \/ PageRefused
  \/ SweepStart \/ SweepFinish
  \/ Tick \/ Restart

Spec == Init /\ [][Next]_vars

\* The catalog replays its close, coordinators replay their finalize, and what
\* waits for a hash goes on.
Fairness ==
  /\ \A s \in Sealers :
       /\ \A g \in Gen : WF_vars(CloseAgain(s, g))
       /\ WF_vars(DigestBatch(s)) /\ WF_vars(PublishReceipt(s))
  /\ \A t \in Txs : WF_vars(PublishRecord(t)) /\ WF_vars(Finalize(t))

FairSpec == Spec /\ Fairness

-----------------------------------------------------------------------------
(* Properties.                                                             *)

\* The decisions that are held, and the seals that are published.
Decisions == {[tx |-> t, at |-> rows[t].decided] :
                t \in {u \in Txs : rows[u].state = "FINALIZED"}}

BucketSeals ==
  {[cutoff |-> gens[g].cutoff,
    members |-> {[tx |-> e.tx, at |-> e.at] : e \in ToSet(gens[g].digest)}] :
     g \in {h \in Gen : gens[h].status = "COMPLETE"}}

\* The bucket is a log with seals (SealedLog): finalize never assigns a
\* decision at or below a published cutoff, and a published receipt digests
\* exactly the decisions up to its cutoff, whatever ran during the hashes.
Log == INSTANCE SealedLog WITH log <- Decisions, seals <- BucketSeals

ImplementsSealedLog == Log!LogSpec

\* An enumeration that ends got exactly the sealed records of its range, each
\* once and in order, though pages, retention and seals interleave.
EnumerationIsComplete ==
  reader.done =>
    /\ ToSet(reader.got) = reader.want
    /\ \A i, j \in DOMAIN reader.got : i < j => reader.got[i].at < reader.got[j].at

\* Retention never takes a record from under a live lease, from a coordinator
\* that still needs it, or from a seal that is being digested.
RetentionIsSafe ==
  [][\A t \in Txs :
       rows[t].state = "FINALIZED" /\ rows'[t] = NoRow
       => /\ rows[t].released /\ ~Unresolved(t)
          /\ ~Leased({l \in leases : l.until > now}, rows[t].decided, rows[t].decided)
          /\ ~Draining]_vars

\* A seal that is being digested ends, complete or quarantined, if from some
\* time on the object is not restarted.
DrainingEnds ==
  <>[][~Restart]_vars =>
    \A g \in Gen : gens[g].status = "DRAINING" ~> gens[g].status # "DRAINING"

=============================================================================
