-------------------------- MODULE ManifestBucketProofs --------------------------
(***************************************************************************)
(* Proofs about ManifestBucket, for any finite set of transactions and any *)
(* cutoffs, floors, page sizes, leases, retention and sealers.             *)
(***************************************************************************)
EXTENDS ManifestBucket, FiniteSetTheorems, FunctionTheorems, SequenceTheorems, TLAPS

Lease_ == [gen : Gen, from : Nat, cutoff : Nat, after : Nat, until : Nat]

Sealer == [phase : {"idle", "digest", "receipt"}, gen : Gen,
           seen : Generation, batch : Seq(Entry)]

Sweep == [on : BOOLEAN, at : Nat, later : BOOLEAN, picked : SUBSET Record]

Reader == [gen : Gen \cup {0}, from : Nat, after : Nat, done : BOOLEAN,
           want : SUBSET Record, got : Seq(Record)]

\* The shapes of what is stored, of the calls that await a hash, and of the
\* caller that enumerates.
StoredTypes ==
  /\ now \in 0 .. MaxTime /\ rows \in [Txs -> Row]
  /\ floor \in Nat /\ last \in Nat /\ sealedTo \in Nat /\ deletedTo \in Nat
  /\ revision \in Nat
  /\ gens \in [Gen -> Generation]
  /\ leases \subseteq Lease_ /\ schedule \subseteq Gen \cup {0}

CallTypes ==
  /\ publish \subseteq Txs /\ sealer \in [Sealers -> Sealer]
  /\ sweep \in Sweep /\ reader \in Reader

\* Decisions have their own times, up to the last that was assigned.
RowsTrue ==
  /\ \A t \in Txs : rows[t].decided <= last
  /\ \A t \in Txs : rows[t].state = "FINALIZED" => rows[t].decided > 0
  /\ \A t \in Txs : rows[t].rec => rows[t].state = "FINALIZED"
  /\ \A t, u \in Txs :
       rows[t].state = "FINALIZED" /\ rows[u].state = "FINALIZED"
         /\ rows[t].decided = rows[u].decided => t = u

\* In the order of decisions.
Sorted(s) == \A i, j \in DOMAIN s : i < j => s[i].at < s[j].at

\* The entry is a decision that is held, up to the cutoff.
InForce(e, cutoff) ==
  /\ rows[e.tx].state = "FINALIZED" /\ rows[e.tx].decided = e.at
  /\ e.at <= cutoff

\* What a generation has digested is held while it drains, and covers what is
\* held when it is complete; then only retention takes from it.
GenTrue(g) ==
  /\ gens[g].status \in {"DRAINING", "COMPLETE", "QUARANTINED"} => gens[g].cutoff <= floor
  /\ gens[g].status = "DRAINING" =>
       /\ Sorted(gens[g].digest)
       /\ \A e \in ToSet(gens[g].digest) : InForce(e, gens[g].cutoff)
  /\ gens[g].status = "COMPLETE" =>
       /\ Sorted(gens[g].digest)
       /\ \A e \in ToSet(gens[g].digest) :
            e.at > 0 /\ (InForce(e, gens[g].cutoff) \/ e.at <= deletedTo)
       /\ \A t \in Members(gens[g].cutoff) :
            /\ rows[t].rec
            /\ \E e \in ToSet(gens[g].digest) : e.tx = t /\ e.at = rows[t].decided

\* While nothing contradicted the evidence, a batch that is being hashed is
\* what comes after the cursor it was read at.
SealerTrue(s) ==
  LET g == sealer[s].gen
  IN
  sealer[s].phase = "digest" =>
    /\ gens[g].status # "none"
    /\ sealer[s].seen.rev <= revision
    /\ sealer[s].seen.rev = revision =>
         /\ gens[g].status # "QUARANTINED"
         /\ gens[g].status = "DRAINING" =>
              /\ ~Disputed(gens[g].cutoff)
              /\ Sorted(sealer[s].batch)
              /\ \A e \in ToSet(sealer[s].batch) :
                   InForce(e, gens[g].cutoff) /\ e.at > CursorOf(sealer[s].seen.digest)

\* What a caller has of its range is the records up to its cursor.
ReaderTrue ==
  /\ Sorted(reader.got)
  /\ reader.gen = 0 => reader.got = <<>> /\ reader.after = 0 /\ ~reader.done
  /\ reader.gen # 0 => gens[reader.gen].status \in {"COMPLETE", "deleted"}
  /\ reader.done => ToSet(reader.got) = reader.want
  /\ ~reader.done => \A r \in ToSet(reader.got) : r.at <= reader.after
  /\ reader.gen # 0 /\ ~reader.done /\ gens[reader.gen].status = "COMPLETE" =>
       ToSet(reader.got) = {r \in ToSet(Records(gens[reader.gen].digest)) :
                              r.at >= reader.from /\ r.at <= reader.after}

BucketInv ==
  /\ StoredTypes /\ CallTypes /\ RowsTrue
  /\ \A g \in Gen : GenTrue(g)
  /\ \A s \in Sealers : SealerTrue(s)
  /\ ReaderTrue
  /\ sweep.on => sweep.at <= now
-----------------------------------------------------------------------------
(* Lemmas on numbers.                                                      *)

\* A set of naturals has a least element.
LEMMA HasLeast ==
  ASSUME NEW I \in SUBSET Nat, I # {}
  PROVE  \E m \in I : \A y \in I : m <= y
<1> DEFINE L == {ss \in Nat \X Nat : ss[1] < ss[2]}
<1>1. IsWellFoundedOn(L, Nat)
  BY NatLessThanWellFounded DEF OpToRel
<1> HIDE DEF L
<1>2. PICK m \in I : \A y \in I : ~(<<y, m>> \in L)
  BY <1>1, WFMin
<1>3. \A y \in I : ~(y < m)
  BY <1>2 DEF L
<1>4. \A y \in I : m <= y
  BY <1>3
<1>5. QED
  BY <1>4

\* Min picks the least of a set of naturals.
LEMMA MinIsLeast ==
  ASSUME NEW I \in SUBSET Nat, I # {}
  PROVE  Min(I) \in I /\ \A y \in I : Min(I) <= y
<1>1. \E m \in I : \A y \in I : m <= y
  BY HasLeast
<1>2. QED
  BY <1>1 DEF Min

\* Max picks the greatest of a bounded set of naturals.
LEMMA MaxIsGreatest ==
  ASSUME NEW n \in Nat, NEW I \in SUBSET (0 .. n), I # {}
  PROVE  Max(I) \in I /\ \A y \in I : Max(I) >= y
<1> DEFINE U == {m \in Nat : \A y \in I : y <= m}
<1>1. n \in U
  OBVIOUS
<1>2. PICK m \in U : \A y \in U : m <= y
  <2> HIDE DEF U
  <2>1. U \subseteq Nat
    BY DEF U
  <2>2. QED
    BY <1>1, <2>1, HasLeast
<1>3. m \in I
  <2>1. SUFFICES ASSUME m \notin I
                 PROVE  FALSE
    OBVIOUS
  <2>2. \A y \in I : y < m
    BY <2>1, <1>2
  <2>3. PICK y0 : y0 \in I
    OBVIOUS
  <2>4. m - 1 \in U
    BY <2>2, <2>3, <1>2
  <2>5. QED
    BY <2>4, <1>2
<1>4. \E x \in I : \A y \in I : x >= y
  BY <1>2, <1>3
<1>5. QED
  BY <1>4 DEF Max

\* The larger of two times.
LEMMA MaxOfTwo ==
  ASSUME NEW a \in Nat, NEW b \in Nat
  PROVE  Max({a, b}) \in Nat /\ Max({a, b}) \in {a, b} /\ Max({a, b}) >= a /\ Max({a, b}) >= b
<1>1. \E x \in {a, b} : \A y \in {a, b} : x >= y
  OBVIOUS
<1>2. Max({a, b}) \in {a, b} /\ \A y \in {a, b} : Max({a, b}) >= y
  BY <1>1 DEF Max
<1>3. QED
  BY <1>2

\* The smaller of two counts.
LEMMA MinOfTwo ==
  ASSUME NEW a \in Nat, NEW b \in Nat
  PROVE  Min({a, b}) \in Nat /\ Min({a, b}) \in {a, b} /\ Min({a, b}) <= a /\ Min({a, b}) <= b
<1>1. {a, b} \in SUBSET Nat /\ {a, b} # {}
  OBVIOUS
<1>2. Min({a, b}) \in {a, b} /\ \A y \in {a, b} : Min({a, b}) <= y
  BY <1>1, MinIsLeast
<1>3. QED
  BY <1>2

\* A decision is after the clock, the last decision and the floor
\* (journal-manifest.ts: max of the three before the row is written).
LEMMA DecisionIsLater ==
  ASSUME now \in Nat, last \in Nat, floor \in Nat
  PROVE  DecisionTime \in Nat /\ DecisionTime > last /\ DecisionTime > floor
<1> DEFINE I == {now, last + 1, floor + 1}
<1>1. \E x \in I : \A y \in I : x >= y
  <2>1. CASE now >= last + 1 /\ now >= floor + 1
    BY <2>1
  <2>2. CASE ~(now >= last + 1 /\ now >= floor + 1) /\ last >= floor
    BY <2>2
  <2>3. CASE ~(now >= last + 1 /\ now >= floor + 1) /\ ~(last >= floor)
    BY <2>3
  <2>4. QED
    BY <2>1, <2>2, <2>3
<1>2. Max(I) \in I /\ \A y \in I : Max(I) >= y
  BY <1>1 DEF Max
<1>3. DecisionTime = Max(I)
  BY DEF DecisionTime
<1>4. QED
  BY <1>2, <1>3

-----------------------------------------------------------------------------
(* Lemmas on the order of decisions.                                       *)

\* Every member has a decision time of its own.
Apart(members) ==
  \A t, u \in members : rows[t].decided = rows[u].decided => t = u

UpToOf(members, t) == {u \in members : rows[u].decided <= rows[t].decided}

\* Members are numbered 1, 2, ... by their decisions, without a gap.
LEMMA RanksFit ==
  ASSUME rows \in [Txs -> Row], NEW M \in SUBSET Txs, Apart(M)
  PROVE  /\ IsFiniteSet(M) /\ Cardinality(M) \in Nat
         /\ \A t \in M : Cardinality(UpToOf(M, t)) \in 1 .. Cardinality(M)
         /\ \A t, u \in M : rows[t].decided < rows[u].decided
                            => Cardinality(UpToOf(M, t)) < Cardinality(UpToOf(M, u))
         /\ \A i \in 1 .. Cardinality(M) :
              \E t \in M : Cardinality(UpToOf(M, t)) = i
<1>1. IsFiniteSet(M) /\ Cardinality(M) \in Nat
  BY BucketAssumption, FS_Subset, FS_CardinalityType
<1>2. \A t \in M : rows[t].decided \in Nat
  BY DEF Row
<1>3. \A t \in M : /\ IsFiniteSet(UpToOf(M, t))
                   /\ Cardinality(UpToOf(M, t)) \in 1 .. Cardinality(M)
  <2> TAKE t \in M
  <2>1. UpToOf(M, t) \in SUBSET M
    BY DEF UpToOf
  <2>2. t \in UpToOf(M, t)
    BY <1>2 DEF UpToOf
  <2>3. IsFiniteSet(UpToOf(M, t)) /\ Cardinality(UpToOf(M, t)) <= Cardinality(M)
    BY <1>1, <2>1, FS_Subset
  <2>4. Cardinality(UpToOf(M, t)) \in Nat
    BY <2>3, FS_CardinalityType
  <2>5. Cardinality(UpToOf(M, t)) # 0
    BY <2>2, <2>3, FS_EmptySet
  <2>6. QED
    BY <1>1, <2>3, <2>4, <2>5
<1>4. ASSUME NEW t \in M, NEW u \in M, rows[t].decided < rows[u].decided
      PROVE  Cardinality(UpToOf(M, t)) < Cardinality(UpToOf(M, u))
  <2>1. UpToOf(M, t) \in SUBSET UpToOf(M, u)
    BY <1>2, <1>4 DEF UpToOf
  <2>2. u \in UpToOf(M, u) /\ u \notin UpToOf(M, t)
    BY <1>2, <1>4 DEF UpToOf
  <2>3. /\ Cardinality(UpToOf(M, t)) <= Cardinality(UpToOf(M, u))
        /\ Cardinality(UpToOf(M, u)) = Cardinality(UpToOf(M, t))
             => UpToOf(M, u) = UpToOf(M, t)
    BY <1>3, <2>1, FS_Subset
  <2>4. Cardinality(UpToOf(M, u)) \in Nat /\ Cardinality(UpToOf(M, t)) \in Nat
    BY <1>3
  <2>5. QED
    BY <2>2, <2>3, <2>4
<1>5. ASSUME NEW i \in 1 .. Cardinality(M)
      PROVE  \E t \in M : Cardinality(UpToOf(M, t)) = i
  <2> DEFINE N == 1 .. Cardinality(M)
             f == [t \in M |-> Cardinality(UpToOf(M, t))]
  <2>1. f \in [M -> N]
    BY <1>3
  <2>2. \A t, u \in M : f[t] = f[u] => t = u
    <3> SUFFICES ASSUME NEW t \in M, NEW u \in M, f[t] = f[u], t # u
                 PROVE  FALSE
      OBVIOUS
    <3>1. rows[t].decided # rows[u].decided
      BY DEF Apart
    <3>2. rows[t].decided < rows[u].decided \/ rows[u].decided < rows[t].decided
      BY <1>2, <3>1
    <3>3. Cardinality(UpToOf(M, t)) # Cardinality(UpToOf(M, u))
      BY <1>3, <1>4, <3>2
    <3>4. QED
      BY <3>3
  <2>3. IsFiniteSet(N) /\ Cardinality(N) = Cardinality(M)
    <3>1. 1 \in Int /\ Cardinality(M) \in Int
      BY <1>1
    <3>2. IsFiniteSet(N)
            /\ Cardinality(N) = IF 1 > Cardinality(M) THEN 0 ELSE Cardinality(M) - 1 + 1
      BY <3>1, FS_Interval
    <3>3. QED
      BY <1>1, <3>2
  <2> HIDE DEF f, N
  <2>4. f \in Injection(M, N)
    BY <2>1, <2>2, Fun_IsInj
  <2>5. f \in Surjection(M, N)
    BY <2>3, <2>4, FS_Injection
  <2>6. \E t \in M : f[t] = i
    <3>1. i \in N
      BY DEF N
    <3>2. \A k \in N : \E t \in M : f[t] = k
      BY <2>5, Fun_SurjectionProperties
    <3>3. QED
      BY <3>1, <3>2
  <2>7. QED
    BY <2>6 DEF f
<1>6. QED
  BY <1>1, <1>3, <1>4, <1>5

\* The members in order: each once, by decision.
LEMMA InOrderIsSorted ==
  ASSUME rows \in [Txs -> Row], NEW M \in SUBSET Txs, Apart(M)
  PROVE  /\ InOrder(M) \in Seq(Entry) /\ Len(InOrder(M)) = Cardinality(M)
         /\ Sorted(InOrder(M))
         /\ ToSet(InOrder(M)) = {EntryOf(t) : t \in M}
<1> DEFINE n == Cardinality(M)
           who(i) == CHOOSE t \in M : Cardinality(UpToOf(M, t)) = i
           s == InOrder(M)
<1>1. /\ n \in Nat
      /\ \A t \in M : Cardinality(UpToOf(M, t)) \in 1 .. n
      /\ \A t, u \in M : rows[t].decided < rows[u].decided
                         => Cardinality(UpToOf(M, t)) < Cardinality(UpToOf(M, u))
      /\ \A i \in 1 .. n : \E t \in M : Cardinality(UpToOf(M, t)) = i
  BY RanksFit
<1>2. s = [i \in 1 .. n |-> EntryOf(who(i))]
  BY DEF InOrder, UpToOf
<1>3. \A i \in 1 .. n : who(i) \in M /\ Cardinality(UpToOf(M, who(i))) = i
  BY <1>1
<1>4. \A t \in M : /\ rows[t].decided \in Nat /\ EntryOf(t) \in Entry
                   /\ EntryOf(t).at = rows[t].decided /\ EntryOf(t).tx = t
  BY DEF Row, Entry, EntryOf
<1> HIDE DEF n, s, who
<1>5. s \in [1 .. n -> Entry]
  BY <1>2, <1>3, <1>4
<1>6. s \in Seq(Entry) /\ Len(s) = n /\ DOMAIN s = 1 .. n
  BY <1>1, <1>5, SeqDef
<1>7. \A t \in M : who(Cardinality(UpToOf(M, t))) = t
  <2> TAKE t \in M
  <2>1. PICK i \in 1 .. n : i = Cardinality(UpToOf(M, t))
    BY <1>1
  <2>2. who(i) \in M /\ Cardinality(UpToOf(M, who(i))) = Cardinality(UpToOf(M, t))
    BY <1>3, <2>1
  <2>3. ~(rows[who(i)].decided < rows[t].decided) /\ ~(rows[t].decided < rows[who(i)].decided)
    <3>1. Cardinality(UpToOf(M, t)) \in Nat
      BY <2>1
    <3>2. QED
      BY <1>1, <2>2, <3>1
  <2>4. rows[who(i)].decided = rows[t].decided
    BY <1>4, <2>2, <2>3
  <2>5. QED
    BY <2>1, <2>2, <2>4 DEF Apart
<1>8. ASSUME NEW i \in 1 .. n, NEW j \in 1 .. n, i < j
      PROVE  s[i].at < s[j].at
  <2>1. s[i] = EntryOf(who(i)) /\ s[j] = EntryOf(who(j))
    BY <1>2
  <2>2. who(i) \in M /\ who(j) \in M
    BY <1>3
  <2>3. SUFFICES rows[who(i)].decided < rows[who(j)].decided
    BY <1>4, <2>1, <2>2
  <2>4. Cardinality(UpToOf(M, who(i))) < Cardinality(UpToOf(M, who(j)))
    BY <1>3, <1>8
  <2>5. who(i) # who(j) /\ ~(rows[who(j)].decided < rows[who(i)].decided)
    <3>1. Cardinality(UpToOf(M, who(i))) \in Nat /\ Cardinality(UpToOf(M, who(j))) \in Nat
      BY <1>3
    <3>2. QED
      BY <1>1, <2>2, <2>4, <3>1
  <2>6. rows[who(i)].decided # rows[who(j)].decided
    BY <2>2, <2>5 DEF Apart
  <2>7. QED
    BY <1>4, <2>2, <2>5, <2>6
<1>9. Sorted(s)
  BY <1>6, <1>8 DEF Sorted
<1>10. ToSet(s) = {EntryOf(t) : t \in M}
  <2>1. ASSUME NEW e \in ToSet(s) PROVE e \in {EntryOf(t) : t \in M}
    <3>1. PICK i \in 1 .. n : e = s[i]
      BY <1>6, <2>1 DEF ToSet
    <3>2. QED
      BY <1>2, <1>3, <3>1
  <2>2. ASSUME NEW t \in M PROVE EntryOf(t) \in ToSet(s)
    <3>1. PICK i \in 1 .. n : i = Cardinality(UpToOf(M, t))
      BY <1>1
    <3>2. s[i] = EntryOf(t)
      BY <1>2, <1>7, <3>1
    <3>3. QED
      BY <1>6, <3>2 DEF ToSet
  <2>3. QED
    BY <2>1, <2>2
<1>11. QED
  BY <1>6, <1>9, <1>10 DEF s, n

\* The first n of s.
LEMMA PrefixIsSorted ==
  ASSUME NEW S, NEW s \in Seq(S), Sorted(s), NEW n \in 0 .. Len(s)
  PROVE  /\ SubSeq(s, 1, n) \in Seq(S) /\ Len(SubSeq(s, 1, n)) = n
         /\ Sorted(SubSeq(s, 1, n))
         /\ ToSet(SubSeq(s, 1, n)) = {s[i] : i \in 1 .. n}
<1>1. Len(s) \in Nat /\ DOMAIN s = 1 .. Len(s) /\ \A i \in 1 .. n : s[i] \in S
  BY LenProperties, ElementOfSeq
<1>2. 1 \in Int /\ n \in Int /\ n \in Nat
  BY <1>1
<1>3. /\ SubSeq(s, 1, n) \in Seq(S)
      /\ Len(SubSeq(s, 1, n)) = IF 1 <= n THEN n - 1 + 1 ELSE 0
      /\ \A i \in 1 .. n - 1 + 1 : SubSeq(s, 1, n)[i] = s[1 + i - 1]
  BY <1>1, <1>2, SubSeqProperties
<1> DEFINE p == SubSeq(s, 1, n)
<1> HIDE DEF p
<1>4. p \in Seq(S) /\ Len(p) = n /\ \A i \in 1 .. n : p[i] = s[i]
  BY <1>2, <1>3 DEF p
<1>5. DOMAIN p = 1 .. n
  BY <1>4, LenProperties
<1>6. Sorted(p)
  <2> SUFFICES ASSUME NEW i \in 1 .. n, NEW j \in 1 .. n, i < j
               PROVE  p[i].at < p[j].at
    BY <1>5 DEF Sorted
  <2>1. i \in DOMAIN s /\ j \in DOMAIN s
    BY <1>1
  <2>2. QED
    BY <1>4, <2>1 DEF Sorted
<1>7. ToSet(p) = {s[i] : i \in 1 .. n}
  BY <1>4, <1>5 DEF ToSet
<1>8. QED
  BY <1>4, <1>6, <1>7 DEF p

\* What of a set is decided after a time.
After(M, after) == {t \in M : rows[t].decided > after}

\* A page: the first entries after the cursor, all of them if it is not full.
LEMMA PageIsPrefix ==
  ASSUME rows \in [Txs -> Row], NEW M \in SUBSET Txs, Apart(M),
         NEW after \in Nat, NEW n \in Nat
  PROVE  /\ FirstAfter(M, after, n) \in Seq(Entry) /\ Sorted(FirstAfter(M, after, n))
         /\ Len(FirstAfter(M, after, n)) <= n
         /\ \A e \in ToSet(FirstAfter(M, after, n)) :
              \E t \in After(M, after) : e = EntryOf(t)
         /\ \A t \in After(M, after) :
              \/ EntryOf(t) \in ToSet(FirstAfter(M, after, n))
              \/ /\ Len(FirstAfter(M, after, n)) = n
                 /\ \A e \in ToSet(FirstAfter(M, after, n)) : e.at < rows[t].decided
<1> DEFINE R == After(M, after)
           s == InOrder(R)
           k == Min({n, Len(s)})
           p == SubSeq(s, 1, k)
<1>1. R \in SUBSET Txs /\ Apart(R)
  BY DEF After, Apart
<1>2. FirstAfter(M, after, n) = p
  BY DEF FirstAfter, After
<1> HIDE DEF R
<1>3. s \in Seq(Entry) /\ Sorted(s) /\ ToSet(s) = {EntryOf(t) : t \in R}
  BY <1>1, InOrderIsSorted
<1> HIDE DEF s
<1> DEFINE m == Len(s)
<1>4. m \in Nat /\ DOMAIN s = 1 .. m
  BY <1>3, LenProperties
<1> HIDE DEF m
<1>5. k \in Nat /\ k <= n /\ k <= m /\ (k = n \/ k = m)
  BY <1>4, MinOfTwo DEF m
<1> HIDE DEF k
<1>6. p \in Seq(Entry) /\ Len(p) = k /\ Sorted(p) /\ ToSet(p) = {s[i] : i \in 1 .. k}
  <2>1. k \in 0 .. m
    BY <1>4, <1>5
  <2>2. QED
    BY <1>3, <2>1, PrefixIsSorted DEF m
<1> HIDE DEF p
<1>7. \A e \in ToSet(p) : \E t \in R : e = EntryOf(t)
  <2> TAKE e \in ToSet(p)
  <2>1. e \in ToSet(s)
    BY <1>4, <1>5, <1>6 DEF ToSet
  <2>2. QED
    BY <1>3, <2>1
<1>8. ASSUME NEW t \in R, EntryOf(t) \notin ToSet(p)
      PROVE  Len(p) = n /\ \A e \in ToSet(p) : e.at < rows[t].decided
  <2>1. EntryOf(t) \in ToSet(s)
    BY <1>3
  <2>2. PICK j \in 1 .. m : s[j] = EntryOf(t)
    BY <1>4, <2>1 DEF ToSet
  <2>3. j > k
    BY <1>4, <1>5, <1>6, <1>8, <2>2
  <2>4. \A i \in 1 .. k : s[i].at < s[j].at
    BY <1>3, <1>4, <1>5, <2>3 DEF Sorted
  <2>5. s[j].at = rows[t].decided
    BY <2>2 DEF EntryOf
  <2>6. k = n
    BY <1>4, <1>5, <2>3
  <2>7. QED
    BY <1>6, <2>4, <2>5, <2>6
<1>9. QED
  BY <1>2, <1>5, <1>6, <1>7, <1>8 DEF R

\* A sorted page after a sorted sequence.
LEMMA ConcatIsSorted ==
  ASSUME NEW S, NEW s \in Seq(S), NEW p \in Seq(S), Sorted(s), Sorted(p),
         \A x \in ToSet(s), y \in ToSet(p) : x.at < y.at
  PROVE  /\ s \o p \in Seq(S) /\ Sorted(s \o p)
         /\ ToSet(s \o p) = ToSet(s) \cup ToSet(p)
<1> DEFINE c == s \o p
<1>1. /\ Len(s) \in Nat /\ Len(p) \in Nat
      /\ DOMAIN s = 1 .. Len(s) /\ DOMAIN p = 1 .. Len(p)
  BY LenProperties
<1>2. /\ c \in Seq(S) /\ Len(c) = Len(s) + Len(p)
      /\ \A i \in 1 .. Len(s) + Len(p) :
           c[i] = IF i <= Len(s) THEN s[i] ELSE p[i - Len(s)]
  BY ConcatProperties
<1> HIDE DEF c
<1>3. DOMAIN c = 1 .. Len(s) + Len(p)
  BY <1>2, LenProperties
<1>4. /\ \A i \in 1 .. Len(s) : i \in DOMAIN c /\ c[i] = s[i]
      /\ \A i \in 1 .. Len(p) : i + Len(s) \in DOMAIN c /\ c[i + Len(s)] = p[i]
  <2>1. ASSUME NEW i \in 1 .. Len(s) PROVE i \in DOMAIN c /\ c[i] = s[i]
    BY <1>1, <1>2, <1>3
  <2>2. ASSUME NEW i \in 1 .. Len(p)
        PROVE i + Len(s) \in DOMAIN c /\ c[i + Len(s)] = p[i]
    <3>1. i + Len(s) \in 1 .. Len(s) + Len(p) /\ ~(i + Len(s) <= Len(s))
      BY <1>1
    <3>2. (i + Len(s)) - Len(s) = i
      BY <1>1
    <3>3. QED
      BY <1>2, <1>3, <3>1, <3>2
  <2>3. QED
    BY <2>1, <2>2
<1>5. \A k \in DOMAIN c : \/ k \in 1 .. Len(s)
                          \/ \E i \in 1 .. Len(p) : k = i + Len(s)
  <2> TAKE k \in DOMAIN c
  <2>1. CASE k <= Len(s)
    BY <1>1, <1>3, <2>1
  <2>2. CASE ~(k <= Len(s))
    <3>1. k - Len(s) \in 1 .. Len(p) /\ k = (k - Len(s)) + Len(s)
      BY <1>1, <1>3, <2>2
    <3>2. QED
      BY <3>1
  <2>3. QED
    BY <2>1, <2>2
<1>6. ToSet(c) = ToSet(s) \cup ToSet(p)
  <2>1. ASSUME NEW x \in ToSet(c) PROVE x \in ToSet(s) \cup ToSet(p)
    <3>1. PICK k \in DOMAIN c : x = c[k]
      BY <2>1 DEF ToSet
    <3>2. CASE k \in 1 .. Len(s)
      BY <1>1, <1>4, <3>1, <3>2 DEF ToSet
    <3>3. CASE \E i \in 1 .. Len(p) : k = i + Len(s)
      BY <1>1, <1>4, <3>1, <3>3 DEF ToSet
    <3>4. QED
      BY <1>5, <3>2, <3>3
  <2>2. \A x \in ToSet(s) : x \in ToSet(c)
    BY <1>1, <1>4 DEF ToSet
  <2>3. \A x \in ToSet(p) : x \in ToSet(c)
    BY <1>1, <1>4 DEF ToSet
  <2>4. QED
    BY <2>1, <2>2, <2>3
<1>7. ASSUME NEW k \in DOMAIN c, NEW l \in DOMAIN c, k < l
      PROVE  c[k].at < c[l].at
  <2>1. CASE k \in 1 .. Len(s) /\ l \in 1 .. Len(s)
    BY <1>1, <1>4, <1>7, <2>1 DEF Sorted
  <2>2. ASSUME k \in 1 .. Len(s), NEW i \in 1 .. Len(p), l = i + Len(s)
        PROVE  c[k].at < c[l].at
    <3>1. c[k] = s[k] /\ c[l] = p[i]
      BY <1>4, <2>2
    <3>2. s[k] \in ToSet(s) /\ p[i] \in ToSet(p)
      BY <1>1, <2>2 DEF ToSet
    <3>3. QED
      BY <3>1, <3>2
  <2>3. ASSUME NEW i \in 1 .. Len(p), k = i + Len(s), l \in 1 .. Len(s)
        PROVE  FALSE
    BY <1>1, <1>7, <2>3
  <2>4. ASSUME NEW i \in 1 .. Len(p), k = i + Len(s), NEW j \in 1 .. Len(p), l = j + Len(s)
        PROVE  c[k].at < c[l].at
    <3>1. c[k] = p[i] /\ c[l] = p[j]
      BY <1>4, <2>4
    <3>2. i < j
      BY <1>1, <1>7, <2>4
    <3>3. QED
      BY <1>1, <3>1, <3>2 DEF Sorted
  <2>5. QED
    BY <1>5, <2>1, <2>2, <2>3, <2>4
<1>8. QED
  BY <1>2, <1>6, <1>7 DEF c, Sorted

\* The cursor is the last decision that was digested.
LEMMA CursorIsLast ==
  ASSUME NEW s \in Seq(Entry), Sorted(s)
  PROVE  CursorOf(s) \in Nat /\ \A e \in ToSet(s) : e.at <= CursorOf(s)
<1>1. Len(s) \in Nat /\ DOMAIN s = 1 .. Len(s) /\ \A i \in 1 .. Len(s) : s[i] \in Entry
  BY LenProperties, ElementOfSeq
<1>2. CASE s = <<>>
  <2>1. CursorOf(s) = 0
    BY <1>2 DEF CursorOf
  <2>2. Len(s) = 0
    BY <1>2
  <2>3. ToSet(s) = {}
    BY <1>1, <2>2 DEF ToSet
  <2>4. QED
    BY <2>1, <2>3
<1>3. CASE s # <<>>
  <2>1. Len(s) \in 1 .. Len(s)
    <3>1. Len(s) \in Nat \ {0}
      BY <1>3, EmptySeq
    <3>2. QED
      BY <3>1
  <2>2. CursorOf(s) = s[Len(s)].at
    BY <1>3 DEF CursorOf, Last
  <2>3. \A i \in 1 .. Len(s) : s[i].at \in Nat
    BY <1>1 DEF Entry
  <2>4. \A i \in 1 .. Len(s) : i < Len(s) => s[i].at < s[Len(s)].at
    BY <1>1, <2>1 DEF Sorted
  <2>5. \A i \in 1 .. Len(s) : s[i].at <= s[Len(s)].at
    <3> TAKE i \in 1 .. Len(s)
    <3>1. \A m \in Nat : i \in 1 .. m => i = m \/ i < m
      OBVIOUS
    <3>2. QED
      BY <1>1, <2>1, <2>3, <2>4, <3>1
  <2>6. QED
    BY <1>1, <2>1, <2>2, <2>3, <2>5 DEF ToSet
<1>4. QED
  BY <1>2, <1>3

RecordOf(e) == [tx |-> e.tx, at |-> e.at]

\* The records of entries, in the same order.
LEMMA RecordsKeepOrder ==
  ASSUME NEW s \in Seq(Entry)
  PROVE  /\ Records(s) \in Seq(Record)
         /\ ToSet(Records(s)) = {RecordOf(e) : e \in ToSet(s)}
         /\ Sorted(s) => Sorted(Records(s))
<1>1. Len(s) \in Nat /\ DOMAIN s = 1 .. Len(s) /\ \A i \in 1 .. Len(s) : s[i] \in Entry
  BY LenProperties, ElementOfSeq
<1>2. /\ DOMAIN Records(s) = 1 .. Len(s)
      /\ \A i \in 1 .. Len(s) : Records(s)[i] = RecordOf(s[i])
  BY <1>1 DEF Records, RecordOf
<1>3. \A e \in Entry : RecordOf(e) \in Record
  BY DEF RecordOf, Record, Entry
<1>4. Records(s) \in [1 .. Len(s) -> Record]
  BY <1>1, <1>2, <1>3 DEF Records
<1>5. Records(s) \in Seq(Record)
  BY <1>1, <1>4, SeqDef
<1>6. ToSet(Records(s)) = {RecordOf(e) : e \in ToSet(s)}
  BY <1>1, <1>2 DEF ToSet
<1>7. ASSUME Sorted(s) PROVE Sorted(Records(s))
  <2> SUFFICES ASSUME NEW i \in 1 .. Len(s), NEW j \in 1 .. Len(s), i < j
               PROVE  Records(s)[i].at < Records(s)[j].at
    BY <1>2 DEF Sorted
  <2>1. Records(s)[i].at = s[i].at /\ Records(s)[j].at = s[j].at
    BY <1>2 DEF RecordOf
  <2>2. QED
    BY <1>1, <1>7, <2>1 DEF Sorted
<1>8. QED
  BY <1>5, <1>6, <1>7

\* As many entries as members, all of them members: no member is missing.
LEMMA CountIsComplete ==
  ASSUME NEW s \in Seq(Entry), Sorted(s), NEW M \in SUBSET Txs,
         Cardinality(M) = Len(s),
         \A e \in ToSet(s) : e.tx \in M /\ rows[e.tx].decided = e.at
  PROVE  \A t \in M : \E e \in ToSet(s) : e.tx = t /\ e.at = rows[t].decided
<1> DEFINE N == 1 .. Len(s)
           f == [i \in N |-> s[i].tx]
<1>1. Len(s) \in Nat /\ DOMAIN s = N /\ \A i \in N : s[i] \in Entry /\ s[i] \in ToSet(s)
  BY LenProperties, ElementOfSeq DEF ToSet
<1>2. IsFiniteSet(M)
  BY BucketAssumption, FS_Subset
<1>3. Cardinality(N) = Cardinality(M)
  <2>1. 1 \in Int /\ Len(s) \in Int
    BY <1>1
  <2>2. Cardinality(N) = IF 1 > Len(s) THEN 0 ELSE Len(s) - 1 + 1
    BY <2>1, FS_Interval
  <2>3. QED
    BY <1>1, <2>2
<1>4. f \in [N -> M]
  BY <1>1
<1>5. \A i, j \in N : f[i] = f[j] => i = j
  <2> SUFFICES ASSUME NEW i \in N, NEW j \in N, f[i] = f[j]
               PROVE  i = j
    OBVIOUS
  <2>1. s[i].at = s[j].at /\ s[i].at \in Nat
    BY <1>1 DEF Entry
  <2>2. ~(i < j) /\ ~(j < i)
    BY <1>1, <2>1 DEF Sorted
  <2>3. i \in Nat /\ j \in Nat
    BY <1>1
  <2>4. QED
    BY <2>2, <2>3
<1> HIDE DEF f, N
<1>6. f \in Injection(N, M)
  BY <1>4, <1>5, Fun_IsInj
<1>7. f \in Surjection(N, M)
  BY <1>2, <1>3, <1>6, FS_Injection
<1>8. \A t \in M : \E i \in N : f[i] = t
  BY <1>7, Fun_SurjectionProperties
<1>9. QED
  BY <1>1, <1>8 DEF f
-----------------------------------------------------------------------------
(* What a seal step and a page do, as the invariant needs it.              *)

\* The shape of the numbers that the rows and the generations hold.
LEMMA Shapes ==
  ASSUME StoredTypes
  PROVE  /\ now \in Nat /\ rows \in [Txs -> Row] /\ gens \in [Gen -> Generation]
         /\ \A t \in Txs : rows[t] \in Row /\ rows[t].decided \in Nat
         /\ \A g \in Gen : /\ gens[g].digest \in Seq(Entry) /\ gens[g].cutoff \in Nat
                           /\ gens[g].rev \in Nat /\ gens[g] \in Generation
         /\ Gen \subseteq Nat /\ Gen # {}
<1>1. now \in Nat /\ rows \in [Txs -> Row] /\ gens \in [Gen -> Generation]
  BY BucketAssumption DEF StoredTypes
<1>2. \A t \in Txs : rows[t] \in Row /\ rows[t].decided \in Nat
  BY <1>1 DEF Row
<1>3. \A g \in Gen : /\ gens[g].digest \in Seq(Entry) /\ gens[g].cutoff \in Nat
                     /\ gens[g].rev \in Nat /\ gens[g] \in Generation
  BY <1>1 DEF Generation
<1>4. Gen \subseteq Nat /\ 1 \in Gen
  BY BucketAssumption DEF Gen
<1>5. QED
  BY <1>1, <1>2, <1>3, <1>4

\* Decided rows have their own times.
LEMMA DecidedApart ==
  ASSUME RowsTrue, NEW M, M \subseteq {t \in Txs : rows[t].state = "FINALIZED"}
  PROVE  M \in SUBSET Txs /\ Apart(M)
  BY DEF RowsTrue, Apart

\* The batch is what comes after the cursor of generation n.
BatchTrue(b, n) ==
  /\ Sorted(b)
  /\ \A e \in ToSet(b) : InForce(e, n.cutoff) /\ e.at > CursorOf(n.digest)

\* What Drain does to its generation, and the step that it may leave waiting.
LEMMA DrainEffect ==
  ASSUME StoredTypes, RowsTrue, NEW s \in Sealers, NEW g \in Gen,
         NEW table \in [Gen -> Generation], NEW purposes,
         purposes \subseteq Gen \cup {0},
         table[g].status = "DRAINING" => Sorted(table[g].digest),
         Drain(s, g, table, purposes)
  PROVE  /\ schedule' \subseteq Gen \cup {0}
         /\ \E n \in Generation :
              /\ gens' = [table EXCEPT ![g] = n]
              /\ \/ n = table[g]
                 \/ /\ table[g].status = "DRAINING" /\ n.cutoff = table[g].cutoff
                    /\ \/ n.status = "QUARANTINED" /\ Disputed(table[g].cutoff)
                       \/ n.status = "DRAINING" /\ n.digest = <<>>
              /\ \/ sealer' = sealer
                 \/ /\ n.status = "DRAINING" /\ ~Disputed(n.cutoff) /\ n.rev = revision
                    /\ \E b \in Seq(Entry) :
                         /\ sealer' = [sealer EXCEPT ![s] =
                              [phase |-> "digest", gen |-> g, seen |-> n, batch |-> b]]
                         /\ BatchTrue(b, n)
<1> DEFINE gen == table[g]
           batch == FirstAfter(Members(gen.cutoff), CursorOf(gen.digest), PageSize)
<1>1. gen \in Generation /\ gen.cutoff \in Nat /\ gen.digest \in Seq(Entry)
  BY DEF Generation
<1>2. table = [table EXCEPT ![g] = gen]
  OBVIOUS
<1>3. CASE gen.status # "DRAINING"
  <2>1. gens' = table /\ sealer' = sealer /\ schedule' = purposes \ {g}
    BY <1>3 DEF Drain
  <2>2. QED
    BY <1>1, <1>2, <2>1
<1>4. CASE gen.status = "DRAINING" /\ Disputed(gen.cutoff)
  <2> DEFINE n == [gen EXCEPT !.status = "QUARANTINED", !.upd = now]
  <2>1. /\ gens' = [table EXCEPT ![g].status = "QUARANTINED", ![g].upd = now]
        /\ sealer' = sealer /\ schedule' = purposes \ {g}
    BY <1>4 DEF Drain
  <2>2. n \in Generation /\ n.status = "QUARANTINED" /\ n.cutoff = gen.cutoff
    <3>1. now \in Nat
      BY Shapes
    <3>2. \A x \in Generation, m \in Nat :
            LET y == [x EXCEPT !.status = "QUARANTINED", !.upd = m]
            IN y \in Generation /\ y.status = "QUARANTINED" /\ y.cutoff = x.cutoff
      BY DEF Generation
    <3>3. QED
      BY <1>1, <3>1, <3>2
  <2>3. gens' = [table EXCEPT ![g] = n]
    BY <2>1
  <2> HIDE DEF n
  <2>4. QED
    BY <1>4, <2>1, <2>2, <2>3
<1>5. CASE gen.status = "DRAINING" /\ ~Disputed(gen.cutoff) /\ gen.rev # revision
  <2> DEFINE n == Restarted(gen)
  <2>1. /\ gens' = [table EXCEPT ![g] = n]
        /\ sealer' = sealer /\ schedule' = purposes \cup {g}
    BY <1>5 DEF Drain
  <2>2. n \in Generation /\ n.status = "DRAINING" /\ n.cutoff = gen.cutoff /\ n.digest = <<>>
    <3>1. now \in Nat /\ revision \in Nat
      BY Shapes DEF StoredTypes
    <3>2. <<>> \in Seq(Entry)
      BY EmptySeq
    <3>3. QED
      BY <1>1, <3>1, <3>2 DEF Restarted, Generation
  <2> HIDE DEF n
  <2>4. QED
    BY <1>5, <2>1, <2>2
<1>6. CASE gen.status = "DRAINING" /\ ~Disputed(gen.cutoff) /\ gen.rev = revision
  <2>1. CASE gens' = table /\ sealer' = sealer /\ schedule' = purposes \cup {g}
    BY <1>1, <1>2, <2>1
  <2>2. CASE /\ gens' = table /\ schedule' = purposes
             /\ sealer' = [sealer EXCEPT ![s] = [phase |-> "digest", gen |-> g,
                                                 seen |-> gen, batch |-> batch]]
    <3>1. CursorOf(gen.digest) \in Nat
      BY <1>1, <1>6, CursorIsLast
    <3>2. Members(gen.cutoff) \in SUBSET Txs /\ Apart(Members(gen.cutoff))
      BY DecidedApart DEF Members
    <3>3. rows \in [Txs -> Row] /\ PageSize \in Nat
      BY BucketAssumption DEF StoredTypes
    <3>4. /\ batch \in Seq(Entry) /\ Sorted(batch)
          /\ \A e \in ToSet(batch) :
               \E t \in After(Members(gen.cutoff), CursorOf(gen.digest)) : e = EntryOf(t)
      BY <3>1, <3>2, <3>3, PageIsPrefix
    <3>5. ASSUME NEW e \in ToSet(batch)
          PROVE  InForce(e, gen.cutoff) /\ e.at > CursorOf(gen.digest)
      <4>1. PICK t \in After(Members(gen.cutoff), CursorOf(gen.digest)) : e = EntryOf(t)
        BY <3>4
      <4>2. e.tx = t /\ e.at = rows[t].decided /\ t \in Members(gen.cutoff)
              /\ rows[t].decided > CursorOf(gen.digest)
        BY <4>1 DEF EntryOf, After
      <4>3. QED
        BY <4>2 DEF InForce, Members
    <3>6. BatchTrue(batch, gen)
      BY <3>4, <3>5 DEF BatchTrue
    <3> HIDE DEF batch
    <3>7. QED
      BY <1>1, <1>2, <1>6, <2>2, <3>4, <3>6
  <2>3. QED
    BY <1>6, <2>1, <2>2 DEF Drain
<1>7. QED
  BY <1>3, <1>4, <1>5, <1>6

\* A generation that opens, starts over or is put in quarantine becomes n.
Resets(g, n) ==
  /\ gens[g].status \in {"none", "DRAINING", "QUARANTINED"}
  /\ n.status \in {"DRAINING", "QUARANTINED"}
  /\ gens[g].status # "none" => n.cutoff = gens[g].cutoff
  /\ n.status = "DRAINING" => n.digest = <<>>
  /\ n.status = "QUARANTINED" => gens[g].status = "none" \/ Disputed(gens[g].cutoff)

\* closeThrough, again or new, and the alarm on a seal purpose.
DrainCall(s) ==
  \/ \E c \in Cutoffs : CloseNew(s, c)
  \/ \E g \in Gen : CloseAgain(s, g) \/ AlarmSeal(s, g)

\* A call of Drain touches one generation and at most its own seal step.
LEMMA DrainCallEffect ==
  ASSUME StoredTypes, RowsTrue, \A g \in Gen : GenTrue(g),
         NEW s \in Sealers, DrainCall(s)
  PROVE  /\ UNCHANGED <<now, rows, last, sealedTo, deletedTo, revision, leases,
                        publish, sweep, reader>>
         /\ floor' \in Nat /\ floor' >= floor /\ schedule' \subseteq Gen \cup {0}
         /\ \E g \in Gen, n \in Generation :
              /\ gens' = [gens EXCEPT ![g] = n]
              /\ n = gens[g] \/ (Resets(g, n) /\ n.cutoff <= floor')
              /\ \/ sealer' = sealer
                 \/ /\ n.status = "DRAINING" /\ ~Disputed(n.cutoff) /\ n.rev = revision
                    /\ \E b \in Seq(Entry) :
                         /\ sealer' = [sealer EXCEPT ![s] =
                              [phase |-> "digest", gen |-> g, seen |-> n, batch |-> b]]
                         /\ BatchTrue(b, n)
<1>0. /\ now \in Nat /\ floor \in Nat /\ revision \in Nat /\ schedule \subseteq Gen \cup {0}
      /\ gens \in [Gen -> Generation]
  BY Shapes DEF StoredTypes
<1>1. ASSUME NEW c \in Cutoffs, CloseNew(s, c)
      PROVE  /\ floor' \in Nat /\ floor' >= floor /\ schedule' \subseteq Gen \cup {0}
             /\ \E g \in Gen, n \in Generation :
                  /\ gens' = [gens EXCEPT ![g] = n]
                  /\ Resets(g, n) /\ n.cutoff <= floor'
                  /\ \/ sealer' = sealer
                     \/ /\ n.status = "DRAINING" /\ ~Disputed(n.cutoff) /\ n.rev = revision
                        /\ \E b \in Seq(Entry) :
                             /\ sealer' = [sealer EXCEPT ![s] =
                                  [phase |-> "digest", gen |-> g, seen |-> n, batch |-> b]]
                             /\ BatchTrue(b, n)
  <2> DEFINE I == {h \in Gen : gens[h].status = "none"}
             g == Min(I)
             new == [NoGen EXCEPT !.status = "DRAINING", !.cutoff = c,
                       !.advance = (c >= sealedTo), !.rev = revision, !.upd = now]
             table == [gens EXCEPT ![g] = new]
  <2>1. I \in SUBSET Nat /\ I # {}
    BY <1>1, Shapes DEF CloseNew
  <2>2. g \in I
    BY <2>1, MinIsLeast
  <2>3. g \in Gen /\ gens[g].status = "none"
    BY <2>2
  <2>4. Drain(s, g, table, schedule) /\ floor' = Max({floor, c})
    BY <1>1 DEF CloseNew
  <2>5. c \in Nat
    BY BucketAssumption
  <2>6. floor' \in Nat /\ floor' >= floor /\ floor' >= c
    BY <1>0, <2>4, <2>5, MaxOfTwo
  <2>7. /\ new \in Generation /\ new.status = "DRAINING" /\ new.cutoff = c
        /\ new.digest = <<>>
    <3>1. <<>> \in Seq(Entry)
      BY EmptySeq
    <3>2. (c >= sealedTo) \in BOOLEAN
      BY <2>5 DEF StoredTypes
    <3>3. QED
      BY <1>0, <2>5, <3>1, <3>2 DEF NoGen, Generation
  <2> HIDE DEF g, new
  <2>8. table \in [Gen -> Generation] /\ table[g] = new
    BY <1>0, <2>3, <2>7
  <2>9. table[g].status = "DRAINING" => Sorted(table[g].digest)
    BY <2>7, <2>8 DEF Sorted
  <2> HIDE DEF table
  <2>10. /\ schedule' \subseteq Gen \cup {0}
         /\ \E n \in Generation :
              /\ gens' = [table EXCEPT ![g] = n]
              /\ \/ n = table[g]
                 \/ /\ table[g].status = "DRAINING" /\ n.cutoff = table[g].cutoff
                    /\ \/ n.status = "QUARANTINED" /\ Disputed(table[g].cutoff)
                       \/ n.status = "DRAINING" /\ n.digest = <<>>
              /\ \/ sealer' = sealer
                 \/ /\ n.status = "DRAINING" /\ ~Disputed(n.cutoff) /\ n.rev = revision
                    /\ \E b \in Seq(Entry) :
                         /\ sealer' = [sealer EXCEPT ![s] =
                              [phase |-> "digest", gen |-> g, seen |-> n, batch |-> b]]
                         /\ BatchTrue(b, n)
    BY <1>0, <2>3, <2>4, <2>8, <2>9, DrainEffect
  <2>11. PICK n \in Generation :
              /\ gens' = [table EXCEPT ![g] = n]
              /\ \/ n = table[g]
                 \/ /\ table[g].status = "DRAINING" /\ n.cutoff = table[g].cutoff
                    /\ \/ n.status = "QUARANTINED" /\ Disputed(table[g].cutoff)
                       \/ n.status = "DRAINING" /\ n.digest = <<>>
              /\ \/ sealer' = sealer
                 \/ /\ n.status = "DRAINING" /\ ~Disputed(n.cutoff) /\ n.rev = revision
                    /\ \E b \in Seq(Entry) :
                         /\ sealer' = [sealer EXCEPT ![s] =
                              [phase |-> "digest", gen |-> g, seen |-> n, batch |-> b]]
                         /\ BatchTrue(b, n)
    BY <2>10
  <2>12. gens' = [gens EXCEPT ![g] = n]
    BY <1>0, <2>3, <2>11 DEF table
  <2>13. Resets(g, n) /\ n.cutoff <= floor'
    <3>1. n.cutoff = c /\ n.status \in {"DRAINING", "QUARANTINED"}
            /\ (n.status = "DRAINING" => n.digest = <<>>)
      BY <2>7, <2>8, <2>11
    <3>2. QED
      BY <2>3, <2>6, <3>1 DEF Resets
  <2>14. QED
    BY <2>3, <2>6, <2>10, <2>11, <2>12, <2>13
<1>2. ASSUME NEW g \in Gen, CloseAgain(s, g) \/ AlarmSeal(s, g)
      PROVE  /\ floor' = floor /\ schedule' \subseteq Gen \cup {0}
             /\ \E n \in Generation :
                  /\ gens' = [gens EXCEPT ![g] = n]
                  /\ n = gens[g] \/ (Resets(g, n) /\ n.cutoff <= floor)
                  /\ \/ sealer' = sealer
                     \/ /\ n.status = "DRAINING" /\ ~Disputed(n.cutoff) /\ n.rev = revision
                        /\ \E b \in Seq(Entry) :
                             /\ sealer' = [sealer EXCEPT ![s] =
                                  [phase |-> "digest", gen |-> g, seen |-> n, batch |-> b]]
                             /\ BatchTrue(b, n)
  <2> DEFINE again == gens[g].status = "QUARANTINED" /\ ~Disputed(gens[g].cutoff)
             first == IF again THEN Restarted(gens[g]) ELSE gens[g]
  <2>1. floor' = floor
    BY <1>2 DEF CloseAgain, AlarmSeal, bucketVars
  <2>2. PICK table \in [Gen -> Generation], purposes \in SUBSET (Gen \cup {0}) :
          /\ Drain(s, g, table, purposes)
          /\ \/ table = gens
             \/ /\ again
                /\ table = [gens EXCEPT ![g] = Restarted(gens[g])]
    <3>1. CASE AlarmSeal(s, g)
      <4>1. Drain(s, g, gens, schedule \ {g})
        BY <3>1 DEF AlarmSeal
      <4>2. QED
        BY <1>0, <4>1
    <3>2. CASE CloseAgain(s, g) /\ again
      <4> DEFINE table == [gens EXCEPT ![g] = Restarted(gens[g])]
      <4>1. Drain(s, g, table, schedule)
        BY <3>2 DEF CloseAgain
      <4>2. Restarted(gens[g]) \in Generation
        <5>1. gens[g] \in Generation /\ <<>> \in Seq(Entry)
          BY <1>0, EmptySeq
        <5>2. QED
          BY <1>0, <5>1 DEF Restarted, Generation
      <4>3. table \in [Gen -> Generation]
        BY <1>0, <4>2
      <4>4. QED
        BY <1>0, <3>2, <4>1, <4>3
    <3>3. CASE CloseAgain(s, g) /\ ~again
      <4>1. Drain(s, g, gens, schedule)
        BY <3>3 DEF CloseAgain
      <4>2. QED
        BY <1>0, <4>1
    <3>4. QED
      BY <1>2, <3>1, <3>2, <3>3
  <2>3. table[g] = gens[g] \/ (again /\ table[g] = Restarted(gens[g]))
    BY <1>0, <2>2
  <2>4. gens[g] \in Generation /\ Restarted(gens[g]).status = "DRAINING"
          /\ Restarted(gens[g]).digest = <<>> /\ Restarted(gens[g]).cutoff = gens[g].cutoff
    BY <1>0 DEF Restarted, Generation
  <2>5. table[g].status = "DRAINING" => Sorted(table[g].digest)
    <3>1. gens[g].status = "DRAINING" => Sorted(gens[g].digest)
      BY DEF GenTrue
    <3>2. Sorted(<<>>)
      BY DEF Sorted
    <3>3. QED
      BY <2>3, <2>4, <3>1, <3>2
  <2>6. /\ schedule' \subseteq Gen \cup {0}
        /\ \E n \in Generation :
              /\ gens' = [table EXCEPT ![g] = n]
              /\ \/ n = table[g]
                 \/ /\ table[g].status = "DRAINING" /\ n.cutoff = table[g].cutoff
                    /\ \/ n.status = "QUARANTINED" /\ Disputed(table[g].cutoff)
                       \/ n.status = "DRAINING" /\ n.digest = <<>>
              /\ \/ sealer' = sealer
                 \/ /\ n.status = "DRAINING" /\ ~Disputed(n.cutoff) /\ n.rev = revision
                    /\ \E b \in Seq(Entry) :
                         /\ sealer' = [sealer EXCEPT ![s] =
                              [phase |-> "digest", gen |-> g, seen |-> n, batch |-> b]]
                         /\ BatchTrue(b, n)
    BY <2>2, <2>5, DrainEffect
  <2>7. PICK n \in Generation :
              /\ gens' = [table EXCEPT ![g] = n]
              /\ \/ n = table[g]
                 \/ /\ table[g].status = "DRAINING" /\ n.cutoff = table[g].cutoff
                    /\ \/ n.status = "QUARANTINED" /\ Disputed(table[g].cutoff)
                       \/ n.status = "DRAINING" /\ n.digest = <<>>
              /\ \/ sealer' = sealer
                 \/ /\ n.status = "DRAINING" /\ ~Disputed(n.cutoff) /\ n.rev = revision
                    /\ \E b \in Seq(Entry) :
                         /\ sealer' = [sealer EXCEPT ![s] =
                              [phase |-> "digest", gen |-> g, seen |-> n, batch |-> b]]
                         /\ BatchTrue(b, n)
    BY <2>6
  <2>8. gens' = [gens EXCEPT ![g] = n]
    BY <1>0, <2>2, <2>7
  <2>9. n = gens[g] \/ (Resets(g, n) /\ n.cutoff <= floor)
    <3>1. n = gens[g] \/ (Resets(g, n) /\ gens[g].status \in {"DRAINING", "QUARANTINED"})
      BY <2>3, <2>4, <2>7 DEF Resets
    <3>2. gens[g].status \in {"DRAINING", "QUARANTINED"} => gens[g].cutoff <= floor
      BY DEF GenTrue
    <3>3. QED
      BY <3>1, <3>2 DEF Resets
  <2>10. QED
    BY <2>1, <2>6, <2>7, <2>8, <2>9
<1>4. UNCHANGED <<now, rows, last, sealedTo, deletedTo, revision, leases,
                  publish, sweep, reader>>
  BY DEF DrainCall, CloseNew, CloseAgain, AlarmSeal, bucketVars
<1>5. CASE \E c \in Cutoffs : CloseNew(s, c)
  BY <1>1, <1>4, <1>5
<1>6. CASE \E g \in Gen : CloseAgain(s, g) \/ AlarmSeal(s, g)
  <2>1. PICK g \in Gen : CloseAgain(s, g) \/ AlarmSeal(s, g)
    BY <1>6
  <2>2. floor' = floor /\ schedule' \subseteq Gen \cup {0}
    BY <1>2, <2>1
  <2>3. PICK n \in Generation :
          /\ gens' = [gens EXCEPT ![g] = n]
          /\ n = gens[g] \/ (Resets(g, n) /\ n.cutoff <= floor)
          /\ \/ sealer' = sealer
             \/ /\ n.status = "DRAINING" /\ ~Disputed(n.cutoff) /\ n.rev = revision
                /\ \E b \in Seq(Entry) :
                     /\ sealer' = [sealer EXCEPT ![s] =
                          [phase |-> "digest", gen |-> g, seen |-> n, batch |-> b]]
                     /\ BatchTrue(b, n)
    BY <1>2, <2>1
  <2>4. floor' \in Nat /\ floor' >= floor
    BY <1>0, <2>2
  <2>5. QED
    BY <1>4, <2>2, <2>3, <2>4
<1>7. QED
  BY <1>5, <1>6 DEF DrainCall

\* What a sealed range of a complete generation holds as records.
RangeOf(g, from) == {r \in ToSet(Records(gens[g].digest)) : r.at >= from}

\* The rows that localPage reads of a range.
Shown(g, from) == {t \in InRange(from, gens[g].cutoff) : rows[t].rec}

\* What a page adds to the enumeration, and where it leaves the cursor.
PageTaken(g, from, after, taken, next, done) ==
  /\ Sorted(taken)
  /\ \A e \in ToSet(taken) :
       \E t \in After(Shown(g, from), after) : e = EntryOf(t)
  /\ ~done => next > after /\ \A e \in ToSet(taken) : e.at <= next
  /\ \A t \in After(Shown(g, from), after) :
       EntryOf(t) \in ToSet(taken) \/ (~done /\ rows[t].decided > next)

\* A page of localPage: what it takes follows the cursor without a gap.
LEMMA PageEffect ==
  ASSUME StoredTypes, CallTypes, RowsTrue, NEW g \in Gen, NEW from \in Cutoffs,
         LocalPage(g, from)
  PROVE  \E after \in Nat, taken \in Seq(Entry), next \in Nat, done \in BOOLEAN :
           /\ after = IF reader.gen = 0 THEN 0 ELSE reader.after
           /\ Readable(g, from, after)
           /\ leases' = Renewed(g, from, next)
           /\ reader' = [gen |-> g, from |-> from, after |-> next, done |-> done,
                         want |-> RangeOf(g, from),
                         got |-> reader.got \o Records(taken)]
           /\ PageTaken(g, from, after, taken, next, done)
<1> DEFINE after == IF reader.gen = 0 THEN 0 ELSE reader.after
           page == FirstAfter(Shown(g, from), after, Limit + 1)
           more == Len(page) > Limit
           taken == IF more THEN Front(page) ELSE page
           next == IF more THEN Last(taken).at ELSE 0
<1>1. /\ Readable(g, from, after)
      /\ leases' = Renewed(g, from, next)
      /\ reader' = [gen |-> g, from |-> from, after |-> next, done |-> ~more,
                    want |-> RangeOf(g, from), got |-> reader.got \o Records(taken)]
  BY DEF LocalPage, Shown, RangeOf
<1>2. after \in Nat
  BY DEF CallTypes, Reader
<1>3. Shown(g, from) \in SUBSET Txs /\ Apart(Shown(g, from))
  BY DecidedApart DEF Shown, InRange, Members
<1>4. Limit \in Nat \ {0} /\ Limit + 1 \in Nat
  BY BucketAssumption
<1>5. /\ page \in Seq(Entry) /\ Sorted(page) /\ Len(page) <= Limit + 1
      /\ \A e \in ToSet(page) :
           \E t \in After(Shown(g, from), after) : e = EntryOf(t)
      /\ \A t \in After(Shown(g, from), after) :
           \/ EntryOf(t) \in ToSet(page)
           \/ /\ Len(page) = Limit + 1
              /\ \A e \in ToSet(page) : e.at < rows[t].decided
  <2>1. rows \in [Txs -> Row]
    BY Shapes
  <2> HIDE DEF after
  <2>2. QED
    BY <1>2, <1>3, <1>4, <2>1, PageIsPrefix
<1> HIDE DEF page, after
<1> DEFINE m == Len(page)
<1>6. m \in Nat /\ DOMAIN page = 1 .. m /\ \A i \in 1 .. m : page[i] \in Entry
  BY <1>5, LenProperties, ElementOfSeq
<1>7. CASE ~more
  <2>1. taken = page /\ next = 0
    BY <1>7
  <2>2. Len(page) # Limit + 1
    BY <1>4, <1>7
  <2>3. PageTaken(g, from, after, taken, next, TRUE)
    BY <1>5, <2>1, <2>2 DEF PageTaken
  <2>4. reader' = [gen |-> g, from |-> from, after |-> next, done |-> TRUE,
                    want |-> RangeOf(g, from), got |-> reader.got \o Records(taken)]
    BY <1>1, <1>7
  <2>5. next \in Nat /\ taken \in Seq(Entry)
    BY <1>5, <2>1
  <2>6. after = IF reader.gen = 0 THEN 0 ELSE reader.after
    BY DEF after
  <2> HIDE DEF taken, next
  <2>7. QED
    BY <1>1, <1>2, <2>3, <2>4, <2>5, <2>6
<1>8. CASE more
  <2> DEFINE p == SubSeq(page, 1, Limit)
  <2>1. m = Limit + 1 /\ m - 1 = Limit
    <3>1. m <= Limit + 1 /\ m > Limit
      BY <1>5, <1>8
    <3> HIDE DEF m
    <3>2. QED
      BY <1>4, <1>6, <3>1
  <2>2. taken = p
    BY <1>8, <2>1 DEF Front
  <2>3. p \in Seq(Entry) /\ Len(p) = Limit /\ Sorted(p)
          /\ ToSet(p) = {page[i] : i \in 1 .. Limit}
    <3>1. Limit \in 0 .. m
      BY <1>4, <2>1
    <3>2. QED
      BY <1>5, <3>1, PrefixIsSorted
  <2>4. p[Limit] = page[Limit]
    <3>1. 1 \in Int /\ Limit \in Int /\ \A i \in 1 .. Limit : page[i] \in Entry
      BY <1>4, <1>6, <2>1
    <3>2. \A i \in 1 .. Limit - 1 + 1 : p[i] = page[1 + i - 1]
      BY <3>1, SubSeqProperties
    <3>3. Limit \in 1 .. Limit - 1 + 1 /\ 1 + Limit - 1 = Limit
      BY <1>4
    <3>4. QED
      BY <3>2, <3>3
  <2>5. next = page[Limit].at
    BY <1>8, <2>2, <2>3, <2>4 DEF Last
  <2>6. Limit \in 1 .. m /\ Limit + 1 \in 1 .. m /\ page[Limit] \in ToSet(p)
    BY <1>4, <1>6, <2>1, <2>3
  <2>7. /\ next \in Nat
        /\ \A i \in 1 .. Limit : page[i].at <= next
        /\ page[Limit + 1].at > next
    <3>1. \A i \in 1 .. m : page[i].at \in Nat
      BY <1>6 DEF Entry
    <3>2. \A i \in 1 .. Limit : i \in DOMAIN page /\ (i < Limit => page[i].at < page[Limit].at)
      BY <1>4, <1>5, <1>6, <2>1, <2>6 DEF Sorted
    <3>3. \A i \in 1 .. Limit : i = Limit \/ i < Limit
      BY <1>4
    <3>4. page[Limit].at < page[Limit + 1].at
      BY <1>4, <1>5, <1>6, <2>6 DEF Sorted
    <3>5. QED
      BY <1>6, <2>5, <2>6, <3>1, <3>2, <3>3, <3>4
  <2>8. \A e \in ToSet(p) : e \in ToSet(page) /\ e.at <= next
    BY <1>6, <2>1, <2>3, <2>7 DEF ToSet
  <2>9. next > after
    <3>1. PICK t \in After(Shown(g, from), after) : page[Limit] = EntryOf(t)
      BY <1>5, <2>6, <2>8
    <3>2. rows[t].decided > after /\ page[Limit].at = rows[t].decided
      BY <3>1 DEF After, EntryOf
    <3>3. QED
      BY <2>5, <3>2
  <2>10. ASSUME NEW t \in After(Shown(g, from), after), EntryOf(t) \notin ToSet(p)
         PROVE  rows[t].decided > next
    <3>1. CASE EntryOf(t) \in ToSet(page)
      <4>1. PICK i \in 1 .. m : page[i] = EntryOf(t)
        BY <1>6, <3>1 DEF ToSet
      <4>2. ~(i \in 1 .. Limit)
        BY <2>3, <2>10, <4>1
      <4>3. i = Limit + 1
        BY <1>4, <2>1, <4>2
      <4>4. QED
        BY <2>7, <4>1, <4>3 DEF EntryOf
    <3>2. CASE \A e \in ToSet(page) : e.at < rows[t].decided
      <4>1. page[Limit].at < rows[t].decided
        BY <2>6, <2>8, <3>2
      <4>2. page[Limit].at \in Nat /\ rows[t].decided \in Nat
        BY <1>3, <2>5, <2>7, Shapes DEF After
      <4>3. QED
        BY <2>5, <4>1, <4>2
    <3>3. QED
      BY <1>5, <3>1, <3>2
  <2>11. PageTaken(g, from, after, p, next, FALSE)
    <3> HIDE DEF p, next
    <3>1. QED
      BY <1>5, <2>3, <2>8, <2>9, <2>10 DEF PageTaken
  <2>12. reader' = [gen |-> g, from |-> from, after |-> next, done |-> FALSE,
                    want |-> RangeOf(g, from), got |-> reader.got \o Records(p)]
    BY <1>1, <1>8, <2>2
  <2>13. after = IF reader.gen = 0 THEN 0 ELSE reader.after
    BY DEF after
  <2> HIDE DEF p, next
  <2>14. QED
    BY <1>1, <1>2, <2>3, <2>7, <2>11, <2>12, <2>13
<1>9. QED
  BY <1>7, <1>8

\* The next progress of a generation: n is g with the batch digested.
Grows(g, n) ==
  /\ gens[g].status = "DRAINING"
  /\ n.status = "DRAINING" /\ n.cutoff = gens[g].cutoff
  /\ Sorted(n.digest)
  /\ \A e \in ToSet(n.digest) : InForce(e, n.cutoff)

\* resumeSeal after the hash of a batch: the digest grows by what follows it.
LEMMA DigestEffect ==
  ASSUME StoredTypes, CallTypes, RowsTrue, \A g \in Gen : GenTrue(g),
         NEW s \in Sealers, SealerTrue(s), DigestBatch(s)
  PROVE  /\ UNCHANGED <<now, rows, bucketVars, leases, publish, sweep, reader>>
         /\ schedule' \subseteq Gen \cup {0}
         /\ \E g \in Gen, n \in Generation :
              gens' = [gens EXCEPT ![g] = n] /\ (n = gens[g] \/ Grows(g, n))
         /\ \E w \in Sealer : w.phase # "digest" /\ sealer' = [sealer EXCEPT ![s] = w]
<1> DEFINE w == sealer[s]
           gen == [gens[w.gen] EXCEPT !.digest = @ \o w.batch, !.upd = now]
<1>1. w \in Sealer /\ w.gen \in Gen /\ w.batch \in Seq(Entry) /\ w.phase = "digest"
        /\ w.seen \in Generation
  BY DEF CallTypes, Sealer, DigestBatch
<1>2. UNCHANGED <<now, rows, bucketVars, leases, publish, sweep, reader>>
  BY DEF DigestBatch
<1>3. gens[w.gen] \in Generation /\ gens[w.gen].digest \in Seq(Entry) /\ now \in Nat
        /\ gens \in [Gen -> Generation]
  BY <1>1, Shapes
<1>4. gen \in Generation /\ gen.status = gens[w.gen].status
        /\ gen.cutoff = gens[w.gen].cutoff /\ gen.digest = gens[w.gen].digest \o w.batch
  <2>1. gens[w.gen].digest \o w.batch \in Seq(Entry)
    BY <1>1, <1>3, ConcatProperties
  <2>3. gen = [gens[w.gen] EXCEPT !.digest = gens[w.gen].digest \o w.batch, !.upd = now]
    OBVIOUS
  <2> DEFINE d == gens[w.gen].digest \o w.batch
             x == gens[w.gen]
  <2>4. gen = [x EXCEPT !.digest = d, !.upd = now]
    BY <2>3
  <2>5. x \in Generation /\ d \in Seq(Entry) /\ now \in Nat
    BY <1>3, <2>1
  <2> HIDE DEF gen, d, x
  <2>6. gen \in Generation /\ gen.status = x.status /\ gen.cutoff = x.cutoff /\ gen.digest = d
    BY <2>4, <2>5 DEF Generation
  <2>7. QED
    BY <2>6 DEF d, x
<1> HIDE DEF gen
<1>5. \E g \in Gen, n \in Generation :
        gens' = [gens EXCEPT ![g] = n] /\ (n = gens[g] \/ Grows(g, n))
  <2>1. CASE ~Unmoved(w)
    <3>1. gens' = gens
      BY <2>1 DEF DigestBatch
    <3>2. gens' = [gens EXCEPT ![w.gen] = gens[w.gen]]
      BY <1>3, <3>1
    <3>3. QED
      BY <1>1, <1>3, <3>2
  <2>2. CASE Unmoved(w)
    <3>1. gens' = [gens EXCEPT ![w.gen] = gen]
      BY <2>2 DEF DigestBatch, gen
    <3>2. /\ gens[w.gen].status = "DRAINING" /\ w.seen.rev = revision
          /\ CursorOf(gens[w.gen].digest) = CursorOf(w.seen.digest)
      BY <2>2 DEF Unmoved
    <3>3. /\ Sorted(w.batch)
          /\ \A e \in ToSet(w.batch) :
               InForce(e, gens[w.gen].cutoff) /\ e.at > CursorOf(gens[w.gen].digest)
      BY <1>1, <3>2 DEF SealerTrue
    <3>4. /\ Sorted(gens[w.gen].digest)
          /\ \A e \in ToSet(gens[w.gen].digest) : InForce(e, gens[w.gen].cutoff)
      BY <1>1, <3>2 DEF GenTrue
    <3>5. /\ CursorOf(gens[w.gen].digest) \in Nat
          /\ \A e \in ToSet(gens[w.gen].digest) : e.at <= CursorOf(gens[w.gen].digest)
      BY <1>3, <3>4, CursorIsLast
    <3>6. \A x \in ToSet(gens[w.gen].digest), y \in ToSet(w.batch) : x.at < y.at
      <4> TAKE x \in ToSet(gens[w.gen].digest), y \in ToSet(w.batch)
      <4>1. x.at <= CursorOf(gens[w.gen].digest) /\ y.at > CursorOf(gens[w.gen].digest)
        BY <3>3, <3>5
      <4>2. x \in Entry /\ y \in Entry
        BY <1>1, <1>3, LenProperties, ElementOfSeq DEF ToSet
      <4>3. x.at \in Nat /\ y.at \in Nat
        BY <4>2 DEF Entry
      <4>4. QED
        BY <3>5, <4>1, <4>3
    <3>7. /\ Sorted(gen.digest)
          /\ ToSet(gen.digest) = ToSet(gens[w.gen].digest) \cup ToSet(w.batch)
      BY <1>1, <1>3, <1>4, <3>3, <3>4, <3>6, ConcatIsSorted
    <3>8. \A e \in ToSet(gen.digest) : InForce(e, gen.cutoff)
      BY <1>4, <3>3, <3>4, <3>7
    <3>9. Grows(w.gen, gen)
      BY <1>4, <3>2, <3>7, <3>8 DEF Grows
    <3>10. QED
      BY <1>1, <1>4, <3>1, <3>9
  <2>3. QED
    BY <2>1, <2>2
<1>6. /\ schedule' \subseteq Gen \cup {0}
      /\ \E v \in Sealer : v.phase # "digest" /\ sealer' = [sealer EXCEPT ![s] = v]
  <2>1. schedule \subseteq Gen \cup {0}
    BY DEF StoredTypes
  <2>2. CASE Unmoved(w) /\ Len(w.batch) < PageSize /\ Counted(gen)
    <3> DEFINE v == [phase |-> "receipt", gen |-> w.gen, seen |-> gen, batch |-> <<>>]
    <3>1. sealer' = [sealer EXCEPT ![s] = v] /\ schedule' = schedule
      BY <2>2 DEF DigestBatch, gen
    <3>2. v \in Sealer /\ v.phase # "digest"
      BY <1>1, <1>4, EmptySeq DEF Sealer
    <3> HIDE DEF v
    <3>3. QED
      BY <2>1, <3>1, <3>2
  <2>3. CASE ~(Unmoved(w) /\ Len(w.batch) < PageSize /\ Counted(gen))
    <3>1. sealer' = [sealer EXCEPT ![s] = IdleSealer] /\ schedule' = schedule \cup {w.gen}
      BY <2>3 DEF DigestBatch, gen, Schedule
    <3>2. IdleSealer \in Sealer /\ IdleSealer.phase # "digest"
      <4>1. NoGen \in Generation /\ <<>> \in Seq(Entry) /\ 1 \in Gen
        BY EmptySeq, BucketAssumption DEF NoGen, Generation, Gen
      <4>2. QED
        BY <4>1 DEF IdleSealer, Sealer
    <3>3. QED
      BY <1>1, <2>1, <3>1, <3>2
  <2>4. QED
    BY <2>2, <2>3
<1>7. QED
  BY <1>2, <1>5, <1>6

\* A receipt names every decision up to its cutoff.
Seals(g, n) ==
  /\ gens[g].status = "DRAINING"
  /\ n.status = "COMPLETE" /\ n.cutoff = gens[g].cutoff /\ n.digest = gens[g].digest
  /\ \A t \in Members(n.cutoff) :
       /\ rows[t].rec
       /\ \E e \in ToSet(n.digest) : e.tx = t /\ e.at = rows[t].decided

\* resumeSeal after the hash of a receipt: it seals what it counted.
LEMMA ReceiptEffect ==
  ASSUME StoredTypes, CallTypes, \A g \in Gen : GenTrue(g),
         NEW s \in Sealers, PublishReceipt(s)
  PROVE  /\ UNCHANGED <<now, rows, floor, last, deletedTo, revision, leases,
                        publish, sweep, reader>>
         /\ schedule' \subseteq Gen \cup {0} /\ sealedTo' \in Nat
         /\ \E g \in Gen, n \in Generation :
              gens' = [gens EXCEPT ![g] = n] /\ (n = gens[g] \/ Seals(g, n))
         /\ sealer' = [sealer EXCEPT ![s] = IdleSealer]
<1> DEFINE w == sealer[s]
<1>1. w.gen \in Gen
  BY DEF CallTypes, Sealer
<1>2. /\ gens \in [Gen -> Generation] /\ gens[w.gen] \in Generation /\ now \in Nat
      /\ gens[w.gen].digest \in Seq(Entry) /\ gens[w.gen].cutoff \in Nat
  BY <1>1, Shapes
<1>3. schedule \subseteq Gen \cup {0} /\ sealedTo \in Nat
  BY DEF StoredTypes
<1>4. /\ UNCHANGED <<now, rows, floor, last, deletedTo, revision, leases,
                     publish, sweep, reader>>
      /\ sealer' = [sealer EXCEPT ![s] = IdleSealer]
  BY DEF PublishReceipt
<1>5. CASE ~Publishable(w)
  <2>1. gens' = gens /\ sealedTo' = sealedTo /\ schedule' = schedule \cup {w.gen}
    BY <1>5 DEF PublishReceipt, Schedule
  <2>2. gens' = [gens EXCEPT ![w.gen] = gens[w.gen]]
    BY <1>2, <2>1
  <2>3. QED
    BY <1>1, <1>2, <1>3, <1>4, <2>1, <2>2
<1>6. CASE Publishable(w)
  <2> DEFINE n == [gens[w.gen] EXCEPT !.status = "COMPLETE", !.upd = now]
  <2>1. /\ gens' = [gens EXCEPT ![w.gen].status = "COMPLETE", ![w.gen].upd = now]
        /\ sealedTo' = IF gens[w.gen].advance
                       THEN Max({sealedTo, gens[w.gen].cutoff}) ELSE sealedTo
        /\ schedule' = (schedule \ {w.gen}) \cup {0}
    BY <1>6 DEF PublishReceipt, RetentionPurpose
  <2>2. gens' = [gens EXCEPT ![w.gen] = n]
    BY <2>1
  <2>3. sealedTo' \in Nat
    BY <1>2, <1>3, <2>1, MaxOfTwo
  <2>4. /\ n \in Generation /\ n.status = "COMPLETE"
        /\ n.cutoff = gens[w.gen].cutoff /\ n.digest = gens[w.gen].digest
    <3>1. \A x \in Generation, m \in Nat :
            LET y == [x EXCEPT !.status = "COMPLETE", !.upd = m]
            IN /\ y \in Generation /\ y.status = "COMPLETE" /\ y.cutoff = x.cutoff
               /\ y.digest = x.digest
      BY DEF Generation
    <3>2. QED
      BY <1>2, <3>1
  <2> HIDE DEF n
  <2>5. /\ gens[w.gen].status = "DRAINING"
        /\ Cardinality(Members(gens[w.gen].cutoff)) = Len(gens[w.gen].digest)
        /\ \A t \in Members(gens[w.gen].cutoff) : rows[t].rec
    BY <1>6 DEF Publishable, Incomplete
  <2>6. /\ Sorted(gens[w.gen].digest)
        /\ \A e \in ToSet(gens[w.gen].digest) : InForce(e, gens[w.gen].cutoff)
    BY <1>1, <2>5 DEF GenTrue
  <2>7. \A e \in ToSet(gens[w.gen].digest) :
          e.tx \in Members(gens[w.gen].cutoff) /\ rows[e.tx].decided = e.at
    <3> TAKE e \in ToSet(gens[w.gen].digest)
    <3>1. e \in Entry
      BY <1>2, LenProperties, ElementOfSeq DEF ToSet
    <3>2. QED
      BY <2>6, <3>1 DEF InForce, Members, Entry
  <2>8. Members(gens[w.gen].cutoff) \in SUBSET Txs
    BY DEF Members
  <2>9. \A t \in Members(gens[w.gen].cutoff) :
          \E e \in ToSet(gens[w.gen].digest) : e.tx = t /\ e.at = rows[t].decided
    BY <1>2, <2>5, <2>6, <2>7, <2>8, CountIsComplete
  <2>10. Seals(w.gen, n)
    BY <2>4, <2>5, <2>9 DEF Seals
  <2>11. schedule' \subseteq Gen \cup {0}
    BY <1>3, <2>1
  <2>12. QED
    BY <1>1, <1>4, <2>2, <2>3, <2>4, <2>10, <2>11
<1>7. QED
  BY <1>5, <1>6
-----------------------------------------------------------------------------
(* What the other calls do, as the invariant needs it.                     *)

\* A row keeps its decision and its record; no decision is added.
RowKeeps(old, new) ==
  /\ new.state = "FINALIZED" <=> old.state = "FINALIZED"
  /\ old.state = "FINALIZED" => new.decided = old.decided
  /\ new.decided <= old.decided
  /\ old.rec => new.rec
  /\ new.rec => new.state = "FINALIZED"

\* A contradiction of a decision raises the revision.
Disputes(old, new) ==
  old.state = "FINALIZED" /\ new.q = "UNRESOLVED" /\ old.q # "UNRESOLVED"

Keeps ==
  /\ last' = last /\ rows' \in [Txs -> Row]
  /\ \A u \in Txs : RowKeeps(rows[u], rows'[u])
  /\ revision' \in Nat /\ revision' >= revision
  /\ revision' = revision => \A u \in Txs : ~Disputes(rows[u], rows'[u])

\* One row that is kept, and the others as they are.
LEMMA KeepsOne ==
  ASSUME StoredTypes, RowsTrue, NEW t \in Txs, NEW r \in Row,
         rows' = [rows EXCEPT ![t] = r], RowKeeps(rows[t], r), last' = last,
         \/ revision' = revision + 1
         \/ revision' = revision /\ ~Disputes(rows[t], r)
  PROVE  Keeps
<1>1. rows \in [Txs -> Row] /\ revision \in Nat
  BY DEF StoredTypes
<1>2. rows' \in [Txs -> Row]
  BY <1>1
<1>3. \A u \in Txs : rows'[u] = IF u = t THEN r ELSE rows[u]
  BY <1>1
<1>4. \A u \in Txs : RowKeeps(rows[u], rows[u])
  BY Shapes DEF RowKeeps, RowsTrue
<1>5. \A u \in Txs : ~Disputes(rows[u], rows[u])
  BY DEF Disputes
<1>6. \A u \in Txs : RowKeeps(rows[u], rows'[u])
  BY <1>3, <1>4
<1>7. revision' = revision => \A u \in Txs : ~Disputes(rows[u], rows'[u])
  BY <1>1, <1>3, <1>5
<1>8. revision' \in Nat /\ revision' >= revision
  BY <1>1
<1>9. QED
  BY <1>2, <1>6, <1>7, <1>8 DEF Keeps

\* Nothing happened to the rows.
LEMMA KeepsAll ==
  ASSUME StoredTypes, RowsTrue, rows' = rows, last' = last, revision' = revision
  PROVE  Keeps
<1>1. \A u \in Txs : RowKeeps(rows[u], rows[u])
  BY Shapes DEF RowKeeps, RowsTrue
<1>2. \A u \in Txs : ~Disputes(rows[u], rows[u])
  BY DEF Disputes
<1>3. QED
  BY <1>1, <1>2 DEF Keeps, StoredTypes

\* The calls on a row that decide nothing.
RowCall(t) ==
  \/ \E f \in Floors : Reserve(t, f) \/ ReserveAgain(t, f)
  \/ ReserveOther(t) \/ FinalizeConflict(t)
  \/ PublishRecord(t) \/ Cancel(t) \/ CancelConflict(t) \/ Release(t)
  \/ \E res \in {"FINALIZED", "CANCELLED"}, sel \in {"record", "intent"} :
       Resolve(t, res, sel)

\* The time that a touched row gets is a number.
LEMMA TouchedIsNat ==
  ASSUME StoredTypes, NEW t \in Txs
  PROVE  Touched(t) \in Nat
  BY Shapes DEF Touched

\* A row in quarantine keeps its decision, and the revision rises.
LEMMA QuarantineKeeps ==
  ASSUME StoredTypes, RowsTrue, NEW t \in Txs, Quarantine(t), last' = last
  PROVE  Keeps
<1> DEFINE old == rows[t]
           m == Touched(t)
           r == [old EXCEPT !.q = "UNRESOLVED", !.upd = m]
<1>1. old \in Row /\ old.decided \in Nat /\ m \in Nat /\ (old.rec => old.state = "FINALIZED")
  BY Shapes, TouchedIsNat DEF RowsTrue
<1>2. rows' = [rows EXCEPT ![t] = r] /\ revision' = revision + 1
  BY DEF Quarantine
<1> HIDE DEF old, m
<1>3. r \in Row /\ r.state = old.state /\ r.decided = old.decided /\ r.rec = old.rec
  BY <1>1 DEF Row
<1> HIDE DEF r
<1>4. RowKeeps(old, r)
  BY <1>1, <1>3 DEF RowKeeps
<1>5. QED
  BY <1>2, <1>3, <1>4, KeepsOne DEF old

\* Every call on a row but the decision itself keeps the log.
LEMMA RowCallKeeps ==
  ASSUME StoredTypes, RowsTrue, NEW t \in Txs, RowCall(t)
  PROVE  Keeps
<1> DEFINE old == rows[t]
<1>1. old \in Row /\ old.decided \in Nat /\ now \in Nat /\ revision \in Nat
        /\ (old.rec => old.state = "FINALIZED")
  BY Shapes DEF RowsTrue, StoredTypes
<1>2. ASSUME NEW f \in Floors, Reserve(t, f) PROVE Keeps
  <2> DEFINE r == [NoRow EXCEPT !.state = "RESERVED", !.upd = now]
  <2>1. rows' = [rows EXCEPT ![t] = r] /\ revision' = revision /\ last' = last
          /\ old.state = "none"
    BY <1>2 DEF Reserve, Exists
  <2> HIDE DEF old
  <2>2. r \in Row /\ r.state = "RESERVED" /\ r.decided = 0 /\ r.rec = FALSE
    BY <1>1 DEF NoRow, Row
  <2> HIDE DEF r
  <2>3. RowKeeps(old, r) /\ ~Disputes(old, r)
    BY <1>1, <2>1, <2>2 DEF RowKeeps, Disputes
  <2>4. QED
    BY <2>1, <2>2, <2>3, KeepsOne DEF old
<1>3. ASSUME NEW f \in Floors, ReserveAgain(t, f) PROVE Keeps
  <2>1. rows' = rows /\ last' = last /\ revision' = revision
    BY <1>3 DEF ReserveAgain
  <2>2. QED
    BY <2>1, KeepsAll
<1>4. CASE ReserveOther(t) \/ FinalizeConflict(t) \/ CancelConflict(t)
  <2>1. Quarantine(t) /\ last' = last
    BY <1>4 DEF ReserveOther, FinalizeConflict, CancelConflict
  <2>2. QED
    BY <2>1, QuarantineKeeps
<1>5. CASE PublishRecord(t)
  <2> DEFINE b == old.rec \/ old.state = "FINALIZED"
             r == [old EXCEPT !.rec = b]
  <2>1. rows' = [rows EXCEPT ![t] = r] /\ revision' = revision /\ last' = last
    BY <1>5 DEF PublishRecord, bucketVars
  <2>2. b \in BOOLEAN
    BY <1>1 DEF Row
  <2>3. (b => old.state = "FINALIZED") /\ (old.rec => b)
    BY <1>1
  <2> HIDE DEF old, b
  <2>4. r \in Row /\ r.state = old.state /\ r.decided = old.decided /\ r.rec = b
          /\ r.q = old.q
    BY <1>1, <2>2 DEF Row
  <2> HIDE DEF r
  <2>5. RowKeeps(old, r) /\ ~Disputes(old, r)
    BY <1>1, <2>3, <2>4 DEF RowKeeps, Disputes
  <2>6. QED
    BY <2>1, <2>4, <2>5, KeepsOne DEF old
<1>6. CASE Cancel(t)
  <2> DEFINE r == [old EXCEPT !.state = "CANCELLED", !.upd = now]
  <2>1. rows' = [rows EXCEPT ![t] = r] /\ revision' = revision /\ last' = last
          /\ old.state = "RESERVED"
    BY <1>6 DEF Cancel, CancelRow, bucketVars
  <2> HIDE DEF old
  <2>2. r \in Row /\ r.state = "CANCELLED" /\ r.decided = old.decided /\ r.rec = old.rec
          /\ r.q = old.q
    BY <1>1 DEF Row
  <2> HIDE DEF r
  <2>3. RowKeeps(old, r) /\ ~Disputes(old, r)
    BY <1>1, <2>1, <2>2 DEF RowKeeps, Disputes
  <2>4. QED
    BY <2>1, <2>2, <2>3, KeepsOne DEF old
<1>7. CASE Release(t)
  <2> DEFINE r == [old EXCEPT !.released = TRUE]
  <2>1. rows' = [rows EXCEPT ![t] = r] /\ revision' = revision /\ last' = last
    BY <1>7 DEF Release, bucketVars
  <2> HIDE DEF old
  <2>2. r \in Row /\ r.state = old.state /\ r.decided = old.decided /\ r.rec = old.rec
          /\ r.q = old.q
    BY <1>1 DEF Row
  <2> HIDE DEF r
  <2>3. RowKeeps(old, r) /\ ~Disputes(old, r)
    BY <1>1, <2>2 DEF RowKeeps, Disputes
  <2>4. QED
    BY <2>1, <2>2, <2>3, KeepsOne DEF old
<1>8. ASSUME NEW res, NEW sel, Resolve(t, res, sel) PROVE Keeps
  <2> DEFINE m == Touched(t)
             a == revision + 1
             r == [old EXCEPT !.q = "RESOLVED", !.att = a, !.upd = m]
  <2>1. rows' = [rows EXCEPT ![t] = r] /\ revision' = revision + 1 /\ last' = last
    BY <1>8 DEF Resolve
  <2>2. m \in Nat /\ a \in Nat
    BY <1>1, TouchedIsNat
  <2> HIDE DEF old, m, a
  <2>3. r \in Row /\ r.state = old.state /\ r.decided = old.decided /\ r.rec = old.rec
    BY <1>1, <2>2 DEF Row
  <2> HIDE DEF r
  <2>4. RowKeeps(old, r)
    BY <1>1, <2>3 DEF RowKeeps
  <2>5. QED
    BY <2>1, <2>3, <2>4, KeepsOne DEF old
<1>9. QED
  BY <1>2, <1>3, <1>4, <1>5, <1>6, <1>7, <1>8 DEF RowCall

\* What those calls leave alone, and the shapes of what they change.
LEMMA RowCallFrame ==
  ASSUME StoredTypes, CallTypes, NEW t \in Txs, RowCall(t)
  PROVE  /\ UNCHANGED <<now, last, sealedTo, deletedTo, gens, leases, sealer,
                        sweep, reader>>
         /\ floor' \in Nat /\ floor' >= floor
         /\ schedule' \subseteq Gen \cup {0} /\ publish' \subseteq Txs
<1>1. UNCHANGED <<now, last, sealedTo, deletedTo, gens, leases, sealer, sweep, reader>>
  BY DEF RowCall, Reserve, ReserveAgain, ReserveOther, FinalizeConflict, PublishRecord,
         Cancel, CancelConflict, Release, Resolve, bucketVars, fiberVars
<1>2. floor \in Nat /\ schedule \subseteq Gen \cup {0} /\ publish \subseteq Txs
        /\ \A f \in Floors : f \in Nat
  BY BucketAssumption DEF StoredTypes, CallTypes
<1>3. floor' \in Nat /\ floor' >= floor
  <2>1. ASSUME NEW f \in Floors, Reserve(t, f) PROVE floor' \in Nat /\ floor' >= floor
    BY <1>2, <2>1, MaxOfTwo DEF Reserve
  <2>2. ASSUME NEW f \in Floors, ReserveAgain(t, f) PROVE floor' \in Nat /\ floor' >= floor
    BY <1>2, <2>2 DEF ReserveAgain
  <2>3. ASSUME ~(\E f \in Floors : Reserve(t, f) \/ ReserveAgain(t, f))
        PROVE  floor' = floor
    BY <2>3 DEF RowCall, ReserveOther, FinalizeConflict, PublishRecord,
         Cancel, CancelConflict, Release, Resolve, bucketVars
  <2>4. QED
    BY <1>2, <2>1, <2>2, <2>3
<1>4. schedule' \subseteq Gen \cup {0}
  <2>1. schedule' = schedule \/ schedule' = schedule \cup {0}
    BY DEF RowCall, Reserve, ReserveAgain, ReserveOther, FinalizeConflict, PublishRecord,
         Cancel, CancelRow, CancelConflict, Release, Resolve, Schedule, RetentionPurpose
  <2>2. QED
    BY <1>2, <2>1
<1>5. publish' \subseteq Txs
  <2>1. publish' = publish \/ publish' = publish \ {t}
    BY DEF RowCall, Reserve, ReserveAgain, ReserveOther, FinalizeConflict, PublishRecord,
         Cancel, CancelConflict, Release, Resolve, fiberVars
  <2>2. QED
    BY <1>2, <2>1
<1>6. QED
  BY <1>1, <1>3, <1>4, <1>5

\* A row is decided, later than all and above the floor.
Decides(t) ==
  /\ rows[t].state = "RESERVED" /\ last' = DecisionTime
  /\ revision' = revision
  /\ \E r \in Row :
       /\ rows' = [rows EXCEPT ![t] = r]
       /\ r.state = "FINALIZED" /\ r.decided = DecisionTime
       /\ ~r.rec /\ r.q # "UNRESOLVED"

\* finalize: it decides, or it replays what was decided.
LEMMA FinalizeEffect ==
  ASSUME StoredTypes, CallTypes, RowsTrue, NEW t \in Txs, Finalize(t)
  PROVE  /\ UNCHANGED <<now, floor, sealedTo, deletedTo, revision, gens, leases,
                        sealer, sweep, reader>>
         /\ schedule' \subseteq Gen \cup {0} /\ publish' \subseteq Txs
         /\ Keeps \/ Decides(t)
<1>1. UNCHANGED <<now, floor, sealedTo, deletedTo, revision, gens, leases,
                  sealer, sweep, reader>>
  BY DEF Finalize
<1>2. schedule' = schedule \cup {0} /\ publish' = publish \cup {t}
  BY DEF Finalize, Assign, Schedule, RetentionPurpose
<1>3. schedule' \subseteq Gen \cup {0} /\ publish' \subseteq Txs
  BY <1>2 DEF StoredTypes, CallTypes
<1>4. CASE rows[t].state = "RESERVED"
  <2> DEFINE old == rows[t]
             d == DecisionTime
             r == [old EXCEPT !.state = "FINALIZED", !.decided = d, !.upd = 0]
  <2>1. rows' = [rows EXCEPT ![t] = r] /\ last' = d /\ ~old.rec /\ old.q # "UNRESOLVED"
    BY <1>4 DEF Finalize, Assign, Unresolved
  <2>2. old \in Row /\ d \in Nat
    BY Shapes, DecisionIsLater DEF StoredTypes
  <2> HIDE DEF old, d
  <2>3. r \in Row /\ r.state = "FINALIZED" /\ r.decided = d /\ ~r.rec /\ r.q # "UNRESOLVED"
    BY <2>1, <2>2 DEF Row
  <2> HIDE DEF r
  <2>4. Decides(t)
    BY <1>1, <1>4, <2>1, <2>3 DEF Decides, d
  <2>5. QED
    BY <1>1, <1>3, <2>4
<1>5. CASE rows[t].state # "RESERVED"
  <2>1. rows' = rows /\ last' = last
    BY <1>5 DEF Finalize, Assign
  <2>2. QED
    BY <1>1, <1>3, <2>1, KeepsAll
<1>6. QED
  BY <1>4, <1>5

\* A generation stays, or the history sweep drops it.
GensExpire ==
  /\ gens' \in [Gen -> Generation]
  /\ \A g \in Gen :
       \/ gens'[g] = gens[g]
       \/ gens[g].status \in {"QUARANTINED", "COMPLETE"} /\ gens'[g].status = "deleted"

\* The sweep up to its hash: it drops history, never a decision.
LEMMA SweepStartEffect ==
  ASSUME StoredTypes, CallTypes, RowsTrue, SweepStart
  PROVE  /\ UNCHANGED <<now, bucketVars, publish, sealer, reader>>
         /\ Keeps /\ GensExpire
         /\ leases' \subseteq leases /\ schedule' \subseteq Gen \cup {0}
         /\ \/ sweep' \in Sweep /\ (sweep'.on => sweep'.at <= now)
            \/ sweep' = sweep
<1>1. UNCHANGED <<now, bucketVars, publish, sealer, reader>>
  BY DEF SweepStart
<1>2. rows' = Dropped(OldRows)
  BY DEF SweepStart
<1>3. Keeps
  <2>1. \A u \in Txs : rows'[u] = IF u \in OldRows THEN NoRow ELSE rows[u]
    BY <1>2 DEF Dropped
  <2>2. NoRow \in Row /\ NoRow.state = "none" /\ NoRow.decided = 0 /\ NoRow.rec = FALSE
          /\ NoRow.q = "NONE"
    BY DEF NoRow, Row
  <2>3. rows' \in [Txs -> Row]
    BY <1>2, <2>2, Shapes DEF Dropped
  <2>4. \A u \in OldRows : rows[u].state # "FINALIZED"
    BY DEF OldRows, HistoryRow
  <2>5. \A u \in Txs : rows[u].decided \in Nat /\ (rows[u].rec => rows[u].state = "FINALIZED")
    BY Shapes DEF RowsTrue
  <2>6. ASSUME NEW u \in Txs PROVE RowKeeps(rows[u], rows'[u]) /\ ~Disputes(rows[u], rows'[u])
    <3>1. CASE u \in OldRows
      <4>1. rows'[u] = NoRow /\ rows[u].state # "FINALIZED" /\ ~rows[u].rec
        BY <2>1, <2>4, <2>5, <3>1
      <4>2. QED
        BY <2>2, <2>5, <4>1 DEF RowKeeps, Disputes
    <3>2. CASE u \notin OldRows
      <4>1. rows'[u] = rows[u]
        BY <2>1, <3>2
      <4>2. QED
        BY <2>5, <4>1 DEF RowKeeps, Disputes
    <3>3. QED
      BY <3>1, <3>2
  <2>7. last' = last /\ revision' = revision /\ revision \in Nat
    BY <1>1 DEF bucketVars, StoredTypes
  <2>8. QED
    BY <2>3, <2>6, <2>7 DEF Keeps
<1>4. GensExpire
  <2> DEFINE x == [NoGen EXCEPT !.status = "deleted"]
  <2>1. gens' = [g \in Gen |-> IF g \in OldGens THEN x ELSE gens[g]]
    BY DEF SweepStart
  <2>2. x \in Generation /\ x.status = "deleted"
    BY EmptySeq DEF NoGen, Generation
  <2> HIDE DEF x
  <2>3. gens' \in [Gen -> Generation]
    BY <2>1, <2>2, Shapes
  <2>4. \A g \in OldGens : gens[g].status \in {"QUARANTINED", "COMPLETE"}
    BY DEF OldGens, HistoryGen
  <2>5. QED
    BY <2>1, <2>2, <2>3, <2>4 DEF GensExpire
<1>5. leases' \subseteq leases
  BY DEF SweepStart
<1>6. schedule' \subseteq Gen \cup {0}
  <2>1. schedule' = schedule \cup {0} \/ schedule' = schedule \ {0}
    BY DEF SweepStart, Reschedule, RetentionPurpose
  <2>2. QED
    BY <2>1 DEF StoredTypes
<1>7. (sweep' \in Sweep /\ (sweep'.on => sweep'.at <= now)) \/ sweep' = sweep
  <2> DEFINE picked == Candidates(now)
  <2>1. \/ sweep' = sweep
        \/ \E later \in BOOLEAN :
             sweep' = [on |-> TRUE, at |-> now, picked |-> picked, later |-> later]
    BY DEF SweepStart
  <2>2. picked \in SUBSET Record
    <3>1. \A t \in Txs : [tx |-> t, at |-> rows[t].decided] \in Record
      BY Shapes DEF Record
    <3>2. QED
      BY <3>1 DEF Candidates
  <2> HIDE DEF picked
  <2>3. ASSUME NEW later \in BOOLEAN,
               sweep' = [on |-> TRUE, at |-> now, picked |-> picked, later |-> later]
        PROVE  sweep' \in Sweep /\ sweep'.at <= now
    BY <2>2, <2>3, Shapes DEF Sweep
  <2>4. QED
    BY <2>1, <2>3
<1>8. QED
  BY <1>1, <1>3, <1>4, <1>5, <1>6, <1>7

\* What retention may take: a decision that is released and undisputed, out of
\* the range of every live lease, while nothing drains.
Takes(u) ==
  /\ rows[u].state = "FINALIZED" /\ rows'[u] = NoRow
  /\ rows[u].decided <= deletedTo'
  /\ rows[u].released /\ ~Unresolved(u) /\ ~Draining
  /\ ~Leased({l \in leases : l.until > now}, rows[u].decided, rows[u].decided)

\* The sweep after its hash: it takes only what it may.
LEMMA SweepFinishEffect ==
  ASSUME StoredTypes, CallTypes, sweep.on => sweep.at <= now, SweepFinish
  PROVE  /\ UNCHANGED <<now, floor, last, sealedTo, revision, gens, leases,
                        publish, sealer, reader>>
         /\ deletedTo' \in Nat /\ deletedTo' >= deletedTo
         /\ schedule' \subseteq Gen \cup {0} /\ sweep' = IdleSweep
         /\ rows' \in [Txs -> Row]
         /\ \A u \in Txs : rows'[u] = rows[u] \/ Takes(u)
<1> DEFINE gone == IF StillDue THEN {p.tx : p \in sweep.picked} ELSE {}
           times == {p.at : p \in sweep.picked}
<1>1. /\ UNCHANGED <<now, floor, last, sealedTo, revision, gens, leases,
                     publish, sealer, reader>>
      /\ sweep' = IdleSweep /\ sweep.on
  BY DEF SweepFinish
<1>2. /\ rows' = Dropped(gone)
      /\ deletedTo' = IF gone = {} THEN deletedTo ELSE Max({deletedTo, Max(times)})
  BY DEF SweepFinish
<1>3. schedule' \subseteq Gen \cup {0}
  <2>1. schedule' = schedule \cup {0} \/ schedule' = schedule \ {0}
    BY DEF SweepFinish, Reschedule, RetentionPurpose
  <2>2. QED
    BY <2>1 DEF StoredTypes
<1>4. /\ deletedTo \in Nat /\ sweep.at \in Nat /\ sweep.at <= now /\ now \in Nat
      /\ sweep.picked \in SUBSET Record
  BY <1>1, Shapes DEF StoredTypes, CallTypes, Sweep
<1>5. NoRow \in Row
  BY DEF NoRow, Row
<1>6. rows' \in [Txs -> Row]
  BY <1>2, <1>5, Shapes DEF Dropped
<1>7. CASE gone = {}
  <2>1. rows' = rows
    BY <1>2, <1>7, Shapes DEF Dropped
  <2>2. deletedTo' = deletedTo
    BY <1>2, <1>7
  <2>3. QED
    BY <1>1, <1>3, <1>4, <1>6, <2>1, <2>2
<1>8. CASE gone # {}
  <2>1. /\ StillDue /\ gone = {p.tx : p \in sweep.picked}
    BY <1>8
  <2>2. /\ ~Leased({l \in leases : l.until > sweep.at}, Min(times), Max(times))
        /\ ~Draining /\ Candidates(sweep.at) = sweep.picked
    BY <2>1 DEF StillDue
  <2>3. \A p \in sweep.picked : /\ p.tx \in Txs /\ p.at = rows[p.tx].decided
                                /\ Due(p.tx, sweep.at)
    BY <2>2 DEF Candidates
  <2>4. \A p \in sweep.picked : p.at \in 0 .. sweep.at
    <3> TAKE p \in sweep.picked
    <3>1. p.at \in Nat /\ p.at + Retention <= sweep.at
      BY <2>3, Shapes DEF Due
    <3>2. Retention \in Nat
      BY BucketAssumption
    <3>3. QED
      BY <1>4, <3>1, <3>2
  <2>5. times \in SUBSET (0 .. sweep.at) /\ times \in SUBSET Nat /\ times # {}
    BY <1>8, <2>1, <2>4
  <2> HIDE DEF times
  <2>6. /\ Max(times) \in times /\ \A y \in times : Max(times) >= y
        /\ Min(times) \in times /\ \A y \in times : Min(times) <= y
    BY <1>4, <2>5, MaxIsGreatest, MinIsLeast
  <2>7. Max(times) \in Nat /\ Min(times) \in Nat
    BY <2>5, <2>6
  <2>8. deletedTo' \in Nat /\ deletedTo' >= deletedTo /\ deletedTo' >= Max(times)
    BY <1>2, <1>4, <1>8, <2>7, MaxOfTwo
  <2>9. ASSUME NEW u \in Txs PROVE rows'[u] = rows[u] \/ Takes(u)
    <3>1. CASE u \notin gone
      BY <1>2, <3>1 DEF Dropped
    <3>2. CASE u \in gone
      <4>1. PICK p \in sweep.picked : p.tx = u
        BY <2>1, <3>2
      <4>2. p.at = rows[u].decided /\ Due(u, sweep.at) /\ p.at \in times
        BY <2>3, <4>1 DEF times
      <4>3. rows[u].decided \in Nat
        BY Shapes
      <4>4. rows'[u] = NoRow
        BY <1>2, <3>2 DEF Dropped
      <4>5. rows[u].decided <= deletedTo'
        BY <2>6, <2>7, <2>8, <4>2, <4>3
      <4>6. ASSUME NEW l \in leases, l.until > now, l.from <= rows[u].decided,
                   l.cutoff >= rows[u].decided
            PROVE  FALSE
        <5>1. l \in Lease_
          BY DEF StoredTypes
        <5>2. l.until \in Nat /\ l.from \in Nat /\ l.cutoff \in Nat
          BY <5>1 DEF Lease_
        <5>3. l.until > sweep.at
          BY <1>4, <4>6, <5>2
        <5>4. l.from <= Max(times) /\ l.cutoff >= Min(times)
          BY <2>6, <2>7, <4>2, <4>3, <4>6, <5>2
        <5>5. QED
          BY <2>2, <5>3, <5>4 DEF Leased
      <4>7. ~Leased({l \in leases : l.until > now}, rows[u].decided, rows[u].decided)
        BY <4>6 DEF Leased
      <4>8. QED
        BY <2>2, <4>2, <4>4, <4>5, <4>7 DEF Takes, Due
    <3>3. QED
      BY <3>1, <3>2
  <2>10. QED
    BY <1>1, <1>3, <1>6, <2>8, <2>9
<1>9. QED
  BY <1>7, <1>8

-----------------------------------------------------------------------------
(* Types.                                                                  *)

\* What restarts and ends a seal step.
LEMMA IdleTypes ==
  /\ IdleSealer \in Sealer /\ IdleSealer.phase = "idle"
  /\ IdleSweep \in Sweep /\ IdleSweep.on = FALSE
  /\ IdleReader \in Reader
<1>1. <<>> \in Seq(Entry) /\ <<>> \in Seq(Record) /\ 1 \in Gen
  BY EmptySeq, BucketAssumption DEF Gen
<1>2. NoGen \in Generation
  BY <1>1 DEF NoGen, Generation
<1>3. IdleSealer \in Sealer /\ IdleSealer.phase = "idle"
  BY <1>1, <1>2 DEF IdleSealer, Sealer
<1>4. IdleSweep \in Sweep /\ IdleSweep.on = FALSE
  BY DEF IdleSweep, Sweep
<1>5. IdleReader \in Reader
  BY <1>1 DEF IdleReader, Reader
<1>6. QED
  BY <1>3, <1>4, <1>5

\* Every variable starts in its type.
LEMMA InitTypes == Init => StoredTypes /\ CallTypes
<1> SUFFICES ASSUME Init PROVE StoredTypes /\ CallTypes
  OBVIOUS
<1>1. NoRow \in Row
  BY DEF NoRow, Row
<1>2. NoGen \in Generation
  BY EmptySeq DEF NoGen, Generation
<1>3. 0 \in 0 .. MaxTime
  BY BucketAssumption
<1>4. StoredTypes
  BY <1>1, <1>2, <1>3 DEF Init, StoredTypes
<1>5. CallTypes
  BY IdleTypes DEF Init, CallTypes
<1>6. QED
  BY <1>4, <1>5

\* A page keeps the shape of the enumeration and of the leases.
LEMMA PageTypes ==
  ASSUME StoredTypes, CallTypes, RowsTrue, NEW g \in Gen, NEW from \in Cutoffs,
         LocalPage(g, from)
  PROVE  leases' \subseteq Lease_ /\ reader' \in Reader /\ schedule' \subseteq Gen \cup {0}
<1>1. PICK after \in Nat, taken \in Seq(Entry), next \in Nat, done \in BOOLEAN :
           /\ leases' = Renewed(g, from, next)
           /\ reader' = [gen |-> g, from |-> from, after |-> next, done |-> done,
                         want |-> RangeOf(g, from),
                         got |-> reader.got \o Records(taken)]
  BY PageEffect
<1>2. from \in Nat /\ Lease \in Nat
  BY BucketAssumption
<1>3. leases' \subseteq Lease_
  <2>1. \A a \in {0, next} : NewLease(g, from, a) \in Lease_
    BY <1>1, <1>2, Shapes DEF NewLease, Lease_
  <2>2. leases \subseteq Lease_
    BY DEF StoredTypes
  <2>3. QED
    BY <1>1, <2>1, <2>2 DEF Renewed
<1>4. reader.got \o Records(taken) \in Seq(Record)
  <2>1. Records(taken) \in Seq(Record) /\ reader.got \in Seq(Record)
    BY RecordsKeepOrder DEF CallTypes, Reader
  <2>2. QED
    BY <2>1, ConcatProperties
<1>5. RangeOf(g, from) \in SUBSET Record
  <2>1. Records(gens[g].digest) \in Seq(Record)
    BY RecordsKeepOrder, Shapes
  <2>2. ToSet(Records(gens[g].digest)) \in SUBSET Record
    BY <2>1, LenProperties, ElementOfSeq DEF ToSet
  <2>3. QED
    BY <2>2 DEF RangeOf
<1>6. reader' \in Reader
  <2> DEFINE x == reader.got \o Records(taken)
             y == RangeOf(g, from)
  <2>1. x \in Seq(Record) /\ y \in SUBSET Record
    BY <1>4, <1>5
  <2>2. reader' = [gen |-> g, from |-> from, after |-> next, done |-> done,
                   want |-> y, got |-> x]
    BY <1>1
  <2> HIDE DEF x, y
  <2>3. QED
    BY <1>2, <2>1, <2>2 DEF Reader
<1>7. schedule' \subseteq Gen \cup {0}
  BY DEF LocalPage, Schedule, RetentionPurpose, StoredTypes
<1>8. QED
  BY <1>3, <1>6, <1>7

\* The calls, by what they touch.
LEMMA StepIs ==
  ASSUME [Next]_vars
  PROVE  \/ \E t \in Txs : RowCall(t)
         \/ \E t \in Txs : Finalize(t)
         \/ \E s \in Sealers : DrainCall(s)
         \/ \E s \in Sealers : DigestBatch(s)
         \/ \E s \in Sealers : PublishReceipt(s)
         \/ \E g \in Gen, from \in Cutoffs : LocalPage(g, from)
         \/ PageRefused \/ SweepStart \/ SweepFinish
         \/ Tick \/ Restart \/ UNCHANGED vars
<1>1. ASSUME Next
      PROVE  \/ \E t \in Txs : RowCall(t)
             \/ \E t \in Txs : Finalize(t)
             \/ \E s \in Sealers : DrainCall(s)
             \/ \E s \in Sealers : DigestBatch(s)
             \/ \E s \in Sealers : PublishReceipt(s)
             \/ \E g \in Gen, from \in Cutoffs : LocalPage(g, from)
             \/ PageRefused \/ SweepStart \/ SweepFinish
             \/ Tick \/ Restart
  BY <1>1 DEF Next, RowCall, DrainCall
<1>2. QED
  BY <1>1

\* One seal step that moved.
LEMMA SealerTypes ==
  ASSUME CallTypes, NEW s, NEW w \in Sealer, sealer' = [sealer EXCEPT ![s] = w]
  PROVE  sealer' \in [Sealers -> Sealer]
  BY DEF CallTypes

\* Every step keeps the types.
LEMMA TypesStep ==
  ASSUME BucketInv, [Next]_vars
  PROVE  StoredTypes' /\ CallTypes' /\ (sweep.on => sweep.at <= now)'
<1>0. /\ StoredTypes /\ CallTypes /\ RowsTrue /\ \A g \in Gen : GenTrue(g)
      /\ \A s \in Sealers : SealerTrue(s)
      /\ sweep.on => sweep.at <= now
  BY DEF BucketInv
<1>1. ASSUME NEW t \in Txs, RowCall(t)
      PROVE  StoredTypes' /\ CallTypes' /\ (sweep.on => sweep.at <= now)'
  <2>1. Keeps
    BY <1>0, <1>1, RowCallKeeps
  <2>2. /\ UNCHANGED <<now, last, sealedTo, deletedTo, gens, leases, sealer, sweep, reader>>
        /\ floor' \in Nat /\ schedule' \subseteq Gen \cup {0} /\ publish' \subseteq Txs
    BY <1>0, <1>1, RowCallFrame
  <2>3. rows' \in [Txs -> Row] /\ revision' \in Nat
    BY <2>1 DEF Keeps
  <2>4. QED
    BY <1>0, <2>2, <2>3 DEF StoredTypes, CallTypes
<1>2. ASSUME NEW t \in Txs, Finalize(t)
      PROVE  StoredTypes' /\ CallTypes' /\ (sweep.on => sweep.at <= now)'
  <2>1. /\ UNCHANGED <<now, floor, sealedTo, deletedTo, revision, gens, leases,
                       sealer, sweep, reader>>
        /\ schedule' \subseteq Gen \cup {0} /\ publish' \subseteq Txs
        /\ Keeps \/ Decides(t)
    BY <1>0, <1>2, FinalizeEffect
  <2>2. rows' \in [Txs -> Row] /\ last' \in Nat
    <3>1. CASE Keeps
      BY <1>0, <3>1 DEF Keeps, StoredTypes
    <3>2. CASE Decides(t)
      <4>1. DecisionTime \in Nat
        BY <1>0, Shapes, DecisionIsLater DEF StoredTypes
      <4>2. last' \in Nat
        BY <3>2, <4>1 DEF Decides
      <4>3. rows' \in [Txs -> Row]
        BY <1>0, <3>2, Shapes DEF Decides
      <4>4. QED
        BY <4>2, <4>3
    <3>3. QED
      BY <2>1, <3>1, <3>2
  <2>3. QED
    BY <1>0, <2>1, <2>2 DEF StoredTypes, CallTypes
<1>3. ASSUME NEW s \in Sealers, DrainCall(s)
      PROVE  StoredTypes' /\ CallTypes' /\ (sweep.on => sweep.at <= now)'
  <2>1. /\ UNCHANGED <<now, rows, last, sealedTo, deletedTo, revision, leases,
                       publish, sweep, reader>>
        /\ floor' \in Nat /\ schedule' \subseteq Gen \cup {0}
        /\ \E g \in Gen, n \in Generation :
             /\ gens' = [gens EXCEPT ![g] = n]
             /\ \/ sealer' = sealer
                \/ \E b \in Seq(Entry) :
                     sealer' = [sealer EXCEPT ![s] =
                              [phase |-> "digest", gen |-> g, seen |-> n, batch |-> b]]
    <3>1. /\ UNCHANGED <<now, rows, last, sealedTo, deletedTo, revision, leases,
                        publish, sweep, reader>>
          /\ floor' \in Nat /\ schedule' \subseteq Gen \cup {0}
      BY <1>0, <1>3, DrainCallEffect
    <3>2. PICK g \in Gen, n \in Generation :
              /\ gens' = [gens EXCEPT ![g] = n]
              /\ \/ sealer' = sealer
                 \/ /\ n.status = "DRAINING" /\ ~Disputed(n.cutoff) /\ n.rev = revision
                    /\ \E b \in Seq(Entry) :
                         /\ sealer' = [sealer EXCEPT ![s] =
                              [phase |-> "digest", gen |-> g, seen |-> n, batch |-> b]]
                         /\ BatchTrue(b, n)
      BY <1>0, <1>3, DrainCallEffect
    <3>3. QED
      BY <3>1, <3>2
  <2>2. PICK g \in Gen, n \in Generation :
             /\ gens' = [gens EXCEPT ![g] = n]
             /\ \/ sealer' = sealer
                \/ \E b \in Seq(Entry) :
                     sealer' = [sealer EXCEPT ![s] =
                              [phase |-> "digest", gen |-> g, seen |-> n, batch |-> b]]
    BY <2>1
  <2>3. gens' \in [Gen -> Generation]
    BY <1>0, <2>2, Shapes
  <2>4. \A b \in Seq(Entry) : [phase |-> "digest", gen |-> g, seen |-> n, batch |-> b] \in Sealer
    BY DEF Sealer
  <2>5. sealer' \in [Sealers -> Sealer]
    <3>1. CASE sealer' = sealer
      BY <1>0, <3>1 DEF CallTypes
    <3>2. CASE sealer' # sealer
      <4>1. PICK b \in Seq(Entry) :
              sealer' = [sealer EXCEPT ![s] =
                           [phase |-> "digest", gen |-> g, seen |-> n, batch |-> b]]
        BY <2>2, <3>2
      <4>2. QED
        BY <1>0, <2>4, <4>1, SealerTypes
    <3>3. QED
      BY <3>1, <3>2
  <2>6. QED
    BY <1>0, <2>1, <2>3, <2>5 DEF StoredTypes, CallTypes
<1>4. ASSUME NEW s \in Sealers, DigestBatch(s)
      PROVE  StoredTypes' /\ CallTypes' /\ (sweep.on => sweep.at <= now)'
  <2>1. /\ UNCHANGED <<now, rows, bucketVars, leases, publish, sweep, reader>>
        /\ schedule' \subseteq Gen \cup {0}
        /\ \E g \in Gen, n \in Generation :
              gens' = [gens EXCEPT ![g] = n] /\ (n = gens[g] \/ Grows(g, n))
        /\ \E w \in Sealer : w.phase # "digest" /\ sealer' = [sealer EXCEPT ![s] = w]
    BY <1>0, <1>4, DigestEffect
  <2>2. gens' \in [Gen -> Generation]
    BY <1>0, <2>1, Shapes
  <2>3. sealer' \in [Sealers -> Sealer]
    BY <1>0, <2>1, SealerTypes
  <2>4. QED
    BY <1>0, <2>1, <2>2, <2>3 DEF StoredTypes, CallTypes, bucketVars
<1>5. ASSUME NEW s \in Sealers, PublishReceipt(s)
      PROVE  StoredTypes' /\ CallTypes' /\ (sweep.on => sweep.at <= now)'
  <2>1. /\ UNCHANGED <<now, rows, floor, last, deletedTo, revision, leases,
                       publish, sweep, reader>>
        /\ schedule' \subseteq Gen \cup {0} /\ sealedTo' \in Nat
        /\ \E g \in Gen, n \in Generation :
             gens' = [gens EXCEPT ![g] = n] /\ (n = gens[g] \/ Seals(g, n))
        /\ sealer' = [sealer EXCEPT ![s] = IdleSealer]
    BY <1>0, <1>5, ReceiptEffect
  <2>2. gens' \in [Gen -> Generation]
    BY <1>0, <2>1, Shapes
  <2>3. sealer' \in [Sealers -> Sealer]
    BY <1>0, <2>1, IdleTypes, SealerTypes
  <2>4. QED
    BY <1>0, <2>1, <2>2, <2>3 DEF StoredTypes, CallTypes
<1>6. ASSUME NEW g \in Gen, NEW from \in Cutoffs, LocalPage(g, from)
      PROVE  StoredTypes' /\ CallTypes' /\ (sweep.on => sweep.at <= now)'
  <2>1. UNCHANGED <<now, rows, bucketVars, gens, fiberVars>>
    BY <1>6 DEF LocalPage
  <2>2. leases' \subseteq Lease_ /\ reader' \in Reader /\ schedule' \subseteq Gen \cup {0}
    BY <1>0, <1>6, PageTypes
  <2>3. QED
    BY <1>0, <2>1, <2>2 DEF StoredTypes, CallTypes, bucketVars, fiberVars
<1>7. CASE PageRefused
  <2>1. UNCHANGED <<now, rows, bucketVars, gens, leases, fiberVars>>
          /\ reader' = IdleReader /\ schedule' = schedule \cup {0}
    BY <1>7 DEF PageRefused, Schedule, RetentionPurpose
  <2>2. schedule' \subseteq Gen \cup {0}
    BY <1>0, <2>1 DEF StoredTypes
  <2>3. QED
    BY <1>0, <2>1, <2>2, IdleTypes DEF StoredTypes, CallTypes, bucketVars, fiberVars
<1>8. CASE SweepStart
  <2>1. /\ UNCHANGED <<now, bucketVars, publish, sealer, reader>>
        /\ Keeps /\ GensExpire
        /\ leases' \subseteq leases /\ schedule' \subseteq Gen \cup {0}
        /\ \/ sweep' \in Sweep /\ (sweep'.on => sweep'.at <= now)
           \/ sweep' = sweep
    BY <1>0, <1>8, SweepStartEffect
  <2>2. rows' \in [Txs -> Row] /\ gens' \in [Gen -> Generation]
    BY <2>1 DEF Keeps, GensExpire
  <2>3. sweep' \in Sweep /\ (sweep'.on => sweep'.at <= now')
    BY <1>0, <2>1 DEF CallTypes
  <2>4. QED
    BY <1>0, <2>1, <2>2, <2>3 DEF StoredTypes, CallTypes, bucketVars
<1>9. CASE SweepFinish
  <2>1. /\ UNCHANGED <<now, floor, last, sealedTo, revision, gens, leases,
                       publish, sealer, reader>>
        /\ deletedTo' \in Nat /\ schedule' \subseteq Gen \cup {0}
        /\ sweep' = IdleSweep /\ rows' \in [Txs -> Row]
    BY <1>0, <1>9, SweepFinishEffect
  <2>2. QED
    BY <1>0, <2>1, IdleTypes DEF StoredTypes, CallTypes
<1>10. CASE Tick
  <2>1. /\ UNCHANGED <<rows, bucketVars, gens, leases, schedule, fiberVars, reader>>
        /\ now < MaxTime /\ now' = now + 1
    BY <1>10 DEF Tick
  <2>2. now' \in 0 .. MaxTime /\ now \in Nat /\ now' >= now
    BY <1>0, <2>1, BucketAssumption DEF StoredTypes
  <2>3. sweep' = sweep /\ (sweep.on => sweep.at \in Nat)
    BY <1>0, <2>1 DEF fiberVars, CallTypes, Sweep
  <2>4. (sweep.on => sweep.at <= now)'
    BY <1>0, <2>1, <2>2, <2>3
  <2>5. QED
    BY <1>0, <2>1, <2>2, <2>4 DEF StoredTypes, CallTypes, bucketVars, fiberVars
<1>11. CASE Restart
  <2>1. /\ UNCHANGED <<now, rows, bucketVars, gens, leases, schedule, reader>>
        /\ publish' = {} /\ sealer' = [s \in Sealers |-> IdleSealer] /\ sweep' = IdleSweep
    BY <1>11 DEF Restart
  <2>2. sealer' \in [Sealers -> Sealer]
    BY <2>1, IdleTypes
  <2>3. QED
    BY <1>0, <2>1, <2>2, IdleTypes DEF StoredTypes, CallTypes, bucketVars
<1>12. CASE UNCHANGED vars
  BY <1>0, <1>12 DEF vars, StoredTypes, CallTypes, bucketVars, fiberVars
<1>13. QED
  BY <1>1, <1>2, <1>3, <1>4, <1>5, <1>6, <1>7, <1>8, <1>9, <1>10, <1>11, <1>12, StepIs
-----------------------------------------------------------------------------
(* How a step may change the rows and a generation.                        *)

\* Retention takes rows.
Drops ==
  /\ last' = last /\ revision' = revision /\ rows' \in [Txs -> Row]
  /\ \A u \in Txs : rows'[u] = rows[u] \/ Takes(u)

\* A generation moves while the rows stay.
Turns(g) ==
  /\ rows' = rows /\ revision' = revision
  /\ \/ Resets(g, gens'[g]) /\ gens'[g].cutoff <= floor'
     \/ Grows(g, gens'[g])
     \/ Seals(g, gens'[g])

GenExpires(g) ==
  gens[g].status \in {"QUARANTINED", "COMPLETE"} /\ gens'[g].status = "deleted"

\* One step, by rows and by generation.
StepShape ==
  /\ floor' >= floor /\ deletedTo' >= deletedTo
  /\ Keeps \/ Drops \/ \E t \in Txs : Decides(t)
  /\ \A g \in Gen : gens'[g] = gens[g] \/ Turns(g) \/ GenExpires(g)

\* Every step has this shape.
LEMMA StepHasShape ==
  ASSUME BucketInv, [Next]_vars
  PROVE  StepShape
<1>0. /\ StoredTypes /\ CallTypes /\ RowsTrue /\ \A g \in Gen : GenTrue(g)
      /\ \A s \in Sealers : SealerTrue(s)
      /\ sweep.on => sweep.at <= now
      /\ floor \in Nat /\ deletedTo \in Nat /\ gens \in [Gen -> Generation]
  BY DEF BucketInv, StoredTypes
<1>1. ASSUME NEW t \in Txs, RowCall(t) PROVE StepShape
  <2>1. Keeps
    BY <1>0, <1>1, RowCallKeeps
  <2>2. UNCHANGED <<deletedTo, gens>> /\ floor' >= floor
    BY <1>0, <1>1, RowCallFrame
  <2>3. QED
    BY <1>0, <2>1, <2>2 DEF StepShape
<1>2. ASSUME NEW t \in Txs, Finalize(t) PROVE StepShape
  <2>1. UNCHANGED <<floor, deletedTo, gens>> /\ (Keeps \/ Decides(t))
    BY <1>0, <1>2, FinalizeEffect
  <2>2. QED
    BY <1>0, <2>1 DEF StepShape
<1>3. ASSUME NEW s \in Sealers, DrainCall(s) PROVE StepShape
  <2>1. UNCHANGED <<rows, last, deletedTo, revision>> /\ floor' >= floor
    BY <1>0, <1>3, DrainCallEffect
  <2>2. PICK g \in Gen, n \in Generation :
              /\ gens' = [gens EXCEPT ![g] = n]
              /\ n = gens[g] \/ (Resets(g, n) /\ n.cutoff <= floor')
    BY <1>0, <1>3, DrainCallEffect
  <2>3. Keeps
    BY <1>0, <2>1, KeepsAll
  <2>4. ASSUME NEW h \in Gen PROVE gens'[h] = gens[h] \/ Turns(h)
    <3>1. gens'[h] = IF h = g THEN n ELSE gens[h]
      BY <1>0, <2>2
    <3>2. QED
      BY <2>1, <2>2, <3>1 DEF Turns
  <2>5. QED
    BY <1>0, <2>1, <2>3, <2>4 DEF StepShape
<1>4. ASSUME NEW s \in Sealers, DigestBatch(s) PROVE StepShape
  <2>1. UNCHANGED <<rows, bucketVars>>
    BY <1>0, <1>4, DigestEffect
  <2>2. PICK g \in Gen, n \in Generation :
          gens' = [gens EXCEPT ![g] = n] /\ (n = gens[g] \/ Grows(g, n))
    BY <1>0, <1>4, DigestEffect
  <2>3. Keeps
    BY <1>0, <2>1, KeepsAll DEF bucketVars
  <2>4. ASSUME NEW h \in Gen PROVE gens'[h] = gens[h] \/ Turns(h)
    <3>1. gens'[h] = IF h = g THEN n ELSE gens[h]
      BY <1>0, <2>2
    <3>2. QED
      BY <2>1, <2>2, <3>1 DEF Turns, bucketVars
  <2>5. QED
    BY <1>0, <2>1, <2>3, <2>4 DEF StepShape, bucketVars
<1>5. ASSUME NEW s \in Sealers, PublishReceipt(s) PROVE StepShape
  <2>1. UNCHANGED <<rows, floor, last, deletedTo, revision>>
    BY <1>0, <1>5, ReceiptEffect
  <2>2. PICK g \in Gen, n \in Generation :
          gens' = [gens EXCEPT ![g] = n] /\ (n = gens[g] \/ Seals(g, n))
    BY <1>0, <1>5, ReceiptEffect
  <2>3. Keeps
    BY <1>0, <2>1, KeepsAll
  <2>4. ASSUME NEW h \in Gen PROVE gens'[h] = gens[h] \/ Turns(h)
    <3>1. gens'[h] = IF h = g THEN n ELSE gens[h]
      BY <1>0, <2>2
    <3>2. QED
      BY <2>1, <2>2, <3>1 DEF Turns
  <2>5. QED
    BY <1>0, <2>1, <2>3, <2>4 DEF StepShape
<1>6. CASE \/ \E g \in Gen, from \in Cutoffs : LocalPage(g, from)
           \/ PageRefused \/ Tick \/ Restart \/ UNCHANGED vars
  <2>1. UNCHANGED <<rows, bucketVars, gens>>
    BY <1>6 DEF LocalPage, PageRefused, Tick, Restart, vars
  <2>2. Keeps
    BY <1>0, <2>1, KeepsAll DEF bucketVars
  <2>3. QED
    BY <1>0, <2>1, <2>2 DEF StepShape, bucketVars
<1>7. CASE SweepStart
  <2>1. UNCHANGED bucketVars /\ Keeps /\ GensExpire
    BY <1>0, <1>7, SweepStartEffect
  <2>2. QED
    BY <1>0, <2>1 DEF StepShape, GensExpire, GenExpires, bucketVars
<1>8. CASE SweepFinish
  <2>1. /\ UNCHANGED <<floor, last, revision, gens>> /\ deletedTo' >= deletedTo
        /\ rows' \in [Txs -> Row] /\ \A u \in Txs : rows'[u] = rows[u] \/ Takes(u)
    BY <1>0, <1>8, SweepFinishEffect
  <2>2. Drops
    BY <2>1 DEF Drops
  <2>3. QED
    BY <1>0, <2>1, <2>2 DEF StepShape
<1>9. QED
  BY <1>1, <1>2, <1>3, <1>4, <1>5, <1>6, <1>7, <1>8, StepIs

\* A decision stays, or retention takes it while nothing drains.
Stays(u) ==
  \/ rows'[u].state = "FINALIZED" /\ rows'[u].decided = rows[u].decided
  \/ rows[u].decided <= deletedTo' /\ ~Draining

\* A decision was there before, with no less evidence, or it is new and later
\* than everything.
WasOrIsNew(u) ==
  \/ /\ rows[u].state = "FINALIZED" /\ rows'[u].decided = rows[u].decided
     /\ rows[u].rec => rows'[u].rec
     /\ revision' = revision /\ rows'[u].q = "UNRESOLVED" => rows[u].q = "UNRESOLVED"
  \/ /\ rows[u].state = "RESERVED" /\ rows'[u].q # "UNRESOLVED"
     /\ rows'[u].decided > floor /\ rows'[u].decided > last
     /\ rows'[u].decided = last'

\* How a step moves the log, read from either side.
LEMMA RowMoves ==
  ASSUME StoredTypes, RowsTrue, Keeps \/ Drops \/ \E t \in Txs : Decides(t)
  PROVE  /\ revision' >= revision /\ last' >= last /\ rows' \in [Txs -> Row]
         /\ \A u \in Txs : rows[u].state = "FINALIZED" => Stays(u)
         /\ \A u \in Txs : rows'[u].state = "FINALIZED" => WasOrIsNew(u)
         /\ \A u \in Txs : rows'[u].rec => rows'[u].state = "FINALIZED"
         /\ \A u \in Txs : rows'[u].decided <= last'
         /\ \A u, v \in Txs :
              rows'[u].state = "FINALIZED" /\ rows'[u].decided > last
              /\ rows'[v].state = "FINALIZED" /\ rows'[v].decided > last => u = v
<1>0. /\ revision \in Nat /\ last \in Nat /\ rows \in [Txs -> Row]
      /\ \A u \in Txs : rows[u].decided \in Nat /\ rows[u].decided <= last
      /\ \A u \in Txs : rows[u].rec => rows[u].state = "FINALIZED"
  BY Shapes DEF StoredTypes, RowsTrue
<1>1. CASE Keeps
  <2>1. /\ last' = last /\ rows' \in [Txs -> Row] /\ revision' >= revision
        /\ \A u \in Txs : RowKeeps(rows[u], rows'[u])
        /\ revision' = revision => \A u \in Txs : ~Disputes(rows[u], rows'[u])
    BY <1>1 DEF Keeps
  <2>2. ASSUME NEW u \in Txs
        PROVE  /\ rows[u].state = "FINALIZED" => Stays(u)
               /\ rows'[u].state = "FINALIZED" => WasOrIsNew(u)
               /\ rows'[u].rec => rows'[u].state = "FINALIZED"
               /\ rows'[u].decided <= last
    <3>1. RowKeeps(rows[u], rows'[u])
            /\ (revision' = revision => ~Disputes(rows[u], rows'[u]))
      BY <2>1
    <3>2. rows[u].state = "FINALIZED" => Stays(u)
      BY <3>1 DEF RowKeeps, Stays
    <3>3. rows'[u].state = "FINALIZED" => WasOrIsNew(u)
      BY <3>1 DEF RowKeeps, WasOrIsNew, Disputes
    <3>4. rows'[u].rec => rows'[u].state = "FINALIZED"
      BY <3>1 DEF RowKeeps
    <3>5. rows'[u].decided \in Nat /\ rows'[u].decided <= rows[u].decided
      BY <2>1, <3>1 DEF RowKeeps, Row
    <3>6. rows'[u].decided <= last
      BY <1>0, <3>5
    <3>7. QED
      BY <3>2, <3>3, <3>4, <3>6
  <2>3. \A u \in Txs : ~(rows'[u].decided > last)
    <3> TAKE u \in Txs
    <3>1. rows'[u].decided \in Nat /\ rows'[u].decided <= last
      BY <2>1, <2>2 DEF Row
    <3>2. QED
      BY <1>0, <3>1
  <2>4. QED
    BY <1>0, <2>1, <2>2, <2>3
<1>2. CASE Drops
  <2>1. /\ last' = last /\ revision' = revision /\ rows' \in [Txs -> Row]
        /\ \A u \in Txs : rows'[u] = rows[u] \/ Takes(u)
    BY <1>2 DEF Drops
  <2>2. NoRow.state = "none" /\ NoRow.decided = 0 /\ NoRow.rec = FALSE
    BY DEF NoRow
  <2>3. ASSUME NEW u \in Txs
        PROVE  /\ rows[u].state = "FINALIZED" => Stays(u)
               /\ rows'[u].state = "FINALIZED" => WasOrIsNew(u)
               /\ rows'[u].rec => rows'[u].state = "FINALIZED"
               /\ rows'[u].decided <= last
    <3>1. CASE rows'[u] = rows[u]
      BY <1>0, <3>1 DEF Stays, WasOrIsNew
    <3>2. CASE Takes(u)
      <4>1. rows'[u] = NoRow /\ rows[u].decided <= deletedTo' /\ ~Draining
        BY <3>2 DEF Takes
      <4>2. QED
        BY <1>0, <2>2, <4>1 DEF Stays
    <3>3. QED
      BY <2>1, <3>1, <3>2
  <2>4. \A u \in Txs : ~(rows'[u].decided > last)
    <3> TAKE u \in Txs
    <3>1. rows'[u].decided \in Nat /\ rows'[u].decided <= last
      BY <2>1, <2>3 DEF Row
    <3>2. QED
      BY <1>0, <3>1
  <2>5. QED
    BY <1>0, <2>1, <2>3, <2>4
<1>3. ASSUME NEW t \in Txs, Decides(t)
      PROVE  /\ revision' >= revision /\ last' >= last /\ rows' \in [Txs -> Row]
             /\ \A u \in Txs : rows[u].state = "FINALIZED" => Stays(u)
             /\ \A u \in Txs : rows'[u].state = "FINALIZED" => WasOrIsNew(u)
             /\ \A u \in Txs : rows'[u].rec => rows'[u].state = "FINALIZED"
             /\ \A u \in Txs : rows'[u].decided <= last'
             /\ \A u, v \in Txs :
                  rows'[u].state = "FINALIZED" /\ rows'[u].decided > last
                  /\ rows'[v].state = "FINALIZED" /\ rows'[v].decided > last => u = v
  <2> DEFINE d == DecisionTime
  <2>1. d \in Nat /\ d > last /\ d > floor
    BY Shapes, DecisionIsLater DEF StoredTypes
  <2> HIDE DEF d
  <2>2. PICK r \in Row :
          /\ rows' = [rows EXCEPT ![t] = r] /\ r.state = "FINALIZED" /\ r.decided = d
          /\ ~r.rec /\ r.q # "UNRESOLVED"
    BY <1>3 DEF Decides, d
  <2>3. rows[t].state = "RESERVED" /\ last' = d /\ revision' = revision
    BY <1>3 DEF Decides, d
  <2>4. rows' \in [Txs -> Row] /\ \A u \in Txs : rows'[u] = IF u = t THEN r ELSE rows[u]
    BY <1>0, <2>2
  <2>5. ASSUME NEW u \in Txs
        PROVE  /\ rows[u].state = "FINALIZED" => Stays(u)
               /\ rows'[u].state = "FINALIZED" => WasOrIsNew(u)
               /\ rows'[u].rec => rows'[u].state = "FINALIZED"
               /\ rows'[u].decided <= last'
               /\ rows'[u].decided > last => u = t
    <3>1. CASE u = t
      BY <2>1, <2>2, <2>3, <2>4, <3>1 DEF WasOrIsNew
    <3>2. CASE u # t
      <4>1. rows'[u] = rows[u]
        BY <2>4, <3>2
      <4>2. rows[u].decided \in Nat /\ rows[u].decided <= last
              /\ (rows[u].rec => rows[u].state = "FINALIZED")
        BY <1>0
      <4>3. rows[u].decided <= last' /\ ~(rows[u].decided > last)
        BY <1>0, <2>1, <2>3, <4>2
      <4>4. QED
        BY <4>1, <4>2, <4>3 DEF Stays, WasOrIsNew
    <3>3. QED
      BY <3>1, <3>2
  <2>6. last' >= last /\ revision' >= revision
    BY <1>0, <2>1, <2>3
  <2>7. QED
    BY <2>4, <2>5, <2>6
<1>4. QED
  BY <1>1, <1>2, <1>3

-----------------------------------------------------------------------------
(* Every step keeps the invariant.                                         *)

\* Decision times stay unique and above 0.
LEMMA RowsTrueStep ==
  ASSUME BucketInv, [Next]_vars
  PROVE  RowsTrue'
<1>0. StoredTypes /\ RowsTrue /\ StepShape /\ last \in Nat
  BY StepHasShape DEF BucketInv, StoredTypes
<1>1. /\ rows' \in [Txs -> Row]
      /\ \A u \in Txs : rows'[u].state = "FINALIZED" => WasOrIsNew(u)
      /\ \A u \in Txs : rows'[u].rec => rows'[u].state = "FINALIZED"
      /\ \A u \in Txs : rows'[u].decided <= last'
      /\ \A u, v \in Txs :
           rows'[u].state = "FINALIZED" /\ rows'[u].decided > last
           /\ rows'[v].state = "FINALIZED" /\ rows'[v].decided > last => u = v
  BY <1>0, RowMoves DEF StepShape
<1>2. \A u \in Txs : rows[u].decided \in Nat /\ rows[u].decided <= last
                     /\ (rows[u].state = "FINALIZED" => rows[u].decided > 0)
  BY <1>0, Shapes DEF RowsTrue
<1>3. \A u \in Txs : rows'[u].decided \in Nat
  BY <1>1 DEF Row
<1>4. ASSUME NEW u \in Txs, rows'[u].state = "FINALIZED" PROVE rows'[u].decided > 0
  BY <1>0, <1>1, <1>2, <1>3, <1>4 DEF WasOrIsNew
<1>5. ASSUME NEW u \in Txs, NEW v \in Txs, rows'[u].state = "FINALIZED",
             rows'[v].state = "FINALIZED", rows'[u].decided = rows'[v].decided
      PROVE  u = v
  <2>1. CASE rows'[u].decided > last
    BY <1>1, <1>5, <2>1
  <2>2. CASE ~(rows'[u].decided > last)
    <3>1. /\ rows[u].state = "FINALIZED" /\ rows'[u].decided = rows[u].decided
          /\ rows[v].state = "FINALIZED" /\ rows'[v].decided = rows[v].decided
      BY <1>1, <1>5, <2>2 DEF WasOrIsNew
    <3>2. QED
      BY <1>0, <1>5, <3>1 DEF RowsTrue
  <2>3. QED
    BY <2>1, <2>2
<1>6. QED
  BY <1>1, <1>4, <1>5 DEF RowsTrue

\* What a generation has digested stays held, or is taken by retention after
\* it was sealed; and nothing is decided up to its cutoff.
LEMMA GenTrueStep ==
  ASSUME BucketInv, [Next]_vars, NEW g \in Gen
  PROVE  GenTrue(g)'
<1>0. /\ StoredTypes /\ RowsTrue /\ StepShape /\ GenTrue(g)
      /\ floor \in Nat /\ deletedTo \in Nat /\ floor' \in Nat /\ deletedTo' \in Nat
      /\ gens[g] \in Generation /\ gens[g].digest \in Seq(Entry) /\ gens[g].cutoff \in Nat
  BY StepHasShape, TypesStep, Shapes DEF BucketInv, StoredTypes
<1>1. /\ floor' >= floor /\ deletedTo' >= deletedTo
      /\ gens'[g] = gens[g] \/ Turns(g) \/ GenExpires(g)
  BY <1>0 DEF StepShape
<1>2. /\ rows' \in [Txs -> Row]
      /\ \A u \in Txs : rows[u].state = "FINALIZED" => Stays(u)
      /\ \A u \in Txs : rows'[u].state = "FINALIZED" => WasOrIsNew(u)
      /\ \A u \in Txs : rows[u].decided \in Nat
  BY <1>0, RowMoves, Shapes DEF StepShape
<1>3. \A e \in ToSet(gens[g].digest) : e \in Entry /\ e.tx \in Txs /\ e.at \in Nat
  <2>1. \A e \in ToSet(gens[g].digest) : e \in Entry
    BY <1>0, LenProperties, ElementOfSeq DEF ToSet
  <2>2. QED
    BY <2>1 DEF Entry
<1>4. CASE gens'[g] = gens[g]
  <2> DEFINE c == gens[g].cutoff
             D == ToSet(gens[g].digest)
  <2>1. gens[g].status \in {"DRAINING", "COMPLETE", "QUARANTINED"} => c <= floor'
    BY <1>0, <1>1 DEF GenTrue
  <2>2. ASSUME gens[g].status = "DRAINING", NEW e \in D
        PROVE  rows'[e.tx].state = "FINALIZED" /\ rows'[e.tx].decided = e.at /\ e.at <= c
    <3>1. rows[e.tx].state = "FINALIZED" /\ rows[e.tx].decided = e.at /\ e.at <= c
      BY <1>0, <2>2 DEF GenTrue, InForce
    <3>2. Stays(e.tx) /\ Draining
      BY <1>2, <1>3, <2>2, <3>1 DEF Draining
    <3>3. QED
      BY <3>1, <3>2 DEF Stays
  <2>3. ASSUME gens[g].status = "COMPLETE", NEW e \in D
        PROVE  /\ e.at > 0
               /\ \/ rows'[e.tx].state = "FINALIZED" /\ rows'[e.tx].decided = e.at /\ e.at <= c
                  \/ e.at <= deletedTo'
    <3>1. e.at > 0 /\ (InForce(e, c) \/ e.at <= deletedTo)
      BY <1>0, <2>3 DEF GenTrue
    <3>2. CASE e.at <= deletedTo
      <4>1. e.at <= deletedTo'
        BY <1>0, <1>1, <1>3, <3>2
      <4>2. QED
        BY <3>1, <4>1
    <3>3. CASE InForce(e, c)
      <4>1. rows[e.tx].state = "FINALIZED" /\ rows[e.tx].decided = e.at /\ e.at <= c
        BY <3>3 DEF InForce
      <4>2. Stays(e.tx)
        BY <1>2, <1>3, <4>1
      <4>3. QED
        BY <3>1, <4>1, <4>2 DEF Stays
    <3>4. QED
      BY <3>1, <3>2, <3>3
  <2>4. ASSUME gens[g].status = "COMPLETE", NEW t \in Txs,
               rows'[t].state = "FINALIZED", rows'[t].decided <= c
        PROVE  rows'[t].rec /\ \E e \in D : e.tx = t /\ e.at = rows'[t].decided
    <3>1. c <= floor
      BY <1>0, <2>4 DEF GenTrue
    <3>2. rows'[t].decided \in Nat
      BY <1>2 DEF Row
    <3>3. ~(rows'[t].decided > floor)
      BY <1>0, <2>4, <3>1, <3>2
    <3>4. rows[t].state = "FINALIZED" /\ rows'[t].decided = rows[t].decided
            /\ (rows[t].rec => rows'[t].rec)
      BY <1>2, <2>4, <3>3 DEF WasOrIsNew
    <3>5. t \in Members(c)
      BY <2>4, <3>4 DEF Members
    <3>6. rows[t].rec /\ \E e \in D : e.tx = t /\ e.at = rows[t].decided
      BY <1>0, <2>4, <3>5 DEF GenTrue
    <3>7. QED
      BY <3>4, <3>6
  <2>5. gens[g].status \in {"DRAINING", "COMPLETE"} => Sorted(gens[g].digest)
    BY <1>0 DEF GenTrue
  <2>6. QED
    BY <1>4, <2>1, <2>2, <2>3, <2>4, <2>5 DEF GenTrue, InForce, Members
<1>5. CASE Turns(g)
  <2>1. rows' = rows
    BY <1>5 DEF Turns
  <2>2. CASE Resets(g, gens'[g]) /\ gens'[g].cutoff <= floor'
    <3>1. /\ gens'[g].status \in {"DRAINING", "QUARANTINED"}
          /\ gens'[g].status = "DRAINING" => gens'[g].digest = <<>>
      BY <2>2 DEF Resets
    <3>2. Sorted(<<>>) /\ ToSet(<<>>) = {}
      BY DEF Sorted, ToSet
    <3>3. QED
      BY <2>2, <3>1, <3>2 DEF GenTrue
  <2>3. CASE Grows(g, gens'[g])
    <3>1. /\ gens'[g].status = "DRAINING" /\ gens'[g].cutoff = gens[g].cutoff
          /\ Sorted(gens'[g].digest) /\ gens[g].status = "DRAINING"
          /\ \A e \in ToSet(gens'[g].digest) : InForce(e, gens'[g].cutoff)
      BY <2>3 DEF Grows
    <3>2. gens'[g].cutoff <= floor'
      BY <1>0, <1>1, <3>1 DEF GenTrue
    <3>3. QED
      BY <2>1, <3>1, <3>2 DEF GenTrue, InForce
  <2>4. CASE Seals(g, gens'[g])
    <3>1. /\ gens'[g].status = "COMPLETE" /\ gens'[g].cutoff = gens[g].cutoff
          /\ gens'[g].digest = gens[g].digest /\ gens[g].status = "DRAINING"
          /\ \A t \in Members(gens'[g].cutoff) :
               /\ rows[t].rec
               /\ \E e \in ToSet(gens'[g].digest) : e.tx = t /\ e.at = rows[t].decided
      BY <2>4 DEF Seals
    <3>2. gens'[g].cutoff <= floor'
      BY <1>0, <1>1, <3>1 DEF GenTrue
    <3>3. /\ Sorted(gens[g].digest)
          /\ \A e \in ToSet(gens[g].digest) : InForce(e, gens[g].cutoff)
      BY <1>0, <3>1 DEF GenTrue
    <3>4. \A e \in ToSet(gens[g].digest) : e.at > 0
      BY <1>0, <1>3, <3>3 DEF InForce, RowsTrue
    <3>5. QED
      BY <2>1, <3>1, <3>2, <3>3, <3>4 DEF GenTrue, InForce, Members
  <2>5. QED
    BY <1>5, <2>2, <2>3, <2>4 DEF Turns
<1>6. CASE GenExpires(g)
  BY <1>6 DEF GenExpires, GenTrue
<1>7. QED
  BY <1>1, <1>4, <1>5, <1>6

\* A seal step that just read its batch.
Fresh(s) ==
  /\ rows' = rows /\ revision' = revision
  /\ \E g \in Gen, n \in Generation, b \in Seq(Entry) :
       /\ sealer'[s] = [phase |-> "digest", gen |-> g, seen |-> n, batch |-> b]
       /\ gens'[g] = n /\ n.status = "DRAINING" /\ ~Disputed(n.cutoff)
       /\ n.rev = revision /\ BatchTrue(b, n)

\* A seal step waits, ends, or is fresh.
LEMMA SealerShape ==
  ASSUME BucketInv, [Next]_vars, NEW s \in Sealers
  PROVE  sealer'[s] = sealer[s] \/ sealer'[s].phase # "digest" \/ Fresh(s)
<1>0. /\ StoredTypes /\ CallTypes /\ RowsTrue /\ \A g \in Gen : GenTrue(g)
      /\ \A r \in Sealers : SealerTrue(r)
      /\ sweep.on => sweep.at <= now
      /\ sealer \in [Sealers -> Sealer] /\ gens \in [Gen -> Generation]
  BY DEF BucketInv, CallTypes, StoredTypes
<1>1. ASSUME NEW t \in Txs, RowCall(t) PROVE sealer' = sealer
  BY <1>0, <1>1, RowCallFrame
<1>2. ASSUME NEW t \in Txs, Finalize(t) PROVE sealer' = sealer
  BY <1>2 DEF Finalize
<1>3. ASSUME NEW r \in Sealers, DrainCall(r)
      PROVE  sealer'[s] = sealer[s] \/ Fresh(s)
  <2>1. UNCHANGED <<rows, revision>>
    BY <1>0, <1>3, DrainCallEffect
  <2>2. PICK g \in Gen, n \in Generation :
              /\ gens' = [gens EXCEPT ![g] = n]
              /\ \/ sealer' = sealer
                 \/ /\ n.status = "DRAINING" /\ ~Disputed(n.cutoff) /\ n.rev = revision
                    /\ \E b \in Seq(Entry) :
                         /\ sealer' = [sealer EXCEPT ![r] =
                              [phase |-> "digest", gen |-> g, seen |-> n, batch |-> b]]
                         /\ BatchTrue(b, n)
    BY <1>0, <1>3, DrainCallEffect
  <2>3. CASE sealer' = sealer
    BY <2>3
  <2>4. CASE sealer' # sealer
    <3>1. PICK b \in Seq(Entry) :
            /\ sealer' = [sealer EXCEPT ![r] =
                            [phase |-> "digest", gen |-> g, seen |-> n, batch |-> b]]
            /\ BatchTrue(b, n)
      BY <2>2, <2>4
    <3>2. n.status = "DRAINING" /\ ~Disputed(n.cutoff) /\ n.rev = revision /\ gens'[g] = n
      BY <1>0, <2>2, <2>4
    <3>3. CASE s = r
      <4>1. sealer'[s] = [phase |-> "digest", gen |-> g, seen |-> n, batch |-> b]
        BY <1>0, <3>1, <3>3
      <4>2. QED
        BY <2>1, <3>1, <3>2, <4>1 DEF Fresh
    <3>4. CASE s # r
      BY <1>0, <3>1, <3>4
    <3>5. QED
      BY <3>3, <3>4
  <2>5. QED
    BY <2>3, <2>4
<1>4. ASSUME NEW r \in Sealers, DigestBatch(r)
      PROVE  sealer'[s] = sealer[s] \/ sealer'[s].phase # "digest"
  <2>1. PICK w \in Sealer : w.phase # "digest" /\ sealer' = [sealer EXCEPT ![r] = w]
    BY <1>0, <1>4, DigestEffect
  <2>2. QED
    BY <1>0, <2>1
<1>5. ASSUME NEW r \in Sealers, PublishReceipt(r)
      PROVE  sealer'[s] = sealer[s] \/ sealer'[s].phase # "digest"
  <2>1. sealer' = [sealer EXCEPT ![r] = IdleSealer]
    BY <1>0, <1>5, ReceiptEffect
  <2>2. QED
    BY <1>0, <2>1, IdleTypes
<1>6. CASE \/ \E g \in Gen, from \in Cutoffs : LocalPage(g, from)
           \/ PageRefused \/ Tick \/ SweepStart \/ SweepFinish \/ UNCHANGED vars
  BY <1>6 DEF LocalPage, PageRefused, Tick, SweepStart, SweepFinish, vars, fiberVars
<1>7. CASE Restart
  BY <1>7, IdleTypes DEF Restart
<1>8. QED
  BY <1>1, <1>2, <1>3, <1>4, <1>5, <1>6, <1>7, StepIs

\* A batch stays what follows its cursor, until something contradicts it.
LEMMA SealerTrueStep ==
  ASSUME BucketInv, [Next]_vars, NEW s \in Sealers
  PROVE  SealerTrue(s)'
<1>0. /\ StoredTypes /\ RowsTrue /\ StepShape /\ SealerTrue(s)
      /\ revision \in Nat /\ revision' \in Nat
      /\ sealer[s] \in Sealer /\ sealer[s].gen \in Gen /\ sealer[s].batch \in Seq(Entry)
      /\ sealer[s].seen.rev \in Nat
  BY StepHasShape, TypesStep DEF BucketInv, StoredTypes, CallTypes, Sealer, Generation
<1>1. CASE sealer'[s].phase # "digest"
  BY <1>1 DEF SealerTrue
<1>2. CASE sealer'[s] = sealer[s] /\ sealer[s].phase = "digest"
  <2> DEFINE g == sealer[s].gen
             seen == sealer[s].seen
             B == ToSet(sealer[s].batch)
  <2>1. /\ gens[g].status # "none" /\ seen.rev <= revision
        /\ seen.rev = revision =>
             /\ gens[g].status # "QUARANTINED"
             /\ gens[g].status = "DRAINING" =>
                  /\ ~Disputed(gens[g].cutoff)
                  /\ Sorted(sealer[s].batch)
                  /\ \A e \in B : InForce(e, gens[g].cutoff) /\ e.at > CursorOf(seen.digest)
    BY <1>0, <1>2 DEF SealerTrue
  <2>2. gens'[g] = gens[g] \/ Turns(g) \/ GenExpires(g)
    BY <1>0 DEF StepShape
  <2>3. /\ revision' >= revision
        /\ \A u \in Txs : rows[u].state = "FINALIZED" => Stays(u)
        /\ \A u \in Txs : rows'[u].state = "FINALIZED" => WasOrIsNew(u)
    BY <1>0, RowMoves DEF StepShape
  <2>4. gens'[g].status # "none" /\ seen.rev <= revision'
    <3>1. seen.rev <= revision'
      BY <1>0, <2>1, <2>3
    <3>2. gens'[g].status # "none"
      BY <2>1, <2>2 DEF Turns, GenExpires, Resets, Grows, Seals
    <3>3. QED
      BY <3>1, <3>2
  <2>5. ASSUME seen.rev = revision'
        PROVE  /\ gens'[g].status # "QUARANTINED"
               /\ gens'[g].status = "DRAINING" =>
                    gens[g].status = "DRAINING" /\ gens'[g].cutoff = gens[g].cutoff
               /\ revision' = revision
    <3>1. revision' = revision /\ seen.rev = revision
      BY <1>0, <2>1, <2>3, <2>5
    <3>2. /\ gens[g].status # "QUARANTINED"
          /\ gens[g].status = "DRAINING" => ~Disputed(gens[g].cutoff)
      BY <2>1, <3>1
    <3>3. QED
      BY <2>1, <2>2, <3>1, <3>2 DEF Turns, GenExpires, Resets, Grows, Seals
  <2>6. ASSUME seen.rev = revision', gens'[g].status = "DRAINING"
        PROVE  /\ \A t \in Txs : ~(/\ rows'[t].state = "FINALIZED"
                                   /\ rows'[t].decided <= gens'[g].cutoff
                                   /\ rows'[t].q = "UNRESOLVED")
               /\ Sorted(sealer[s].batch)
               /\ \A e \in B : /\ rows'[e.tx].state = "FINALIZED"
                               /\ rows'[e.tx].decided = e.at /\ e.at <= gens'[g].cutoff
                               /\ e.at > CursorOf(seen.digest)
    <3>1. /\ gens[g].status = "DRAINING" /\ gens'[g].cutoff = gens[g].cutoff
          /\ revision' = revision
      BY <2>5, <2>6
    <3>2. /\ ~Disputed(gens[g].cutoff)
          /\ Sorted(sealer[s].batch)
          /\ \A e \in B : InForce(e, gens[g].cutoff) /\ e.at > CursorOf(seen.digest)
      BY <2>1, <2>6, <3>1
    <3>3. ASSUME NEW t \in Txs, rows'[t].state = "FINALIZED",
                 rows'[t].decided <= gens'[g].cutoff, rows'[t].q = "UNRESOLVED"
          PROVE  FALSE
      <4>1. rows[t].state = "FINALIZED" /\ rows'[t].decided = rows[t].decided
              /\ rows[t].q = "UNRESOLVED"
        BY <2>3, <3>1, <3>3 DEF WasOrIsNew
      <4>2. QED
        BY <3>1, <3>2, <3>3, <4>1 DEF Disputed, Members, Unresolved
    <3>4. ASSUME NEW e \in B
          PROVE  /\ rows'[e.tx].state = "FINALIZED"
                 /\ rows'[e.tx].decided = e.at /\ e.at <= gens'[g].cutoff
                 /\ e.at > CursorOf(seen.digest)
      <4>1. e \in Entry
        BY <1>0, LenProperties, ElementOfSeq DEF ToSet
      <4>2. e.tx \in Txs
        BY <4>1 DEF Entry
      <4>3. /\ rows[e.tx].state = "FINALIZED" /\ rows[e.tx].decided = e.at
            /\ e.at <= gens[g].cutoff /\ e.at > CursorOf(seen.digest)
        BY <3>2 DEF InForce
      <4>4. Stays(e.tx) /\ Draining
        BY <1>0, <2>3, <3>1, <4>2, <4>3 DEF Draining
      <4>5. QED
        BY <3>1, <4>3, <4>4 DEF Stays
    <3>5. QED
      BY <3>2, <3>3, <3>4
  <2>7. sealer'[s].gen = g /\ sealer'[s].seen = seen /\ sealer'[s].batch = sealer[s].batch
    BY <1>2
  <2> HIDE DEF g, seen
  <2>8. QED
    BY <1>2, <2>4, <2>5, <2>6, <2>7 DEF SealerTrue, Disputed, Members, Unresolved, InForce
<1>3. CASE Fresh(s)
  <2>1. rows' = rows /\ revision' = revision
    BY <1>3 DEF Fresh
  <2>2. PICK g \in Gen, n \in Generation, b \in Seq(Entry) :
          /\ sealer'[s] = [phase |-> "digest", gen |-> g, seen |-> n, batch |-> b]
          /\ gens'[g] = n /\ n.status = "DRAINING" /\ ~Disputed(n.cutoff)
          /\ n.rev = revision /\ BatchTrue(b, n)
    BY <1>3 DEF Fresh
  <2>3. sealer'[s].gen = g /\ sealer'[s].seen = n /\ sealer'[s].batch = b
    BY <2>2
  <2>4. /\ Sorted(b)
        /\ \A e \in ToSet(b) : InForce(e, n.cutoff) /\ e.at > CursorOf(n.digest)
    BY <2>2 DEF BatchTrue
  <2>5. QED
    BY <1>0, <2>1, <2>2, <2>3, <2>4
       DEF SealerTrue, Disputed, Members, Unresolved, InForce
<1>4. QED
  BY <1>1, <1>2, <1>3, SealerShape

\* The rows that a readable range shows are the records of its seal.
LEMMA ShownIsSealed ==
  ASSUME StoredTypes, RowsTrue, NEW g \in Gen, GenTrue(g), NEW from \in Cutoffs,
         NEW after \in Nat, Readable(g, from, after)
  PROVE  RangeOf(g, from) = {RecordOf(EntryOf(t)) : t \in Shown(g, from)}
<1> DEFINE D == ToSet(gens[g].digest)
<1>1. /\ from \in Nat /\ deletedTo \in Nat
      /\ gens[g].digest \in Seq(Entry)
  BY Shapes, BucketAssumption DEF Readable, StoredTypes
<1>2. ToSet(Records(gens[g].digest)) = {RecordOf(e) : e \in D}
  BY <1>1, RecordsKeepOrder
<1>3. \A e \in D : e \in Entry /\ e.tx \in Txs /\ e.at \in Nat
  <2>1. \A e \in D : e \in Entry
    BY <1>1, LenProperties, ElementOfSeq DEF ToSet
  <2>2. QED
    BY <2>1 DEF Entry
<1>4. gens[g].status = "COMPLETE"
  BY DEF Readable
<1>5. deletedTo = 0 \/ from > deletedTo
  BY DEF Readable
<1>6. ASSUME NEW e \in D, e.at >= from
      PROVE  e.tx \in Shown(g, from) /\ RecordOf(e) = RecordOf(EntryOf(e.tx))
  <2>1. e.at > 0 /\ (InForce(e, gens[g].cutoff) \/ e.at <= deletedTo)
    BY <1>4, <1>6 DEF GenTrue
  <2>2. ~(e.at <= deletedTo)
    BY <1>1, <1>3, <1>5, <1>6, <2>1
  <2>3. /\ rows[e.tx].state = "FINALIZED" /\ rows[e.tx].decided = e.at
        /\ e.at <= gens[g].cutoff
    BY <2>1, <2>2 DEF InForce
  <2>4. e.tx \in Members(gens[g].cutoff)
    BY <1>3, <2>3 DEF Members
  <2>5. rows[e.tx].rec
    BY <1>4, <2>4 DEF GenTrue
  <2>6. QED
    BY <1>6, <2>3, <2>4, <2>5 DEF Shown, InRange, RecordOf, EntryOf
<1>7. ASSUME NEW t \in Shown(g, from)
      PROVE  /\ EntryOf(t).at >= from
             /\ \E e \in D : RecordOf(e) = RecordOf(EntryOf(t))
  <2>1. t \in Members(gens[g].cutoff) /\ rows[t].decided >= from
    BY DEF Shown, InRange
  <2>2. PICK e \in D : e.tx = t /\ e.at = rows[t].decided
    BY <1>4, <2>1 DEF GenTrue
  <2>3. QED
    BY <2>1, <2>2 DEF RecordOf, EntryOf
<1>8. \A e : RecordOf(e).at = e.at
  BY DEF RecordOf
<1>9. ASSUME NEW r \in RangeOf(g, from)
      PROVE  r \in {RecordOf(EntryOf(t)) : t \in Shown(g, from)}
  <2>1. PICK e \in D : r = RecordOf(e) /\ r.at >= from
    BY <1>2, <1>9 DEF RangeOf
  <2>2. QED
    BY <1>6, <1>8, <2>1
<1>10. ASSUME NEW t \in Shown(g, from)
       PROVE  RecordOf(EntryOf(t)) \in RangeOf(g, from)
  <2>1. PICK e \in D : RecordOf(e) = RecordOf(EntryOf(t))
    BY <1>7
  <2>2. RecordOf(EntryOf(t)).at >= from
    BY <1>7, <1>8
  <2>3. QED
    BY <1>2, <2>1, <2>2 DEF RangeOf
<1>11. QED
  BY <1>9, <1>10

\* The records of a range up to a cursor.
UpToCursor(g, from, after) == {r \in RangeOf(g, from) : r.at <= after}

\* The next page of an enumeration goes on where it was.
LEMMA PageGoesOn ==
  ASSUME StoredTypes, CallTypes, RowsTrue, NEW g \in Gen, GenTrue(g), ReaderTrue,
         NEW from \in Cutoffs, LocalPage(g, from)
  PROVE  ReaderTrue'
<1>1. PICK after \in Nat, taken \in Seq(Entry), next \in Nat, done \in BOOLEAN :
           /\ after = IF reader.gen = 0 THEN 0 ELSE reader.after
           /\ Readable(g, from, after)
           /\ reader' = [gen |-> g, from |-> from, after |-> next, done |-> done,
                         want |-> RangeOf(g, from),
                         got |-> reader.got \o Records(taken)]
           /\ PageTaken(g, from, after, taken, next, done)
  BY PageEffect
<1>2. RangeOf(g, from) = {RecordOf(EntryOf(t)) : t \in Shown(g, from)}
  BY <1>1, ShownIsSealed
<1>3. /\ gens' = gens /\ ~reader.done
      /\ reader.gen = 0 \/ (reader.gen = g /\ reader.from = from)
  BY DEF LocalPage
<1>4. gens[g].status = "COMPLETE" /\ 0 \notin Gen
  BY <1>1 DEF Readable, Gen
<1>5. \A t \in Shown(g, from) : t \in Txs /\ rows[t].decided \in Nat /\ rows[t].decided > 0
                              /\ EntryOf(t).at = rows[t].decided
                              /\ RecordOf(EntryOf(t)).at = rows[t].decided
  BY Shapes DEF Shown, InRange, Members, EntryOf, RecordOf, RowsTrue
<1>6. ToSet(reader.got) = UpToCursor(g, from, after)
  <2>1. CASE reader.gen = 0
    <3>1. reader.got = <<>> /\ after = 0
      BY <1>1, <2>1 DEF ReaderTrue
    <3>2. ToSet(reader.got) = {}
      BY <3>1 DEF ToSet
    <3>3. \A r \in RangeOf(g, from) : ~(r.at <= after)
      BY <1>2, <1>5, <3>1
    <3>4. QED
      BY <3>2, <3>3 DEF UpToCursor
  <2>2. CASE reader.gen # 0
    <3>1. reader.gen = g /\ reader.from = from /\ after = reader.after
      BY <1>1, <1>3, <2>2
    <3>2. ToSet(reader.got) = {r \in ToSet(Records(gens[reader.gen].digest)) :
                                 r.at >= reader.from /\ r.at <= reader.after}
      BY <1>3, <1>4, <2>2, <3>1 DEF ReaderTrue
    <3>3. QED
      BY <3>1, <3>2 DEF UpToCursor, RangeOf
  <2>3. QED
    BY <2>1, <2>2
<1> DEFINE P == Records(taken)
<1>7. /\ Sorted(taken)
      /\ \A e \in ToSet(taken) : \E t \in After(Shown(g, from), after) : e = EntryOf(t)
      /\ ~done => next > after /\ \A e \in ToSet(taken) : e.at <= next
      /\ \A t \in After(Shown(g, from), after) :
           EntryOf(t) \in ToSet(taken) \/ (~done /\ rows[t].decided > next)
  BY <1>1 DEF PageTaken
<1>8. P \in Seq(Record) /\ Sorted(P) /\ ToSet(P) = {RecordOf(e) : e \in ToSet(taken)}
  BY <1>7, RecordsKeepOrder
<1> HIDE DEF P
<1>9. reader.got \in Seq(Record) /\ Sorted(reader.got)
  BY DEF CallTypes, Reader, ReaderTrue
<1>10. \A r \in ToSet(P) : \E t \in Shown(g, from) :
         /\ r = RecordOf(EntryOf(t)) /\ EntryOf(t) \in ToSet(taken)
         /\ r.at = rows[t].decided /\ rows[t].decided > after
  <2> TAKE r \in ToSet(P)
  <2>1. PICK e \in ToSet(taken) : r = RecordOf(e)
    BY <1>8
  <2>2. PICK t \in After(Shown(g, from), after) : e = EntryOf(t)
    BY <1>7
  <2>3. t \in Shown(g, from) /\ rows[t].decided > after
    BY DEF After
  <2>4. QED
    BY <1>5, <2>1, <2>2, <2>3
<1>11. \A x \in ToSet(reader.got), y \in ToSet(P) : x.at < y.at
  <2> TAKE x \in ToSet(reader.got), y \in ToSet(P)
  <2>1. x.at <= after /\ x \in RangeOf(g, from)
    BY <1>6 DEF UpToCursor
  <2>2. x.at \in Nat
    BY <1>2, <1>5, <2>1
  <2>3. y.at \in Nat /\ y.at > after
    BY <1>5, <1>10
  <2>4. QED
    BY <2>1, <2>2, <2>3
<1>12. /\ Sorted(reader.got \o P)
       /\ ToSet(reader.got \o P) = ToSet(reader.got) \cup ToSet(P)
  BY <1>8, <1>9, <1>11, ConcatIsSorted
<1>13. /\ reader'.gen = g /\ reader'.from = from /\ reader'.after = next
       /\ reader'.done = done /\ reader'.want = RangeOf(g, from)
       /\ reader'.got = reader.got \o P
  BY <1>1 DEF P
<1>14. ASSUME NEW t \in Shown(g, from), done \/ rows[t].decided <= next
       PROVE  RecordOf(EntryOf(t)) \in ToSet(reader.got \o P)
  <2>1. CASE rows[t].decided <= after
    <3>1. RecordOf(EntryOf(t)) \in UpToCursor(g, from, after)
      BY <1>2, <1>5, <2>1 DEF UpToCursor
    <3>2. QED
      BY <1>6, <1>12, <3>1
  <2>2. CASE ~(rows[t].decided <= after)
    <3>1. t \in After(Shown(g, from), after)
      BY <1>5, <2>2 DEF After
    <3>2. ~(~done /\ rows[t].decided > next)
      BY <1>5, <1>14
    <3>3. EntryOf(t) \in ToSet(taken)
      BY <1>7, <3>1, <3>2
    <3>4. QED
      BY <1>8, <1>12, <3>3
  <2>3. QED
    BY <2>1, <2>2
<1>15. ASSUME NEW r \in ToSet(reader.got \o P)
       PROVE  r \in RangeOf(g, from) /\ (~done => r.at <= next)
  <2>1. CASE r \in ToSet(reader.got)
    <3>1. r \in RangeOf(g, from) /\ r.at <= after
      BY <1>6, <2>1 DEF UpToCursor
    <3>2. r.at \in Nat
      BY <1>2, <1>5, <3>1
    <3>3. ~done => r.at <= next
      BY <1>7, <3>1, <3>2
    <3>4. QED
      BY <3>1, <3>3
  <2>2. CASE r \in ToSet(P)
    <3>1. PICK t \in Shown(g, from) :
            /\ r = RecordOf(EntryOf(t)) /\ EntryOf(t) \in ToSet(taken)
            /\ r.at = rows[t].decided
      BY <1>10, <2>2
    <3>2. r \in RangeOf(g, from)
      BY <1>2, <3>1
    <3>3. ~done => r.at <= next
      BY <1>5, <1>7, <3>1
    <3>4. QED
      BY <3>2, <3>3
  <2>3. QED
    BY <1>12, <1>15, <2>1, <2>2
<1>16. done => ToSet(reader.got \o P) = RangeOf(g, from)
  BY <1>2, <1>14, <1>15
<1>17. ~done => ToSet(reader.got \o P) = {r \in RangeOf(g, from) : r.at <= next}
  <2> SUFFICES ASSUME ~done, NEW r \in RangeOf(g, from), r.at <= next
               PROVE  r \in ToSet(reader.got \o P)
    BY <1>15
  <2>1. PICK t \in Shown(g, from) : r = RecordOf(EntryOf(t))
    BY <1>2
  <2>2. rows[t].decided <= next
    BY <1>5, <2>1
  <2>3. QED
    BY <1>14, <2>1, <2>2
<1>18. RangeOf(g, from) = {r \in ToSet(Records(gens[g].digest)) : r.at >= from}
  BY DEF RangeOf
<1> DEFINE got == reader.got \o P
<1> HIDE DEF got
<1>19. /\ reader'.got = got /\ Sorted(got)
       /\ done => ToSet(got) = RangeOf(g, from)
       /\ \A r \in ToSet(got) : ~done => r.at <= next
       /\ ~done => ToSet(got) = {r \in ToSet(Records(gens[g].digest)) :
                                   r.at >= from /\ r.at <= next}
  BY <1>12, <1>13, <1>15, <1>16, <1>17, <1>18 DEF got
<1>20. QED
  BY <1>3, <1>4, <1>13, <1>19 DEF ReaderTrue

\* An enumeration keeps what it has; its seal stays, or expires with it.
LEMMA ReaderTrueStep ==
  ASSUME BucketInv, [Next]_vars
  PROVE  ReaderTrue'
<1>0. /\ StoredTypes /\ CallTypes /\ RowsTrue /\ \A g \in Gen : GenTrue(g)
      /\ ReaderTrue /\ StepShape /\ reader \in Reader
  BY StepHasShape DEF BucketInv, CallTypes
<1>1. ASSUME NEW g \in Gen, NEW from \in Cutoffs, LocalPage(g, from) PROVE ReaderTrue'
  BY <1>0, <1>1, PageGoesOn
<1>2. CASE PageRefused
  <2>1. reader' = IdleReader
    BY <1>2 DEF PageRefused
  <2>2. Sorted(<<>>) /\ ToSet(<<>>) = {}
    BY DEF Sorted, ToSet
  <2>3. QED
    BY <2>1, <2>2 DEF IdleReader, ReaderTrue
<1>3. CASE reader' = reader
  <2>1. CASE reader.gen = 0
    BY <1>0, <1>3, <2>1 DEF ReaderTrue
  <2>2. CASE reader.gen # 0
    <3>1. reader.gen \in Gen /\ gens[reader.gen].status \in {"COMPLETE", "deleted"}
      BY <1>0, <2>2 DEF Reader, ReaderTrue
    <3>2. gens'[reader.gen] = gens[reader.gen] \/ gens'[reader.gen].status = "deleted"
      BY <1>0, <3>1 DEF StepShape, Turns, GenExpires, Resets, Grows, Seals
    <3>3. QED
      BY <1>0, <1>3, <2>2, <3>1, <3>2 DEF ReaderTrue
  <2>3. QED
    BY <2>1, <2>2
<1>4. ASSUME NEW s \in Sealers, DrainCall(s) PROVE reader' = reader
  BY <1>0, <1>4, DrainCallEffect
<1>5. ASSUME NEW t \in Txs, RowCall(t) PROVE reader' = reader
  BY <1>0, <1>5, RowCallFrame
<1>6. QED
  BY <1>1, <1>2, <1>3, <1>4, <1>5, StepIs
     DEF Finalize, DigestBatch, PublishReceipt, SweepStart, SweepFinish, Tick, Restart, vars

-----------------------------------------------------------------------------
(* The theorems.                                                           *)

\* A bucket starts empty.
LEMMA InitInv == Init => BucketInv
<1> SUFFICES ASSUME Init PROVE BucketInv
  OBVIOUS
<1>1. /\ \A t \in Txs : rows[t] = NoRow
      /\ \A g \in Gen : gens[g] = NoGen
      /\ \A s \in Sealers : sealer[s] = IdleSealer
      /\ reader = IdleReader /\ sweep = IdleSweep /\ last = 0
  BY DEF Init
<1>2. NoRow.state = "none" /\ NoRow.decided = 0 /\ NoRow.rec = FALSE
  BY DEF NoRow
<1>3. RowsTrue
  BY <1>1, <1>2 DEF RowsTrue
<1>4. NoGen.status = "none"
  BY DEF NoGen
<1>5. \A g \in Gen : GenTrue(g)
  BY <1>1, <1>4 DEF GenTrue
<1>6. \A s \in Sealers : SealerTrue(s)
  BY <1>1, IdleTypes DEF SealerTrue
<1>7. ReaderTrue
  <2>1. Sorted(<<>>) /\ ToSet(<<>>) = {}
    BY DEF Sorted, ToSet
  <2>2. QED
    BY <1>1, <2>1 DEF IdleReader, ReaderTrue
<1>8. ~sweep.on
  BY <1>1, IdleTypes
<1>9. QED
  BY <1>3, <1>5, <1>6, <1>7, <1>8, InitTypes DEF BucketInv

\* Every step keeps the invariant.
LEMMA BucketInvStep == BucketInv /\ [Next]_vars => BucketInv'
<1> SUFFICES ASSUME BucketInv, [Next]_vars PROVE BucketInv'
  OBVIOUS
<1>1. StoredTypes' /\ CallTypes' /\ (sweep.on => sweep.at <= now)'
  BY TypesStep
<1>2. RowsTrue'
  BY RowsTrueStep
<1>3. \A g \in Gen : GenTrue(g)'
  BY GenTrueStep
<1>4. \A s \in Sealers : SealerTrue(s)'
  BY SealerTrueStep
<1>5. ReaderTrue'
  BY ReaderTrueStep
<1>6. QED
  BY <1>1, <1>2, <1>3, <1>4, <1>5 DEF BucketInv

\* The inductive invariant, over every interleaving of finalize, the seal
\* steps, pages and the retention alarm.
THEOREM BucketSafe == Spec => []BucketInv
  BY InitInv, BucketInvStep, PTL DEF Spec

\* Every variable has its type.
THEOREM BucketTypes == Spec => []BucketTypeOK
<1>1. BucketInv => BucketTypeOK
  BY DEF BucketInv, StoredTypes, CallTypes, BucketTypeOK, Lease_, Sealer, Sweep, Reader, Record
<1>2. QED
  BY <1>1, BucketSafe, PTL

\* An enumeration that ended has its sealed range, each record once and in
\* order: localPage skips and repeats nothing, whatever retention took of the
\* rows that it reads from.
THEOREM EnumerationsComplete == Spec => []EnumerationIsComplete
<1>1. BucketInv => EnumerationIsComplete
  BY DEF BucketInv, ReaderTrue, Sorted, EnumerationIsComplete
<1>2. QED
  BY <1>1, BucketSafe, PTL

\* sweepV2Retention takes only what is released, undisputed and out of the
\* range of every lease, while no seal is being digested.
THEOREM RetentionSafe == Spec => RetentionIsSafe
<1>1. ASSUME BucketInv, [Next]_vars, NEW t \in Txs,
             rows[t].state = "FINALIZED", rows'[t] = NoRow
      PROVE  /\ rows[t].released /\ ~Unresolved(t)
             /\ ~Leased({l \in leases : l.until > now}, rows[t].decided, rows[t].decided)
             /\ ~Draining
  <2>1. Keeps \/ Drops \/ \E u \in Txs : Decides(u)
    BY <1>1, StepHasShape DEF StepShape
  <2>2. NoRow.state # "FINALIZED"
    BY DEF NoRow
  <2>3. ~Keeps
    BY <1>1, <2>2 DEF Keeps, RowKeeps
  <2>4. ASSUME NEW u \in Txs, Decides(u) PROVE FALSE
    <3>1. t = u \/ rows'[t] = rows[t]
      BY <1>1, <2>4 DEF Decides, BucketInv, StoredTypes
    <3>2. rows[u].state = "RESERVED"
      BY <2>4 DEF Decides
    <3>3. QED
      BY <1>1, <2>2, <3>1, <3>2
  <2>5. Takes(t)
    BY <1>1, <2>1, <2>2, <2>3, <2>4 DEF Drops
  <2>6. QED
    BY <2>5 DEF Takes
<1>2. BucketInv /\ [Next]_vars =>
        [\A t \in Txs :
           rows[t].state = "FINALIZED" /\ rows'[t] = NoRow
           => /\ rows[t].released /\ ~Unresolved(t)
              /\ ~Leased({l \in leases : l.until > now}, rows[t].decided, rows[t].decided)
              /\ ~Draining]_vars
  BY <1>1
<1>3. QED
  BY <1>2, BucketSafe, PTL DEF Spec, RetentionIsSafe

-----------------------------------------------------------------------------
(* The bucket is a sealed log.                                             *)

\* A decision of the log, one by one.
LEMMA DecisionOf ==
  \A x : x \in Decisions <=>
    \E t \in Txs : rows[t].state = "FINALIZED" /\ x = [tx |-> t, at |-> rows[t].decided]
  BY DEF Decisions

NamesOf(gen) == {[tx |-> e.tx, at |-> e.at] : e \in ToSet(gen.digest)}

\* A seal of the bucket, one by one.
LEMMA SealOf ==
  \A x : x \in BucketSeals <=>
    \E g \in Gen : /\ gens[g].status = "COMPLETE"
                   /\ x = [cutoff |-> gens[g].cutoff, members |-> NamesOf(gens[g])]
  BY DEF BucketSeals, NamesOf

\* Only a published receipt completes a generation.
LEMMA CompleteStays ==
  ASSUME BucketInv, [Next]_vars, \A s \in Sealers : ~PublishReceipt(s),
         NEW g \in Gen, gens'[g].status = "COMPLETE"
  PROVE  gens'[g] = gens[g]
<1>0. /\ StoredTypes /\ CallTypes /\ RowsTrue /\ \A h \in Gen : GenTrue(h)
      /\ \A s \in Sealers : SealerTrue(s) /\ gens \in [Gen -> Generation]
  BY DEF BucketInv, StoredTypes
<1>1. ASSUME NEW t \in Txs, RowCall(t) \/ Finalize(t) PROVE gens' = gens
  BY <1>0, <1>1, RowCallFrame DEF Finalize
<1>2. ASSUME NEW s \in Sealers, DrainCall(s) PROVE gens'[g] = gens[g]
  <2>1. PICK h \in Gen, n \in Generation :
              /\ gens' = [gens EXCEPT ![h] = n]
              /\ n = gens[h] \/ (Resets(h, n) /\ n.cutoff <= floor')
    BY <1>0, <1>2, DrainCallEffect
  <2>2. gens'[g] = IF g = h THEN n ELSE gens[g]
    BY <1>0, <2>1
  <2>3. QED
    BY <2>1, <2>2 DEF Resets
<1>3. ASSUME NEW s \in Sealers, DigestBatch(s) PROVE gens'[g] = gens[g]
  <2>1. PICK h \in Gen, n \in Generation :
          gens' = [gens EXCEPT ![h] = n] /\ (n = gens[h] \/ Grows(h, n))
    BY <1>0, <1>3, DigestEffect
  <2>2. gens'[g] = IF g = h THEN n ELSE gens[g]
    BY <1>0, <2>1
  <2>3. QED
    BY <2>1, <2>2 DEF Grows
<1>4. CASE \/ \E h \in Gen, from \in Cutoffs : LocalPage(h, from)
           \/ PageRefused \/ Tick \/ Restart \/ SweepFinish \/ UNCHANGED vars
  BY <1>4 DEF LocalPage, PageRefused, Tick, Restart, SweepFinish, vars
<1>5. CASE SweepStart
  <2>1. gens'[g] = gens[g] \/ gens'[g].status = "deleted"
    BY <1>0, <1>5, SweepStartEffect DEF GensExpire
  <2>2. QED
    BY <2>1
<1>6. QED
  BY <1>1, <1>2, <1>3, <1>4, <1>5, StepIs

\* Only finalize assigns a time, and it touches no generation.
LEMMA DecisionLeavesSeals ==
  ASSUME BucketInv, [Next]_vars, last' # last
  PROVE  gens' = gens
<1>1. \A t \in Txs : RowCall(t) => last' = last
  BY RowCallFrame DEF BucketInv
<1>2. \A t \in Txs : Finalize(t) => gens' = gens
  BY DEF Finalize
<1>3. /\ \A s \in Sealers : DrainCall(s) => last' = last
      /\ \A s \in Sealers : DigestBatch(s) \/ PublishReceipt(s) => last' = last
  BY DEF DrainCall, CloseNew, CloseAgain, AlarmSeal, DigestBatch, PublishReceipt, bucketVars
<1>4. CASE \/ \E h \in Gen, from \in Cutoffs : LocalPage(h, from)
           \/ PageRefused \/ Tick \/ Restart \/ SweepStart \/ SweepFinish \/ UNCHANGED vars
  BY <1>4 DEF LocalPage, PageRefused, Tick, Restart, SweepStart, SweepFinish, vars, bucketVars
<1>5. QED
  BY <1>1, <1>2, <1>3, <1>4, StepIs

\* A decision is later than every seal.
LEMMA DecideOfLog ==
  ASSUME BucketInv, [Next]_vars, NEW t \in Txs, Decides(t)
  PROVE  Log!LogNext
<1>0. /\ StoredTypes /\ RowsTrue /\ \A g \in Gen : GenTrue(g)
      /\ now \in Nat /\ last \in Nat /\ floor \in Nat /\ rows \in [Txs -> Row]
  BY Shapes DEF BucketInv, StoredTypes
<1> DEFINE d == DecisionTime
           e == [tx |-> t, at |-> d]
<1>1. d \in Nat /\ d > last /\ d > floor
  BY <1>0, DecisionIsLater
<1>2. PICK r \in Row : /\ rows' = [rows EXCEPT ![t] = r]
                       /\ r.state = "FINALIZED" /\ r.decided = d
  BY DEF Decides
<1>3. rows[t].state = "RESERVED" /\ last' = d
  BY DEF Decides
<1>4. gens' = gens
  <2> HIDE DEF d
  <2>1. last' # last
    BY <1>0, <1>1, <1>3
  <2>2. QED
    BY <2>1, DecisionLeavesSeals
<1>5. \A u \in Txs : rows'[u] = IF u = t THEN r ELSE rows[u]
  BY <1>0, <1>2
<1>6. e.at = d /\ e.tx = t
  OBVIOUS
<1> HIDE DEF d
<1>7. e \notin Decisions
  BY <1>3, <1>6, DecisionOf
<1>8. ASSUME NEW x PROVE x \in Decisions' <=> x \in Decisions \/ x = e
  <2>1. x \in Decisions' <=>
          \E u \in Txs : rows'[u].state = "FINALIZED" /\ x = [tx |-> u, at |-> rows'[u].decided]
    BY DEF Decisions
  <2>2. QED
    BY <1>2, <1>3, <1>5, <2>1, DecisionOf
<1>9. BucketSeals' = BucketSeals
  BY <1>4 DEF BucketSeals
<1>10. ASSUME NEW s \in BucketSeals PROVE e.at > s.cutoff
  <2>1. PICK g \in Gen : gens[g].status = "COMPLETE" /\ s.cutoff = gens[g].cutoff
    BY SealOf
  <2>2. gens[g].cutoff <= floor /\ gens[g].cutoff \in Nat
    BY <1>0, <2>1, Shapes DEF GenTrue
  <2>3. QED
    BY <1>0, <1>1, <1>6, <2>1, <2>2
<1> HIDE DEF e
<1>11. Decisions' = Decisions \cup {e} /\ e \in Decisions' \ Decisions
  BY <1>7, <1>8
<1>12. Log!Decide(e)
  BY <1>1, <1>6, <1>9, <1>10, <1>11 DEF Log!Decide
<1>13. QED
  BY <1>11, <1>12 DEF Log!LogNext

\* A receipt names exactly the decisions up to its cutoff.
LEMMA ReceiptOfLog ==
  ASSUME BucketInv, NEW s \in Sealers, PublishReceipt(s)
  PROVE  [Log!LogNext]_(Log!logVars)
<1>0. /\ StoredTypes /\ CallTypes /\ RowsTrue /\ \A g \in Gen : GenTrue(g)
      /\ gens \in [Gen -> Generation]
  BY DEF BucketInv, StoredTypes
<1>1. rows' = rows
  BY <1>0, ReceiptEffect
<1>2. PICK g \in Gen, n \in Generation :
        gens' = [gens EXCEPT ![g] = n] /\ (n = gens[g] \/ Seals(g, n))
  BY <1>0, ReceiptEffect
<1>3. Decisions' = Decisions
  BY <1>1 DEF Decisions
<1>4. CASE n = gens[g]
  <2>1. gens' = gens
    BY <1>0, <1>2, <1>4
  <2>2. BucketSeals' = BucketSeals
    BY <2>1 DEF BucketSeals
  <2>3. QED
    BY <1>3, <2>2 DEF Log!logVars
<1>5. CASE Seals(g, n)
  <2> DEFINE new == [cutoff |-> n.cutoff, members |-> NamesOf(n)]
  <2>1. /\ gens[g].status = "DRAINING" /\ n.status = "COMPLETE"
        /\ n.cutoff = gens[g].cutoff /\ n.digest = gens[g].digest
        /\ \A t \in Members(n.cutoff) :
             \E e \in ToSet(n.digest) : e.tx = t /\ e.at = rows[t].decided
    BY <1>5 DEF Seals
  <2>2. n.cutoff \in Nat /\ \A e \in ToSet(n.digest) : e.tx \in Txs /\ InForce(e, n.cutoff)
    <3>1. n.cutoff \in Nat /\ n.digest \in Seq(Entry)
      BY <1>0, <2>1, Shapes
    <3>2. \A e \in ToSet(n.digest) : e \in Entry
      BY <3>1, LenProperties, ElementOfSeq DEF ToSet
    <3>3. QED
      BY <1>0, <2>1, <3>1, <3>2 DEF GenTrue, Entry
  <2>3. ASSUME NEW x \in NamesOf(n) PROVE x \in {d \in Decisions : d.at <= n.cutoff}
    <3>1. PICK e \in ToSet(n.digest) : x = [tx |-> e.tx, at |-> e.at]
      BY DEF NamesOf
    <3>2. /\ e.tx \in Txs /\ rows[e.tx].state = "FINALIZED" /\ rows[e.tx].decided = e.at
          /\ e.at <= n.cutoff
      BY <2>2 DEF InForce
    <3>3. QED
      BY <3>1, <3>2, DecisionOf
  <2>4. ASSUME NEW x \in Decisions, x.at <= n.cutoff PROVE x \in NamesOf(n)
    <3>1. PICK t \in Txs : rows[t].state = "FINALIZED" /\ x = [tx |-> t, at |-> rows[t].decided]
      BY DecisionOf
    <3>2. t \in Members(n.cutoff)
      BY <2>4, <3>1 DEF Members
    <3>3. PICK e \in ToSet(n.digest) : e.tx = t /\ e.at = rows[t].decided
      BY <2>1, <3>2
    <3>4. QED
      BY <3>1, <3>3 DEF NamesOf
  <2>5. new.cutoff = n.cutoff /\ new.members = {d \in Decisions : d.at <= n.cutoff}
    BY <2>3, <2>4
  <2>6. new = [cutoff |-> n.cutoff, members |-> {d \in Decisions : d.at <= n.cutoff}]
    BY <2>5
  <2>7. ASSUME NEW x PROVE x \in BucketSeals' <=> x \in BucketSeals \/ x = new
    <3>1. x \in BucketSeals' <=>
            \E h \in Gen : /\ gens'[h].status = "COMPLETE"
                           /\ x = [cutoff |-> gens'[h].cutoff, members |-> NamesOf(gens'[h])]
      BY DEF BucketSeals, NamesOf
    <3>2. \A h \in Gen : gens'[h] = IF h = g THEN n ELSE gens[h]
      BY <1>0, <1>2
    <3>3. QED
      BY <2>1, <3>1, <3>2, SealOf
  <2> HIDE DEF new
  <2>8. BucketSeals' = BucketSeals \cup {new}
    BY <2>7
  <2>9. CASE new \in BucketSeals
    BY <1>3, <2>8, <2>9 DEF Log!logVars
  <2>10. CASE new \notin BucketSeals
    <3>1. Log!Seal(new.cutoff)
      BY <1>3, <2>2, <2>5, <2>6, <2>8 DEF Log!Seal, Log!UpTo
    <3>2. QED
      BY <2>8, <2>10, <3>1 DEF Log!LogNext
  <2>11. QED
    BY <2>9, <2>10
<1>6. QED
  BY <1>2, <1>4, <1>5

\* Every other step forgets at most.
LEMMA StepOfLog ==
  ASSUME BucketInv, [Next]_vars
  PROVE  [Log!LogNext]_(Log!logVars)
<1>1. CASE \E s \in Sealers : PublishReceipt(s)
  BY <1>1, ReceiptOfLog
<1>2. CASE \E t \in Txs : Decides(t)
  BY <1>2, DecideOfLog
<1>3. CASE (Keeps \/ Drops) /\ \A s \in Sealers : ~PublishReceipt(s)
  <2>1. ASSUME NEW x \in BucketSeals' PROVE x \in BucketSeals
    <3>1. PICK g \in Gen :
            /\ gens'[g].status = "COMPLETE"
            /\ x = [cutoff |-> gens'[g].cutoff, members |-> NamesOf(gens'[g])]
      BY DEF BucketSeals, NamesOf
    <3>2. gens'[g] = gens[g]
      BY <1>3, <3>1, CompleteStays
    <3>3. QED
      BY <3>1, <3>2, SealOf
  <2>2. ASSUME NEW x \in Decisions' PROVE x \in Decisions
    <3>1. PICK t \in Txs :
            rows'[t].state = "FINALIZED" /\ x = [tx |-> t, at |-> rows'[t].decided]
      BY DEF Decisions
    <3>2. NoRow.state # "FINALIZED"
      BY DEF NoRow
    <3>3. rows[t].state = "FINALIZED" /\ rows'[t].decided = rows[t].decided
      BY <1>3, <3>1, <3>2 DEF Keeps, RowKeeps, Drops, Takes
    <3>4. QED
      BY <3>1, <3>3, DecisionOf
  <2>3. QED
    BY <2>1, <2>2 DEF Log!LogNext, Log!Expire
<1>4. QED
  BY <1>1, <1>2, <1>3, StepHasShape DEF StepShape

\* The bucket is a sealed log: finalize assigns no decision at or below a
\* published cutoff, and closeThrough publishes exactly what was decided up to
\* its cutoff, though calls come between its batches and its hashes.
THEOREM ImplementsLog == Spec => ImplementsSealedLog
<1>1. Init => Log!LogInit
  <2> SUFFICES ASSUME Init PROVE Log!LogInit
    OBVIOUS
  <2>1. NoRow.state = "none" /\ NoGen.status = "none"
    BY DEF NoRow, NoGen
  <2>2. (\A t \in Txs : rows[t] = NoRow) /\ \A g \in Gen : gens[g] = NoGen
    BY DEF Init
  <2>3. QED
    BY <2>1, <2>2 DEF Log!LogInit, Decisions, BucketSeals
<1>2. BucketInv /\ [Next]_vars => [Log!LogNext]_(Log!logVars)
  BY StepOfLog
<1>3. QED
  BY <1>1, <1>2, BucketSafe, PTL DEF Spec, Log!LogSpec, ImplementsSealedLog
=============================================================================
