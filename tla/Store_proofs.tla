---------------------------- MODULE Store_proofs ----------------------------
(***************************************************************************)
(* The run store: what its cache of run records can hold, and what an upgrade  *)
(* of its database keeps.                                                        *)
(***************************************************************************)
EXTENDS RunCache, Migrations, SequenceTheorems, TLAPS

(***************************************************************************)
(* The cache, for any capacity and any number of runs, readers and writers.     *)
(***************************************************************************)

Records == [run : Runs, ver : Nat]

\* An OrderedDict has one entry per key.
OneEach(l) == \A i, j \in DOMAIN l : l[i].run = l[j].run => i = j

\* What a call in progress may know: a version that was committed, and, of a reader
\* that has read the row, one that is not older than the last write that had
\* returned when the call began.
CacheInv ==
    /\ db \in [Runs -> Nat] /\ acked \in [Runs -> Nat] /\ floor \in [Readers -> Nat]
    /\ lru \in Seq(Records) /\ OneEach(lru)
    /\ reader \in [Readers -> [at : {"idle", "call", "read"}, run : Runs \cup {"none"}, ver : Nat]]
    /\ writer \in [Writers -> [at : {"idle", "call", "done"}, run : Runs \cup {"none"}, ver : Nat]]
    /\ late \subseteq Runs
    /\ \A r \in Runs : acked[r] <= db[r]
    /\ \A p \in Readers : reader[p].at # "idle" =>
        /\ reader[p].run \in Runs
        /\ floor[p] <= db[reader[p].run]
        /\ reader[p].at = "read" =>
             floor[p] <= reader[p].ver /\ reader[p].ver <= db[reader[p].run]
    /\ \A w \in Writers : writer[w].at # "idle" =>
        /\ writer[w].run \in Runs
        /\ writer[w].at = "done" => writer[w].ver <= db[writer[w].run]

----------------------------------------------------------------------------
(* The dictionary *)

\* RemoveAt takes out one entry and moves the later ones up.
LEMMA RemoveAtFacts ==
  ASSUME NEW S, NEW l \in Seq(S), NEW i \in DOMAIN l
  PROVE  /\ RemoveAt(l, i) \in Seq(S)
         /\ Len(RemoveAt(l, i)) = Len(l) - 1
         /\ \A j \in 1 .. Len(l) - 1 : RemoveAt(l, i)[j] = IF j < i THEN l[j] ELSE l[j + 1]
<1>1. Len(l) \in Nat /\ i \in 1 .. Len(l) /\ DOMAIN l = 1 .. Len(l)
  OBVIOUS
<1> DEFINE a == SubSeq(l, 1, i - 1)
           b == SubSeq(l, i + 1, Len(l))
<1>2. a \in Seq(S) /\ Len(a) = i - 1 /\ \A j \in 1 .. i - 1 : a[j] = l[j]
  BY <1>1
<1>3. b \in Seq(S) /\ Len(b) = Len(l) - i /\ \A j \in 1 .. Len(l) - i : b[j] = l[i + j]
  BY <1>1
<1>4. RemoveAt(l, i) = a \o b
  BY DEF RemoveAt
<1> HIDE DEF a, b
<1>5. a \o b \in Seq(S) /\ Len(a \o b) = Len(l) - 1
  <2>1. a \o b \in Seq(S) /\ Len(a \o b) = Len(a) + Len(b)
    BY <1>2, <1>3, ConcatProperties
  <2>. QED BY <2>1, <1>1, <1>2, <1>3
<1>6. ASSUME NEW j \in 1 .. Len(l) - 1
      PROVE  (a \o b)[j] = IF j < i THEN l[j] ELSE l[j + 1]
  <2>1. CASE j < i
    BY <2>1, <1>1, <1>2, <1>3
  <2>2. CASE ~(j < i)
    <3>1. (a \o b)[j] = b[j - (i - 1)]
      BY <2>2, <1>1, <1>2, <1>3
    <3>2. j - (i - 1) \in 1 .. Len(l) - i
      BY <2>2, <1>1
    <3>. QED BY <3>1, <3>2, <2>2, <1>1, <1>3
  <2>. QED BY <2>1, <2>2
<1>. QED BY <1>4, <1>5, <1>6

\* Index finds the entry of a cached run.
LEMMA IndexFacts ==
  ASSUME NEW r, Cached(r)
  PROVE  Index(r) \in DOMAIN lru /\ lru[Index(r)].run = r
  BY DEF Cached, Index

\* The fields of an entry.
LEMMA EntryFacts ==
  ASSUME CacheInv, NEW i \in DOMAIN lru
  PROVE  lru[i].run \in Runs /\ lru[i].ver \in Nat
<1>1. lru[i] \in Records
  BY DEF CacheInv
<1>. QED BY <1>1 DEF Records

\* Without(r): no entry of r is left, the others stay, one each.
LEMMA WithoutFacts ==
  ASSUME lru \in Seq(Records), OneEach(lru), NEW r
  PROVE  /\ Without(r) \in Seq(Records) /\ OneEach(Without(r))
         /\ \A j \in DOMAIN Without(r) :
              /\ Without(r)[j].run # r
              /\ \E i \in DOMAIN lru : Without(r)[j] = lru[i]
<1>1. CASE ~Cached(r)
  BY <1>1 DEF Without, Cached
<1>2. CASE Cached(r)
  <2> DEFINE k == Index(r)
             l == RemoveAt(lru, k)
             Old(j) == IF j < k THEN j ELSE j + 1
  <2>1. k \in DOMAIN lru /\ lru[k].run = r
    BY <1>2, IndexFacts
  <2>2. Without(r) = l
    BY <1>2 DEF Without
  <2> HIDE DEF k
  <2>3. l \in Seq(Records) /\ Len(l) = Len(lru) - 1
        /\ \A j \in 1 .. Len(lru) - 1 : l[j] = IF j < k THEN lru[j] ELSE lru[j + 1]
    BY <2>1, RemoveAtFacts
  <2>4. Len(lru) \in Nat /\ DOMAIN lru = 1 .. Len(lru) /\ k \in 1 .. Len(lru)
    BY <2>1
  <2>5. DOMAIN l = 1 .. Len(lru) - 1
    BY <2>3
  <2> HIDE DEF l
  <2>6. \A j \in DOMAIN l : Old(j) \in DOMAIN lru /\ Old(j) # k /\ l[j] = lru[Old(j)]
    BY <2>3, <2>4, <2>5
  <2>7. \A i, j \in DOMAIN l : Old(i) = Old(j) => i = j
    BY <2>4, <2>5
  <2> HIDE DEF Old
  <2>8. \A j \in DOMAIN l : l[j].run # r
    BY <2>1, <2>6 DEF OneEach
  <2>9. OneEach(l)
    BY <2>6, <2>7 DEF OneEach
  <2>. QED BY <2>2, <2>3, <2>6, <2>8, <2>9
<1>. QED BY <1>1, <1>2

\* Touched(r) has the entries of lru.
LEMMA TouchedFacts ==
  ASSUME lru \in Seq(Records), OneEach(lru), NEW r, Cached(r)
  PROVE  /\ Touched(r) \in Seq(Records) /\ OneEach(Touched(r))
         /\ \A j \in DOMAIN Touched(r) : \E i \in DOMAIN lru : Touched(r)[j] = lru[i]
<1> DEFINE w == Without(r)
           e == lru[Index(r)]
<1>1. w \in Seq(Records) /\ OneEach(w)
      /\ \A j \in DOMAIN w : w[j].run # r /\ \E i \in DOMAIN lru : w[j] = lru[i]
  BY WithoutFacts
<1>2. Index(r) \in DOMAIN lru /\ e.run = r /\ e \in Records
  BY IndexFacts
<1>3. Touched(r) = Append(w, e)
  BY DEF Touched
<1> HIDE DEF w
<1>4. Append(w, e) \in Seq(Records) /\ DOMAIN Append(w, e) = 1 .. Len(w) + 1
      /\ (\A j \in 1 .. Len(w) : Append(w, e)[j] = w[j]) /\ Append(w, e)[Len(w) + 1] = e
      /\ DOMAIN w = 1 .. Len(w) /\ Len(w) \in Nat
  BY <1>1, <1>2
<1>5. ASSUME NEW i \in DOMAIN Append(w, e), NEW j \in DOMAIN Append(w, e),
             Append(w, e)[i].run = Append(w, e)[j].run
      PROVE  i = j
  <2>1. CASE i \in DOMAIN w /\ j \in DOMAIN w
    BY <2>1, <1>1, <1>4, <1>5 DEF OneEach
  <2>2. CASE i = Len(w) + 1 /\ j \in DOMAIN w
    BY <2>2, <1>1, <1>2, <1>4, <1>5
  <2>3. CASE i \in DOMAIN w /\ j = Len(w) + 1
    BY <2>3, <1>1, <1>2, <1>4, <1>5
  <2>. QED BY <2>1, <2>2, <2>3, <1>4
<1>6. \A j \in DOMAIN Append(w, e) : \E i \in DOMAIN lru : Append(w, e)[j] = lru[i]
  <2>. SUFFICES ASSUME NEW j \in DOMAIN Append(w, e)
                PROVE  \E i \in DOMAIN lru : Append(w, e)[j] = lru[i]
    OBVIOUS
  <2>1. CASE j \in DOMAIN w
    BY <2>1, <1>1, <1>4
  <2>2. CASE j = Len(w) + 1
    BY <2>2, <1>2, <1>4
  <2>. QED BY <2>1, <2>2, <1>4
<1>. QED BY <1>3, <1>4, <1>5, <1>6 DEF OneEach

\* Stored(r, v) has the new entry and entries of other runs.
LEMMA StoredFacts ==
  ASSUME lru \in Seq(Records), OneEach(lru), NEW r \in Runs, NEW v \in Nat
  PROVE  /\ Stored(r, v) \in Seq(Records) /\ OneEach(Stored(r, v))
         /\ \A j \in DOMAIN Stored(r, v) :
              \/ Stored(r, v)[j] = Entry(r, v)
              \/ /\ Stored(r, v)[j].run # r
                 /\ \E i \in DOMAIN lru : Stored(r, v)[j] = lru[i]
<1>1. Entry(r, v) \in Records /\ Entry(r, v).run = r
  BY DEF Entry, Records
<1>2. CASE Cached(r)
  <2>1. Index(r) \in DOMAIN lru /\ lru[Index(r)].run = r
    BY <1>2, IndexFacts
  <2> DEFINE s == [lru EXCEPT ![Index(r)] = Entry(r, v)]
  <2>2. Stored(r, v) = s
    BY <1>2 DEF Stored
  <2>3. s \in Seq(Records) /\ DOMAIN s = DOMAIN lru /\ s[Index(r)] = Entry(r, v)
        /\ \A j \in DOMAIN s : j # Index(r) => s[j] = lru[j]
    BY <2>1, <1>1
  <2> HIDE DEF s
  <2>4. \A j \in DOMAIN s : s[j].run = lru[j].run
    BY <2>1, <2>3, <1>1
  <2>5. OneEach(s)
    BY <2>3, <2>4 DEF OneEach
  <2>6. \A j \in DOMAIN s : j # Index(r) => s[j].run # r
    BY <2>1, <2>3, <2>4 DEF OneEach
  <2>. QED BY <2>2, <2>3, <2>5, <2>6
<1>3. CASE ~Cached(r)
  <2> DEFINE l == Append(lru, Entry(r, v))
  <2>1. l \in Seq(Records) /\ DOMAIN l = 1 .. Len(lru) + 1 /\ Len(l) = Len(lru) + 1
        /\ (\A j \in 1 .. Len(lru) : l[j] = lru[j]) /\ l[Len(lru) + 1] = Entry(r, v)
        /\ Len(lru) \in Nat /\ DOMAIN lru = 1 .. Len(lru)
    BY <1>1
  <2>2. Stored(r, v) = IF Len(l) > Capacity THEN Tail(l) ELSE l
    BY <1>3 DEF Stored
  <2>3. \A j \in DOMAIN lru : lru[j].run # r
    BY <1>3 DEF Cached
  <2> HIDE DEF l
  <2>4. OneEach(l)
    <3>. SUFFICES ASSUME NEW i \in DOMAIN l, NEW j \in DOMAIN l, l[i].run = l[j].run
                  PROVE  i = j
      BY DEF OneEach
    <3>1. CASE i \in DOMAIN lru /\ j \in DOMAIN lru
      BY <3>1, <2>1 DEF OneEach
    <3>2. CASE i = Len(lru) + 1 /\ j \in DOMAIN lru
      BY <3>2, <2>1, <2>3, <1>1
    <3>3. CASE i \in DOMAIN lru /\ j = Len(lru) + 1
      BY <3>3, <2>1, <2>3, <1>1
    <3>. QED BY <3>1, <3>2, <3>3, <2>1
  <2>5. \A j \in DOMAIN l : l[j] = Entry(r, v) \/ (l[j].run # r /\ \E i \in DOMAIN lru : l[j] = lru[i])
    <3>. SUFFICES ASSUME NEW j \in DOMAIN l
                  PROVE  l[j] = Entry(r, v) \/ (l[j].run # r /\ \E i \in DOMAIN lru : l[j] = lru[i])
      OBVIOUS
    <3>1. CASE j \in DOMAIN lru
      BY <3>1, <2>1, <2>3
    <3>2. CASE j = Len(lru) + 1
      BY <3>2, <2>1
    <3>. QED BY <3>1, <3>2, <2>1
  <2>6. /\ Tail(l) \in Seq(Records) /\ DOMAIN Tail(l) = 1 .. Len(lru)
        /\ \A j \in DOMAIN Tail(l) : j + 1 \in DOMAIN l /\ Tail(l)[j] = l[j + 1]
    BY <2>1
  <2>7. OneEach(Tail(l))
    <3>. SUFFICES ASSUME NEW i \in DOMAIN Tail(l), NEW j \in DOMAIN Tail(l),
                         Tail(l)[i].run = Tail(l)[j].run
                  PROVE  i = j
      BY DEF OneEach
    <3>1. i + 1 = j + 1
      BY <2>4, <2>6 DEF OneEach
    <3>. QED BY <3>1, <2>6, <2>1
  <2>. QED BY <2>1, <2>2, <2>4, <2>5, <2>6, <2>7
<1>. QED BY <1>2, <1>3

----------------------------------------------------------------------------
(* The invariant *)

\* The cache starts empty.
LEMMA CacheInit == cacheInit => CacheInv /\ CachedIsCommitted /\ StaleOnlyAfterRace
  BY DEF cacheInit, CacheInv, Nobody, Records, OneEach, CachedIsCommitted, StaleOnlyAfterRace

\* get_run: what it puts into the cache was committed when it was read, and is not
\* older than the last write that returned unless one returned meanwhile.
LEMMA ReaderStep ==
  ASSUME CacheInv, CachedIsCommitted, StaleOnlyAfterRace, NEW p \in Readers,
         \/ \E r \in Runs : GetHit(p, r) \/ GetMiss(p, r)
         \/ ReadRow(p) \/ GetReturns(p) \/ GetFails(p)
  PROVE  CacheInv' /\ CachedIsCommitted' /\ StaleOnlyAfterRace'
<1>1. ASSUME NEW r \in Runs, GetHit(p, r)
      PROVE  CacheInv' /\ CachedIsCommitted' /\ StaleOnlyAfterRace'
  <2>1. lru' = Touched(r) /\ Cached(r) /\ UNCHANGED <<db, reader, writer, late, acked, raced>>
        /\ reader[p].at = "idle" /\ floor' = [floor EXCEPT ![p] = acked[r]]
    BY <1>1 DEF GetHit
  <2>2. lru' \in Seq(Records) /\ OneEach(lru')
        /\ \A j \in DOMAIN lru' : \E i \in DOMAIN lru : lru'[j] = lru[i]
    BY <2>1, TouchedFacts DEF CacheInv
  <2>3. CacheInv'
    BY <2>1, <2>2 DEF CacheInv
  <2>4. CachedIsCommitted' /\ StaleOnlyAfterRace'
    BY <2>1, <2>2 DEF CachedIsCommitted, StaleOnlyAfterRace
  <2>. QED BY <2>3, <2>4
<1>2. ASSUME NEW r \in Runs, GetMiss(p, r)
      PROVE  CacheInv' /\ CachedIsCommitted' /\ StaleOnlyAfterRace'
  BY <1>2 DEF GetMiss, Job, CacheInv, CachedIsCommitted, StaleOnlyAfterRace
<1>3. ASSUME ReadRow(p)
      PROVE  CacheInv' /\ CachedIsCommitted' /\ StaleOnlyAfterRace'
  BY <1>3 DEF ReadRow, Job, CacheInv, CachedIsCommitted, StaleOnlyAfterRace
<1>4. ASSUME GetReturns(p)
      PROVE  CacheInv' /\ CachedIsCommitted' /\ StaleOnlyAfterRace'
  <2> DEFINE r == reader[p].run
             v == reader[p].ver
  <2>1. /\ r \in Runs /\ v \in Nat /\ floor[p] <= v /\ v <= db[r]
        /\ db[r] \in Nat /\ acked[r] \in Nat /\ floor[p] \in Nat
    BY <1>4 DEF GetReturns, CacheInv
  <2>2. /\ lru' = IF v = 0 THEN lru ELSE Stored(r, v)
        /\ raced' = IF v = 0 THEN raced
                    ELSE IF acked[r] # floor[p] THEN raced \cup {r} ELSE raced \ {r}
        /\ reader' = [reader EXCEPT ![p] = Nobody]
        /\ UNCHANGED <<db, lock, writer, late, acked, floor>>
    BY <1>4 DEF GetReturns
  <2> HIDE DEF r, v
  <2>3. CASE v = 0
    BY <2>2, <2>3 DEF Nobody, CacheInv, CachedIsCommitted, StaleOnlyAfterRace
  <2>4. CASE v # 0
    <3>1. lru' \in Seq(Records) /\ OneEach(lru')
          /\ \A j \in DOMAIN lru' :
               \/ lru'[j] = Entry(r, v)
               \/ lru'[j].run # r /\ \E i \in DOMAIN lru : lru'[j] = lru[i]
      <4>1. lru' = Stored(r, v) /\ lru \in Seq(Records) /\ OneEach(lru)
        BY <2>2, <2>4 DEF CacheInv
      <4>2. r \in Runs /\ v \in Nat
        BY <2>1
      <4>. QED BY <4>1, <4>2, StoredFacts, ZenonT(60)
    <3>2. CacheInv'
      BY <2>2, <3>1 DEF CacheInv, Nobody
    <3>3. CachedIsCommitted'
      BY <2>1, <2>2, <2>4, <3>1 DEF CachedIsCommitted, Entry
    <3>4. StaleOnlyAfterRace'
      BY <2>1, <2>2, <2>4, <3>1 DEF StaleOnlyAfterRace, Entry
    <3>. QED BY <3>2, <3>3, <3>4
  <2>. QED BY <2>3, <2>4
<1>5. ASSUME GetFails(p)
      PROVE  CacheInv' /\ CachedIsCommitted' /\ StaleOnlyAfterRace'
  BY <1>5 DEF GetFails, Nobody, CacheInv, CachedIsCommitted, StaleOnlyAfterRace
<1>. QED BY <1>1, <1>2, <1>3, <1>4, <1>5

\* A writer takes the entry of its run out when it returns; one that is abandoned
\* leaves it, but then its write does not count as returned.
LEMMA WriterStep ==
  ASSUME CacheInv, CachedIsCommitted, StaleOnlyAfterRace,
         \/ \E w \in Writers : \/ \E r \in Runs : WriteBegins(w, r)
                               \/ WriteCommits(w) \/ WriteReturns(w) \/ WriteAbandoned(w)
         \/ \E r \in Runs : LateCommit(r)
  PROVE  CacheInv' /\ CachedIsCommitted' /\ StaleOnlyAfterRace'
<1>1. ASSUME NEW w \in Writers, NEW r \in Runs, WriteBegins(w, r)
      PROVE  CacheInv' /\ CachedIsCommitted' /\ StaleOnlyAfterRace'
  BY <1>1 DEF WriteBegins, Job, CacheInv, CachedIsCommitted, StaleOnlyAfterRace
<1>2. ASSUME NEW w \in Writers, WriteCommits(w)
      PROVE  CacheInv' /\ CachedIsCommitted' /\ StaleOnlyAfterRace'
  <2> DEFINE r == writer[w].run
  <2>1. /\ db' = [db EXCEPT ![r] = @ + 1] /\ r \in Runs
        /\ writer' = [writer EXCEPT ![w] = Job("done", r, db[r] + 1)]
        /\ UNCHANGED <<lru, lock, reader, late, acked, floor, raced>>
    BY <1>2 DEF WriteCommits, CacheInv
  <2>2. \A q \in Runs : db[q] \in Nat /\ db'[q] \in Nat /\ db[q] <= db'[q]
    BY <2>1 DEF CacheInv
  <2>3. db'[r] = db[r] + 1 /\ db' \in [Runs -> Nat]
    BY <2>1 DEF CacheInv
  <2> HIDE DEF r
  <2>4. CacheInv'
    BY <2>1, <2>2, <2>3 DEF CacheInv, Job
  <2>5. CachedIsCommitted' /\ StaleOnlyAfterRace'
    <3>1. CachedIsCommitted'
      BY <2>1, <2>2, EntryFacts DEF CachedIsCommitted
    <3>2. StaleOnlyAfterRace'
      BY <2>1 DEF StaleOnlyAfterRace
    <3>. QED BY <3>1, <3>2
  <2>. QED BY <2>4, <2>5
<1>3. ASSUME NEW w \in Writers, WriteReturns(w)
      PROVE  CacheInv' /\ CachedIsCommitted' /\ StaleOnlyAfterRace'
  <2> DEFINE r == writer[w].run
  <2>1. /\ lru' = Without(r)
        /\ acked' = [acked EXCEPT ![r] = writer[w].ver]
        /\ raced' = raced \ {r}
        /\ writer' = [writer EXCEPT ![w] = Nobody]
        /\ UNCHANGED <<db, reader, late, floor>>
        /\ r \in Runs /\ writer[w].ver \in Nat /\ writer[w].ver <= db[r]
    BY <1>3 DEF WriteReturns, CacheInv
  <2> HIDE DEF r
  <2>2. lru' \in Seq(Records) /\ OneEach(lru')
        /\ \A j \in DOMAIN lru' : lru'[j].run # r /\ \E i \in DOMAIN lru : lru'[j] = lru[i]
    BY <2>1, WithoutFacts DEF CacheInv
  <2>3. CacheInv'
    BY <2>1, <2>2 DEF CacheInv, Nobody
  <2>4. CachedIsCommitted'
    BY <2>1, <2>2 DEF CachedIsCommitted
  <2>5. StaleOnlyAfterRace'
    <3>. SUFFICES ASSUME NEW j \in DOMAIN lru', lru'[j].ver < acked'[lru'[j].run]
                  PROVE  lru'[j].run \in raced'
      BY DEF StaleOnlyAfterRace
    <3>1. PICK i \in DOMAIN lru : lru'[j] = lru[i] /\ lru[i].run # r
      BY <2>2
    <3>2. lru[i].run \in Runs
      BY EntryFacts
    <3>3. acked'[lru[i].run] = acked[lru[i].run]
      BY <2>1, <3>1, <3>2 DEF CacheInv
    <3>4. lru[i].run \in raced
      BY <3>1, <3>3 DEF StaleOnlyAfterRace
    <3>. QED BY <2>1, <3>1, <3>4
  <2>. QED BY <2>3, <2>4, <2>5
<1>4. ASSUME NEW w \in Writers, WriteAbandoned(w)
      PROVE  CacheInv' /\ CachedIsCommitted' /\ StaleOnlyAfterRace'
  BY <1>4 DEF WriteAbandoned, Nobody, CacheInv, CachedIsCommitted, StaleOnlyAfterRace
<1>5. ASSUME NEW r \in Runs, LateCommit(r)
      PROVE  CacheInv' /\ CachedIsCommitted' /\ StaleOnlyAfterRace'
  <2>1. /\ db' = [db EXCEPT ![r] = @ + 1] /\ late' = late \ {r}
        /\ UNCHANGED <<lru, lock, reader, writer, acked, floor, raced>>
    BY <1>5 DEF LateCommit
  <2>2. \A q \in Runs : db[q] \in Nat /\ db'[q] \in Nat /\ db[q] <= db'[q]
    BY <2>1 DEF CacheInv
  <2>3. db' \in [Runs -> Nat]
    BY <2>1 DEF CacheInv
  <2>4. CacheInv'
    BY <2>1, <2>2, <2>3 DEF CacheInv
  <2>5. CachedIsCommitted' /\ StaleOnlyAfterRace'
    <3>1. CachedIsCommitted'
      BY <2>1, <2>2, EntryFacts DEF CachedIsCommitted
    <3>2. StaleOnlyAfterRace'
      BY <2>1 DEF StaleOnlyAfterRace
    <3>. QED BY <3>1, <3>2
  <2>. QED BY <2>4, <2>5
<1>. QED BY <1>1, <1>2, <1>3, <1>4, <1>5

\* Every step preserves the invariant and the two properties it supports.
LEMMA CacheStep ==
  CacheInv /\ CachedIsCommitted /\ StaleOnlyAfterRace /\ [cacheNext]_cacheVars
    => CacheInv' /\ CachedIsCommitted' /\ StaleOnlyAfterRace'
<1>. SUFFICES ASSUME CacheInv, CachedIsCommitted, StaleOnlyAfterRace, [cacheNext]_cacheVars
              PROVE  CacheInv' /\ CachedIsCommitted' /\ StaleOnlyAfterRace'
  OBVIOUS
<1>1. CASE UNCHANGED cacheVars
  BY <1>1 DEF cacheVars, CacheInv, CachedIsCommitted, StaleOnlyAfterRace
<1>2. CASE cacheNext
  BY <1>2, ReaderStep, WriterStep DEF cacheNext
<1>. QED BY <1>1, <1>2

\* No record enters the cache that was not committed, whatever is abandoned.
THEOREM CommittedCorrect == cacheSpec => []CachedIsCommitted
  BY CacheInit, CacheStep, PTL DEF cacheSpec

\* An entry older than the last write that returned was cached by a read that
\* overlapped a write: there is no other way to a stale entry.
THEOREM RaceCorrect == cacheSpec => []StaleOnlyAfterRace
  BY CacheInit, CacheStep, PTL DEF cacheSpec

(***************************************************************************)
(* An upgrade of the database that is cut off anywhere is repeated, and no    *)
(* row is lost: for any rows and any number of crashes.                         *)
(***************************************************************************)

Version == 2 .. 5
Marks == {MarkOf(v) : v \in Version}

\* What the step of a version creates, but for the vector tables.
Needs(v) ==
    CASE v = 2 -> {"iterations", "action_count", "duration_s", "run_outcomes", "feedback",
                   "action_outcomes"}
      [] v = 3 -> {"episodes", "reflections"}
      [] v = 4 -> {"skills", "skill_outcomes", "learned_rules", "allowlist_proposals"}
      [] v = 5 -> {"episodes.decay", "episodes.access", "reflections.decay",
                   "reflections.access", "skills.decay", "skills.access"}

StepNames == UNION {Needs(v) : v \in Version}
Plain == RunsColumns \cup StepNames \cup {"run_events", "episode_vecs", "skill_vecs"}

\* The statements of _init_db; those of the rebuild are in Moves.
Moves == {"new", "copy", "drop", "rename"}
Creates == {"create", "vec", "filled"}
Statements ==
    {s \in [kind : Creates \cup Moves \cup {"mark", "update", "rebuild?"},
            obj : Plain \cup Marks \cup {"begin", "legacy", "runs_new", ""}] :
        /\ s.kind \in Creates => s.obj \in Plain
        /\ s.kind = "mark" => s.obj \in Marks
        /\ s.kind = "update" => s.obj = "begin"}

\* The k-th statement of s marks version v.
MarksVersion(s, k, v) == s[k].kind = "mark" /\ s[k].obj = MarkOf(v)

\* One of the first k statements of s creates o.
Creating(s, k, o) == \E j \in 1 .. k : s[j].obj = o /\ s[j].kind \in {"create", "filled"}

\* Before each mark in s comes what its version needs and "have" lacks.
Covered(s, have) ==
    \A k \in 1 .. Len(s) : \A v \in Version : MarksVersion(s, k, v) =>
        \A o \in Needs(v) : o \in have \/ Creating(s, k, o)

\* The statements of the rebuild come in their order and together.
Chain(s) ==
    \A k \in 1 .. Len(s) :
        /\ s[k].kind \in {"new", "copy", "drop"} => k < Len(s)
        /\ k < Len(s) =>
            /\ s[k + 1].kind = "copy"   <=> s[k].kind = "new"
            /\ s[k + 1].kind = "drop"   <=> s[k].kind = "copy"
            /\ s[k + 1].kind = "rename" <=> s[k].kind = "drop"

\* The steps, statement by statement.
LEMMA V2Is ==
    /\ V2 = [k \in 1 .. 7 |-> V2[k]] /\ Len(V2) = 7
    /\ V2[1] = St("create", "iterations") /\ V2[2] = St("create", "action_count")
    /\ V2[3] = St("create", "duration_s") /\ V2[4] = St("create", "run_outcomes")
    /\ V2[5] = St("create", "feedback")   /\ V2[6] = St("create", "action_outcomes")
    /\ V2[7] = St("mark", "v2")
BY DEF V2, Create

LEMMA V3Is ==
    /\ V3 = [k \in 1 .. 4 |-> V3[k]] /\ Len(V3) = 4
    /\ V3[1] = St("create", "episodes") /\ V3[2] = St("create", "reflections")
    /\ V3[3] = St("vec", "episode_vecs") /\ V3[4] = St("mark", "v3")
BY DEF V3, Create

LEMMA V4Is ==
    /\ V4 = [k \in 1 .. 6 |-> V4[k]] /\ Len(V4) = 6
    /\ V4[1] = St("create", "skills") /\ V4[2] = St("create", "skill_outcomes")
    /\ V4[3] = St("create", "learned_rules") /\ V4[4] = St("create", "allowlist_proposals")
    /\ V4[5] = St("vec", "skill_vecs") /\ V4[6] = St("mark", "v4")
BY DEF V4, Create

LEMMA V5Is ==
    /\ V5 = [k \in 1 .. 7 |-> V5[k]] /\ Len(V5) = 7
    /\ V5[1] = St("create", "episodes.decay")    /\ V5[2] = St("filled", "episodes.access")
    /\ V5[3] = St("create", "reflections.decay") /\ V5[4] = St("filled", "reflections.access")
    /\ V5[5] = St("create", "skills.decay")      /\ V5[6] = St("filled", "skills.access")
    /\ V5[7] = St("mark", "v5")
BY DEF V5

LEMMA SchemaIs ==
    /\ Schema = [k \in 1 .. 5 |-> Schema[k]] /\ Len(Schema) = 5
    /\ Schema[1] = St("create", "runs") /\ Schema[2] = St("create", "run_events")
    /\ Schema[3] = St("create", "error_text") /\ Schema[4] = St("create", "kind")
    /\ Schema[5] = St("rebuild?", "legacy")
BY DEF Schema, Create

\* Strings that are equal to none of the others.
LEMMA NamesDiffer ==
    /\ \A v \in Version : MarkOf(v) \notin Plain \cup {"begin", "legacy", "runs_new", ""}
    /\ \A v, w \in Version : MarkOf(v) = MarkOf(w) => v = w
    /\ StepNames \cap (RunsColumns \cup {"legacy", "runs_new", "begin"}) = {}
    /\ "runs_new" \notin Plain /\ "begin" \notin Plain /\ "legacy" \notin Plain
<1>1. Version = {2, 3, 4, 5}
  BY DEF Version
<1> USE <1>1
<1>2. StepNames = Needs(2) \cup Needs(3) \cup Needs(4) \cup Needs(5)
  BY DEF StepNames
<1>3. MarkOf(2) = "v2" /\ MarkOf(3) = "v3" /\ MarkOf(4) = "v4" /\ MarkOf(5) = "v5"
  BY DEF MarkOf
<1>4. \A v \in Version : MarkOf(v) \notin Plain \cup {"begin", "legacy", "runs_new", ""}
  <2>1. \A m \in {"v2", "v3", "v4", "v5"} : m \notin Plain \cup {"begin", "legacy", "runs_new", ""}
    BY <1>2, ZenonT(60) DEF Plain, Needs, RunsColumns
  <2> QED BY <1>3, <2>1
<1>5. \A v, w \in Version : MarkOf(v) = MarkOf(w) => v = w
  BY <1>3
<1>6. StepNames \cap (RunsColumns \cup {"legacy", "runs_new", "begin"}) = {}
  BY <1>2 DEF Needs, RunsColumns
<1>7. "runs_new" \notin Plain /\ "begin" \notin Plain /\ "legacy" \notin Plain
  BY <1>2 DEF Plain, Needs, RunsColumns
<1> QED BY <1>4, <1>5, <1>6, <1>7

\* What a sequence of statements that does not rebuild is.
Straight(s) ==
    /\ s \in Seq(Statements)
    /\ Covered(s, {})
    /\ \A k \in 1 .. Len(s) : s[k].kind \notin Moves

\* Nothing to do is straight.
LEMMA StraightEmpty == Straight(<<>>)
BY DEF Straight, Covered

\* One straight sequence after another is straight.
LEMMA StraightCat ==
    ASSUME NEW a, NEW b, Straight(a), Straight(b)
    PROVE  Straight(a \o b)
<1> DEFINE c == a \o b
<1>1. a \in Seq(Statements) /\ b \in Seq(Statements)
  BY DEF Straight
<1>2. /\ c \in Seq(Statements) /\ Len(c) = Len(a) + Len(b)
      /\ Len(a) \in Nat /\ Len(b) \in Nat
      /\ \A k \in 1 .. Len(a) : c[k] = a[k]
      /\ \A k \in 1 .. Len(b) : c[Len(a) + k] = b[k]
  BY <1>1
<1> HIDE DEF c
<1>3. \A k \in 1 .. Len(c) : k \in 1 .. Len(a) \/ (k - Len(a) \in 1 .. Len(b) /\ c[k] = b[k - Len(a)])
  <2> SUFFICES ASSUME NEW k \in 1 .. Len(c), k > Len(a)
               PROVE  k - Len(a) \in 1 .. Len(b) /\ c[k] = b[k - Len(a)]
    BY <1>2
  <2>1. k - Len(a) \in 1 .. Len(b) /\ Len(a) + (k - Len(a)) = k
    BY <1>2
  <2> QED BY <1>2, <2>1
<1>4. \A k \in 1 .. Len(c) : c[k].kind \notin Moves
  BY <1>2, <1>3 DEF Straight
<1>5. ASSUME NEW k \in 1 .. Len(c), NEW v \in Version, MarksVersion(c, k, v), NEW o \in Needs(v)
      PROVE  Creating(c, k, o)
  <2>1. CASE k \in 1 .. Len(a)
    <3>1. MarksVersion(a, k, v)
      BY <1>2, <1>5, <2>1 DEF MarksVersion
    <3>2. Creating(a, k, o)
      BY <2>1, <3>1 DEF Straight, Covered
    <3>3. \A j \in 1 .. k : c[j] = a[j]
      BY <1>2, <2>1
    <3> QED BY <3>2, <3>3 DEF Creating
  <2>2. CASE k \notin 1 .. Len(a)
    <3> DEFINE m == k - Len(a)
    <3>1. m \in 1 .. Len(b) /\ c[k] = b[m]
      BY <1>3, <2>2
    <3>2. MarksVersion(b, m, v)
      BY <1>5, <3>1 DEF MarksVersion
    <3>3. Creating(b, m, o)
      <4> HIDE DEF m
      <4> QED BY <3>1, <3>2 DEF Straight, Covered
    <3>4. PICK j \in 1 .. m : b[j].obj = o /\ b[j].kind \in {"create", "filled"}
      BY <3>3 DEF Creating
    <3>5. c[Len(a) + j] = b[j] /\ Len(a) + j \in 1 .. k
      BY <1>2, <3>1, <3>4
    <3> QED BY <3>4, <3>5 DEF Creating
  <2> QED BY <2>1, <2>2
<1>6. Covered(c, {})
  BY <1>5 DEF Covered
<1> QED BY <1>2, <1>4, <1>6 DEF Straight, c

\* A step that creates what its version needs and then marks it is straight.
LEMMA StraightStep ==
    ASSUME NEW v \in Version, NEW s, Len(s) \in Nat \ {0}, s = [k \in 1 .. Len(s) |-> s[k]],
           s[Len(s)] = St("mark", MarkOf(v)),
           \A k \in 1 .. Len(s) - 1 :
              s[k] = St(s[k].kind, s[k].obj) /\ s[k].kind \in Creates /\ s[k].obj \in Plain,
           \A o \in Needs(v) : Creating(s, Len(s) - 1, o)
    PROVE  Straight(s)
<1>0. Len(s) \in Nat \ {0}
  OBVIOUS
<1>1. \A k \in 1 .. Len(s) : k = Len(s) \/ k \in 1 .. Len(s) - 1
  BY <1>0
<1>2. s[Len(s)].kind = "mark" /\ s[Len(s)].obj = MarkOf(v) /\ MarkOf(v) \in Marks
  BY DEF St, Marks
<1>3. \A k \in 1 .. Len(s) : s[k] \in Statements
  <2> SUFFICES ASSUME NEW k \in 1 .. Len(s) PROVE s[k] \in Statements
    OBVIOUS
  <2>1. CASE k = Len(s)
    BY <1>2, <2>1 DEF Statements, Creates, Moves, St
  <2>2. CASE k \in 1 .. Len(s) - 1
    <3>1. s[k] = St(s[k].kind, s[k].obj) /\ s[k].kind \in Creates /\ s[k].obj \in Plain
      BY <2>2
    <3>2. \A a \in Creates : \A o \in Plain : St(a, o) \in Statements
      BY DEF Statements, Creates, Moves, St
    <3> QED BY <3>1, <3>2
  <2> QED BY <1>1, <2>1, <2>2
<1>4. s \in Seq(Statements)
  BY <1>0, <1>3
<1>5. Covered(s, {})
  <2> SUFFICES ASSUME NEW k \in 1 .. Len(s), NEW w \in Version, MarksVersion(s, k, w), NEW o \in Needs(w)
               PROVE  Creating(s, k, o)
    BY DEF Covered
  <2>1. k = Len(s)
    BY <1>1 DEF MarksVersion, Creates
  <2>2. w = v
    BY <1>2, <2>1, NamesDiffer DEF MarksVersion
  <2>3. \A j \in 1 .. Len(s) - 1 : j \in 1 .. k
    BY <1>0, <2>1
  <2> QED BY <2>2, <2>3 DEF Creating
<1>6. \A k \in 1 .. Len(s) : s[k].kind \notin Moves
  BY <1>1, <1>2 DEF Creates, Moves
<1> QED BY <1>4, <1>5, <1>6 DEF Straight

\* Each step of _init_db is straight.
LEMMA StepsStraight == Straight(Schema) /\ \A v \in Version : Straight(Steps[v])
<1>1. 2 \in Version /\ 3 \in Version /\ 4 \in Version /\ 5 \in Version
  BY DEF Version
<1>2. MarkOf(2) = "v2" /\ MarkOf(3) = "v3" /\ MarkOf(4) = "v4" /\ MarkOf(5) = "v5"
  BY DEF MarkOf
<1>3. Needs(2) \cup Needs(3) \cup Needs(4) \cup Needs(5) \subseteq Plain
  BY <1>1 DEF Plain, StepNames
<1>4. Straight(Schema)
  <2>1. \A k \in 1 .. 5 : Schema[k].kind \in {"create", "rebuild?"} /\ Schema[k] \in Statements
    <3>1. \A o \in {"runs", "run_events", "error_text", "kind"} : St("create", o) \in Statements
      BY DEF Statements, St, Creates, Moves, Plain, RunsColumns
    <3>2. St("rebuild?", "legacy") \in Statements
      BY DEF Statements, St, Creates, Moves
    <3>3. \A o : St("create", o).kind = "create" /\ St("rebuild?", o).kind = "rebuild?"
      BY DEF St
    <3> QED BY SchemaIs, <3>1, <3>2, <3>3
  <2>2. Schema \in Seq(Statements)
    BY <2>1, SchemaIs
  <2> QED BY <2>1, <2>2, SchemaIs DEF Straight, Covered, MarksVersion, Moves
<1>5. Straight(V2)
  <2>1. V2[Len(V2)] = St("mark", MarkOf(2)) /\ Len(V2) \in Nat \ {0}
    BY V2Is, <1>2
  <2>2. \A o \in Needs(2) : Creating(V2, Len(V2) - 1, o)
    BY V2Is DEF Needs, Creating, St
  <2>3. \A k \in 1 .. Len(V2) - 1 : V2[k] = St(V2[k].kind, V2[k].obj) /\ V2[k].kind \in Creates /\ V2[k].obj \in Plain
    BY V2Is, <1>3 DEF Needs, Creates, St
  <2> QED BY <1>1, <2>1, <2>2, <2>3, V2Is, StraightStep
<1>6. Straight(V3)
  <2>1. V3[Len(V3)] = St("mark", MarkOf(3)) /\ Len(V3) \in Nat \ {0}
    BY V3Is, <1>2
  <2>2. \A o \in Needs(3) : Creating(V3, Len(V3) - 1, o)
    BY V3Is DEF Needs, Creating, St
  <2>3. \A k \in 1 .. Len(V3) - 1 : V3[k] = St(V3[k].kind, V3[k].obj) /\ V3[k].kind \in Creates /\ V3[k].obj \in Plain
    BY V3Is, <1>3 DEF Needs, Creates, St, Plain
  <2> QED BY <1>1, <2>1, <2>2, <2>3, V3Is, StraightStep
<1>7. Straight(V4)
  <2>1. V4[Len(V4)] = St("mark", MarkOf(4)) /\ Len(V4) \in Nat \ {0}
    BY V4Is, <1>2
  <2>2. \A o \in Needs(4) : Creating(V4, Len(V4) - 1, o)
    BY V4Is DEF Needs, Creating, St
  <2>3. \A k \in 1 .. Len(V4) - 1 : V4[k] = St(V4[k].kind, V4[k].obj) /\ V4[k].kind \in Creates /\ V4[k].obj \in Plain
    BY V4Is, <1>3 DEF Needs, Creates, St, Plain
  <2> QED BY <1>1, <2>1, <2>2, <2>3, V4Is, StraightStep
<1>8. Straight(V5)
  <2>1. V5[Len(V5)] = St("mark", MarkOf(5)) /\ Len(V5) \in Nat \ {0}
    BY V5Is, <1>2
  <2>2. \A o \in Needs(5) : Creating(V5, Len(V5) - 1, o)
    BY V5Is DEF Needs, Creating, St
  <2>3. \A k \in 1 .. Len(V5) - 1 : V5[k] = St(V5[k].kind, V5[k].obj) /\ V5[k].kind \in Creates /\ V5[k].obj \in Plain
    BY V5Is, <1>3 DEF Needs, Creates, St
  <2> QED BY <1>1, <2>1, <2>2, <2>3, V5Is, StraightStep
<1> QED BY <1>4, <1>5, <1>6, <1>7, <1>8 DEF Steps, Version
(***************************************************************************)
(* Head and tail of the statements that are still to do.                        *)
(***************************************************************************)

\* The kind of the statement that comes next.
NextKind(s) == IF s = <<>> THEN "none" ELSE Head(s).kind

\* What user_version promises, and what is left to do will keep it.
SchemaInv ==
    /\ schemaAt \in {"down", "opening", "up", "failed"}
    /\ schemaAt # "opening" => todo = <<>>
    /\ todo \in Seq(Statements)
    /\ disk \subseteq Plain \cup Marks \cup {"legacy", "runs_new"}
    /\ pend \subseteq Plain \cup {"begin"}
    /\ \A v \in Version : MarkOf(v) \in disk => Needs(v) \subseteq disk
    /\ Covered(todo, disk \cup pend)
    /\ Chain(todo)

\* Where the rows are: runs_new exists only within the rebuild, or after it was cut.
RowInv ==
    /\ ever \subseteq inRuns \cup inNew
    /\ "runs_new" \notin disk => inRuns = ever /\ ~cut
    /\ "runs_new" \in disk /\ ~cut => NextKind(todo) \in {"copy", "drop", "rename"}
    /\ NextKind(todo) \in {"copy", "drop", "rename"} => "runs_new" \in disk /\ ~cut
    /\ NextKind(todo) = "copy" => inRuns = ever
    /\ NextKind(todo) \in {"drop", "rename"} => inNew = ever
    /\ schemaAt = "failed" => cut

\* The statements after the first.
LEMMA TailOf ==
    ASSUME NEW S, NEW s \in Seq(S), s # <<>>
    PROVE  /\ Tail(s) \in Seq(S) /\ Len(s) \in Nat \ {0} /\ Len(Tail(s)) = Len(s) - 1
           /\ Head(s) = s[1] /\ Head(s) \in S
           /\ \A k \in 1 .. Len(s) - 1 : Tail(s)[k] = s[k + 1]
           /\ \A k \in 1 .. Len(s) - 1 : k + 1 \in 1 .. Len(s)
           /\ NextKind(Tail(s)) = IF Len(s) = 1 THEN "none" ELSE s[2].kind
<1> DEFINE t == Tail(s)
<1>1. Len(s) \in Nat \ {0} /\ Head(s) = s[1] /\ s[1] \in S /\ t \in Seq(S) /\ Len(t) = Len(s) - 1
  OBVIOUS
<1>2. \A k \in 1 .. Len(s) - 1 : t[k] = s[k + 1] /\ k + 1 \in 1 .. Len(s)
  BY <1>1
<1> HIDE DEF t
<1>3. (t = <<>> <=> Len(t) = 0) /\ (t # <<>> => Head(t) = t[1])
  BY <1>1
<1>4. NextKind(t) = IF Len(s) = 1 THEN "none" ELSE s[2].kind
  <2>1. CASE Len(s) = 1
    BY <1>1, <1>3, <2>1 DEF NextKind
  <2>2. CASE Len(s) # 1
    <3>1. t # <<>> /\ 1 \in 1 .. Len(s) - 1 /\ 1 + 1 = 2
      BY <1>1, <1>3, <2>2
    <3> QED BY <1>2, <1>3, <2>2, <3>1 DEF NextKind
  <2> QED BY <2>1, <2>2
<1> QED BY <1>1, <1>2, <1>4 DEF t

\* What a statement leaves to do is still covered once what it creates is there.
LEMMA CoveredTail ==
    ASSUME NEW s \in Seq(Statements), s # <<>>, NEW old, NEW new, Covered(s, old),
           old \cap StepNames \subseteq new,
           Head(s).kind \in {"create", "filled"} => Head(s).obj \in new
    PROVE  Covered(Tail(s), new)
<1>1. /\ Len(s) \in Nat \ {0} /\ Len(Tail(s)) = Len(s) - 1 /\ Head(s) = s[1]
      /\ \A k \in 1 .. Len(s) - 1 : Tail(s)[k] = s[k + 1] /\ k + 1 \in 1 .. Len(s)
  BY TailOf
<1> DEFINE t == Tail(s)
<1> HIDE DEF t
<1> SUFFICES ASSUME NEW k \in 1 .. Len(s) - 1, NEW v \in Version, MarksVersion(t, k, v),
                    NEW o \in Needs(v), o \notin new
             PROVE  Creating(t, k, o)
  BY <1>1 DEF Covered, t
<1>2. t[k] = s[k + 1] /\ k + 1 \in 1 .. Len(s)
  BY <1>1 DEF t
<1>3. MarksVersion(s, k + 1, v)
  BY <1>2 DEF MarksVersion
<1>4. o \notin old
  BY DEF StepNames
<1>5. PICK j \in 1 .. k + 1 : s[j].obj = o /\ s[j].kind \in {"create", "filled"}
  BY <1>2, <1>3, <1>4 DEF Covered, Creating
<1>6. j # 1
  BY <1>1, <1>5
<1>7. j - 1 \in 1 .. k /\ j - 1 \in 1 .. Len(s) - 1 /\ (j - 1) + 1 = j
  BY <1>1, <1>5, <1>6
<1>8. t[j - 1] = s[j]
  BY <1>1, <1>7 DEF t
<1> QED BY <1>5, <1>7, <1>8 DEF Creating

\* Statements put in front change nothing about what is covered.
LEMMA CoveredFront ==
    ASSUME NEW a \in Seq(Statements), NEW s \in Seq(Statements), NEW have, Covered(s, have),
           \A k \in 1 .. Len(a) : a[k].kind # "mark"
    PROVE  Covered(a \o s, have)
<1> DEFINE c == a \o s
<1>1. /\ Len(c) = Len(a) + Len(s) /\ Len(a) \in Nat /\ Len(s) \in Nat
      /\ \A k \in 1 .. Len(a) : c[k] = a[k]
      /\ \A k \in 1 .. Len(s) : c[Len(a) + k] = s[k]
  OBVIOUS
<1> HIDE DEF c
<1> SUFFICES ASSUME NEW k \in 1 .. Len(c), NEW v \in Version, MarksVersion(c, k, v),
                    NEW o \in Needs(v), o \notin have
             PROVE  Creating(c, k, o)
  BY DEF Covered, c
<1>2. k \notin 1 .. Len(a)
  BY <1>1 DEF MarksVersion
<1> DEFINE m == k - Len(a)
<1>3. m \in 1 .. Len(s) /\ k = Len(a) + m
  BY <1>1, <1>2
<1> HIDE DEF m
<1>4. MarksVersion(s, m, v)
  BY <1>1, <1>3 DEF MarksVersion
<1>5. PICK j \in 1 .. m : s[j].obj = o /\ s[j].kind \in {"create", "filled"}
  BY <1>3, <1>4 DEF Covered, Creating
<1>6. c[Len(a) + j] = s[j] /\ Len(a) + j \in 1 .. k
  BY <1>1, <1>3, <1>5
<1> QED BY <1>5, <1>6 DEF Creating

\* The statements of the rebuild stay together.
LEMMA ChainTail ==
    ASSUME NEW s \in Seq(Statements), s # <<>>, Chain(s)
    PROVE  /\ Chain(Tail(s))
           /\ NextKind(Tail(s)) = "copy" <=> NextKind(s) = "new"
           /\ NextKind(Tail(s)) = "drop" <=> NextKind(s) = "copy"
           /\ NextKind(Tail(s)) = "rename" <=> NextKind(s) = "drop"
<1> DEFINE t == Tail(s)
<1>1. /\ Len(s) \in Nat \ {0} /\ Len(t) = Len(s) - 1 /\ Head(s) = s[1]
      /\ \A k \in 1 .. Len(s) - 1 : t[k] = s[k + 1] /\ k + 1 \in 1 .. Len(s)
      /\ NextKind(t) = IF Len(s) = 1 THEN "none" ELSE s[2].kind
  BY TailOf
<1> HIDE DEF t
<1>2. Chain(t)
  <2> SUFFICES ASSUME NEW k \in 1 .. Len(t)
               PROVE  /\ t[k].kind \in {"new", "copy", "drop"} => k < Len(t)
                      /\ k < Len(t) =>
                         /\ t[k + 1].kind = "copy"   <=> t[k].kind = "new"
                         /\ t[k + 1].kind = "drop"   <=> t[k].kind = "copy"
                         /\ t[k + 1].kind = "rename" <=> t[k].kind = "drop"
    BY DEF Chain
  <2>1. t[k] = s[k + 1] /\ k + 1 \in 1 .. Len(s)
    BY <1>1
  <2>2. k < Len(t) => k + 1 < Len(s) /\ t[k + 1] = s[(k + 1) + 1]
    BY <1>1
  <2>3. k + 1 < Len(s) => k < Len(t)
    BY <1>1
  <2> QED BY <2>1, <2>2, <2>3 DEF Chain
<1>3. NextKind(s) = s[1].kind
  BY <1>1 DEF NextKind
<1>4. 1 \in 1 .. Len(s) /\ (Len(s) = 1 <=> ~(1 < Len(s))) /\ 1 + 1 = 2
  BY <1>1
<1> QED BY <1>1, <1>2, <1>3, <1>4 DEF Chain, t

\* What is put in place of a statement outside of the rebuild.
LEMMA ChainFront ==
    ASSUME NEW a \in Seq(Statements), NEW s \in Seq(Statements), Chain(a), Chain(s), a # <<>>,
           NextKind(s) \notin {"copy", "drop", "rename"},
           a[Len(a)].kind \notin {"new", "copy", "drop"}
    PROVE  Chain(a \o s) /\ NextKind(a \o s) = a[1].kind
<1> DEFINE c == a \o s
<1>1. /\ Len(c) = Len(a) + Len(s) /\ Len(a) \in Nat \ {0} /\ Len(s) \in Nat
      /\ \A k \in 1 .. Len(a) : c[k] = a[k]
      /\ \A k \in 1 .. Len(s) : c[Len(a) + k] = s[k]
      /\ c # <<>> /\ Head(c) = c[1]
  OBVIOUS
<1>2. Len(s) > 0 => NextKind(s) = s[1].kind
  BY DEF NextKind
<1> HIDE DEF c
<1>3. NextKind(c) = a[1].kind
  BY <1>1 DEF NextKind
<1>4. ASSUME NEW k \in 1 .. Len(c)
      PROVE  /\ c[k].kind \in {"new", "copy", "drop"} => k < Len(c)
             /\ k < Len(c) =>
                /\ c[k + 1].kind = "copy"   <=> c[k].kind = "new"
                /\ c[k + 1].kind = "drop"   <=> c[k].kind = "copy"
                /\ c[k + 1].kind = "rename" <=> c[k].kind = "drop"
  <2>1. CASE k < Len(a)
    <3>1. k \in 1 .. Len(a) /\ k + 1 \in 1 .. Len(a) /\ k < Len(c)
      BY <1>1, <2>1
    <3> QED BY <1>1, <2>1, <3>1 DEF Chain
  <2>2. CASE k = Len(a)
    <3>1. c[k] = a[Len(a)]
      BY <1>1, <2>2
    <3>2. k < Len(c) => 1 \in 1 .. Len(s) /\ c[k + 1] = s[1] /\ Len(s) > 0
      BY <1>1, <2>2
    <3> QED BY <1>2, <3>1, <3>2
  <2>3. CASE k > Len(a)
    <3> DEFINE m == k - Len(a)
    <3>0. Len(c) = Len(a) + Len(s) /\ Len(a) \in Nat /\ Len(s) \in Nat
      BY <1>1
    <3>1. m \in 1 .. Len(s) /\ k = Len(a) + m /\ (m < Len(s) <=> k < Len(c))
      BY <3>0, <2>3
    <3> HIDE DEF m
    <3>2. c[k] = s[m]
      BY <1>1, <3>1
    <3>3. m < Len(s) => m + 1 \in 1 .. Len(s) /\ k + 1 = Len(a) + (m + 1)
      BY <1>1, <3>1
    <3>4. m < Len(s) => c[k + 1] = s[m + 1]
      BY <1>1, <3>3
    <3> QED BY <3>1, <3>2, <3>4 DEF Chain
  <2> QED BY <1>1, <2>1, <2>2, <2>3
<1> QED BY <1>3, <1>4 DEF Chain, c

(***************************************************************************)
(* The invariant, action by action.                                             *)
(***************************************************************************)

\* The objects of a step: what its version needs, its mark, a vector table.
LEMMA StepObjects ==
    ASSUME NEW v \in Version
    PROVE  /\ \A i \in DOMAIN Steps[v] :
                 /\ Steps[v][i].obj \in Plain \cup {MarkOf(v)}
                 /\ Steps[v][i].kind # "vec" => Steps[v][i].obj \in Needs(v) \cup {MarkOf(v)}
           /\ \A o \in Needs(v) : \E i \in DOMAIN Steps[v] : Steps[v][i].obj = o
<1>1. 2 \in Version /\ 3 \in Version /\ 4 \in Version /\ 5 \in Version
  BY DEF Version
<1>2. MarkOf(2) = "v2" /\ MarkOf(3) = "v3" /\ MarkOf(4) = "v4" /\ MarkOf(5) = "v5"
  BY DEF MarkOf
<1>3. Needs(v) \cup {"episode_vecs", "skill_vecs"} \subseteq Plain
  BY DEF Plain, StepNames
<1>4. CASE v = 2
  BY V2Is, <1>2, <1>3, <1>4 DEF Steps, Needs, St
<1>5. CASE v = 3
  BY V3Is, <1>2, <1>3, <1>5 DEF Steps, Needs, St
<1>6. CASE v = 4
  BY V4Is, <1>2, <1>3, <1>6 DEF Steps, Needs, St
<1>7. CASE v = 5
  BY V5Is, <1>2, <1>3, <1>7 DEF Steps, Needs, St
<1> QED BY <1>4, <1>5, <1>6, <1>7 DEF Version

\* A database as an earlier version left it has what its marks promise.
LEMMA MigrationInit == sInit => SchemaInv /\ RowInv
<1> SUFFICES ASSUME sInit PROVE SchemaInv /\ RowInv
  OBVIOUS
<1>1. /\ schemaAt = "down" /\ todo = <<>> /\ pend = {} /\ inNew = {} /\ ever = inRuns /\ cut = FALSE
      /\ \/ \E v \in 0 .. 5 : disk = Upto(v)
         \/ disk \in {{"runs", "run_events", "legacy"},
                      {"runs", "run_events", "legacy", "error_text", "kind"}}
  BY Zenon DEF sInit
<1>2. /\ disk \subseteq Plain \cup Marks \cup {"legacy"}
      /\ \A w \in Version : MarkOf(w) \in disk => Needs(w) \subseteq disk
  <2>1. ASSUME NEW v \in 0 .. 5, disk = Upto(v)
        PROVE  <1>2!1 /\ <1>2!2
    <3>1. CASE v = 0
      <4>1. disk = {}
        BY <2>1, <3>1 DEF Upto
      <4> QED BY <4>1
    <3>2. CASE v # 0
      <4>1. disk = RunsColumns \cup {"run_events"} \cup UNION {Objects(Steps[w]) : w \in 2 .. v}
        BY <2>1, <3>2 DEF Upto
      <4>2. \A w \in 2 .. v : w \in Version
        BY DEF Version
      <4>3. \A w \in 2 .. v : Objects(Steps[w]) \subseteq Plain \cup {MarkOf(w)}
        BY <4>2, StepObjects DEF Objects
      <4>4. \A w \in 2 .. v : Needs(w) \subseteq Objects(Steps[w])
        BY <4>2, StepObjects DEF Objects
      <4>5. RunsColumns \cup {"run_events"} \subseteq Plain
        BY DEF Plain
      <4>6. disk \subseteq Plain \cup Marks
        BY <4>1, <4>2, <4>3, <4>5 DEF Marks
      <4>7. ASSUME NEW w \in Version, MarkOf(w) \in disk
            PROVE  Needs(w) \subseteq disk
        <5>1. MarkOf(w) \notin Plain
          BY NamesDiffer
        <5>2. PICK u \in 2 .. v : MarkOf(w) \in Objects(Steps[u])
          BY <4>1, <4>5, <4>7, <5>1
        <5>3. MarkOf(w) = MarkOf(u)
          BY <4>3, <5>1, <5>2
        <5>4. w = u
          BY <4>2, <5>3, NamesDiffer
        <5> QED BY <4>1, <4>4, <5>4
      <4> QED BY <4>6, <4>7
    <3> QED BY <3>1, <3>2
  <2>2. ASSUME disk \in {{"runs", "run_events", "legacy"},
                         {"runs", "run_events", "legacy", "error_text", "kind"}}
        PROVE  <1>2!1 /\ <1>2!2
    <3>1. disk \subseteq Plain \cup {"legacy"}
      BY <2>2 DEF Plain, RunsColumns
    <3>2. \A w \in Version : MarkOf(w) \notin disk
      BY <3>1, NamesDiffer
    <3> QED BY <3>1, <3>2
  <2> QED BY <1>1, <2>1, <2>2
<1>3. "runs_new" \notin disk
  <2>1. \A w \in Version : MarkOf(w) # "runs_new"
    BY NamesDiffer
  <2> QED BY <1>2, <2>1, NamesDiffer DEF Marks
<1>4. NextKind(todo) = "none"
  BY <1>1 DEF NextKind
<1>5. todo \in Seq(Statements) /\ Covered(todo, disk \cup pend) /\ Chain(todo)
  BY <1>1 DEF Covered, Chain
<1>6. SchemaInv
  BY <1>1, <1>2, <1>5 DEF SchemaInv
<1>7. RowInv
  BY <1>1, <1>3, <1>4 DEF RowInv
<1> QED BY <1>6, <1>7

\* An open repeats every step that is not marked.
LEMMA MigrationOpen == SchemaInv /\ RowInv /\ (\E v \in BOOLEAN : Open(v)) => SchemaInv' /\ RowInv'
<1> SUFFICES ASSUME SchemaInv, RowInv, NEW v \in BOOLEAN, Open(v) PROVE SchemaInv' /\ RowInv'
  OBVIOUS
<1>1. /\ schemaAt \in {"down", "failed"} /\ schemaAt' = "opening"
      /\ todo' = Schema \o Due(2) \o Due(3) \o Due(4) \o Due(5)
      /\ UNCHANGED <<disk, pend, inRuns, inNew, ever, cut>>
  BY Zenon DEF Open, rowVars
<1>2. \A w \in Version : Straight(Due(w))
  BY StepsStraight, StraightEmpty DEF Due
<1>3. 2 \in Version /\ 3 \in Version /\ 4 \in Version /\ 5 \in Version
  BY DEF Version
<1>4. Straight(todo')
  <2>1. Straight(Schema \o Due(2))
    BY <1>2, <1>3, StepsStraight, StraightCat
  <2>2. Straight((Schema \o Due(2)) \o Due(3))
    BY <2>1, <1>2, <1>3, StraightCat
  <2>3. Straight(((Schema \o Due(2)) \o Due(3)) \o Due(4))
    BY <2>2, <1>2, <1>3, StraightCat
  <2> QED BY <1>1, <2>3, <1>2, <1>3, StraightCat
<1> DEFINE t == todo'
<1> HIDE DEF t
<1>5. t \in Seq(Statements) /\ Covered(t, {}) /\ \A k \in 1 .. Len(t) : t[k].kind \notin Moves
  BY <1>4 DEF Straight, t
<1>6. Covered(t, disk \cup pend)
  BY <1>5 DEF Covered
<1>7. Chain(t)
  <2>1. \A k \in 1 .. Len(t) : k < Len(t) => k + 1 \in 1 .. Len(t)
    BY <1>5
  <2> QED BY <1>5, <2>1 DEF Chain, Moves
<1>8. NextKind(t) \notin {"copy", "drop", "rename"}
  <2>1. CASE t = <<>>
    BY <2>1 DEF NextKind
  <2>2. CASE t # <<>>
    <3>1. Head(t) = t[1] /\ 1 \in 1 .. Len(t)
      BY <1>5, <2>2
    <3> QED BY <1>5, <2>2, <3>1 DEF NextKind, Moves
  <2> QED BY <2>1, <2>2
<1>9. NextKind(todo) = "none"
  BY <1>1 DEF NextKind, SchemaInv
<1>10. SchemaInv'
  BY <1>1, <1>5, <1>6, <1>7 DEF SchemaInv, t
<1>11. RowInv'
  <2>1. "runs_new" \in disk => cut
    BY <1>9 DEF RowInv
  <2> QED BY <1>1, <1>8, <2>1 DEF RowInv, t
<1> QED BY <1>10, <1>11

\* The next statement and those after it.
LEMMA Following ==
    ASSUME SchemaInv, todo # <<>>
    PROVE  /\ Head(todo) \in Statements /\ NextKind(todo) = Head(todo).kind
           /\ Tail(todo) \in Seq(Statements) /\ Chain(Tail(todo))
           /\ NextKind(Tail(todo)) = "copy" <=> Head(todo).kind = "new"
           /\ NextKind(Tail(todo)) = "drop" <=> Head(todo).kind = "copy"
           /\ NextKind(Tail(todo)) = "rename" <=> Head(todo).kind = "drop"
<1>1. todo \in Seq(Statements) /\ Chain(todo)
  BY DEF SchemaInv
<1>2. NextKind(todo) = Head(todo).kind
  BY DEF NextKind
<1>3. Head(todo) \in Statements /\ Tail(todo) \in Seq(Statements)
  BY <1>1, TailOf
<1> QED BY <1>1, <1>2, <1>3, ChainTail

\* A statement outside of the moves of the rebuild.
LEMMA Proceed ==
    ASSUME SchemaInv, RowInv, todo # <<>>, Head(todo).kind \notin Moves,
           UNCHANGED <<schemaAt, inRuns, inNew, ever, cut>>, schemaAt = "opening",
           disk' \subseteq Plain \cup Marks \cup {"legacy", "runs_new"},
           "runs_new" \in disk' <=> "runs_new" \in disk,
           pend' \subseteq Plain \cup {"begin"},
           \A v \in Version : MarkOf(v) \in disk' => Needs(v) \subseteq disk',
           todo' \in Seq(Statements), Covered(todo', disk' \cup pend'), Chain(todo'),
           NextKind(todo') \notin {"copy", "drop", "rename"}
    PROVE  SchemaInv' /\ RowInv'
<1>1. NextKind(todo) \notin {"copy", "drop", "rename"}
  BY Following DEF Moves
<1>2. SchemaInv'
  BY DEF SchemaInv
<1>3. RowInv'
  BY <1>1 DEF RowInv
<1> QED BY <1>2, <1>3

\* Objects that are no marks join the open transaction or are committed.
LEMMA PutKeeps ==
    ASSUME SchemaInv, NEW objs \in SUBSET Plain, Put(objs)
    PROVE  /\ disk' \subseteq Plain \cup Marks \cup {"legacy", "runs_new"}
           /\ "runs_new" \in disk' <=> "runs_new" \in disk
           /\ pend' \subseteq Plain \cup {"begin"}
           /\ \A v \in Version : MarkOf(v) \in disk' => Needs(v) \subseteq disk'
           /\ disk \cup pend \cup objs \subseteq disk' \cup pend'
<1>1. /\ disk \subseteq disk' /\ disk' \subseteq disk \cup objs
      /\ pend' \subseteq pend \cup objs
      /\ disk \cup pend \cup objs \subseteq disk' \cup pend'
  BY DEF Put
<1>2. /\ disk \subseteq Plain \cup Marks \cup {"legacy", "runs_new"} /\ pend \subseteq Plain \cup {"begin"}
      /\ \A v \in Version : MarkOf(v) \in disk => Needs(v) \subseteq disk
  BY DEF SchemaInv
<1>3. "runs_new" \notin objs /\ \A v \in Version : MarkOf(v) \notin objs
  BY NamesDiffer
<1>4. \A v \in Version : MarkOf(v) \in disk' => Needs(v) \subseteq disk'
  BY <1>1, <1>2, <1>3
<1> QED BY <1>1, <1>2, <1>3, <1>4

\* The four statements of the rebuild.
LEMMA RebuildChain ==
    /\ Rebuild \in Seq(Statements) /\ Rebuild # <<>> /\ Chain(Rebuild)
    /\ \A k \in 1 .. Len(Rebuild) : Rebuild[k].kind # "mark"
    /\ Rebuild[1].kind = "new" /\ Rebuild[Len(Rebuild)].kind = "rename"
<1>0. Rebuild = [k \in 1 .. 4 |-> Rebuild[k]]
  BY DEF Rebuild
<1>1. /\ Len(Rebuild) = 4 /\ Rebuild # <<>>
      /\ Rebuild[1] = St("new", "runs_new") /\ Rebuild[2] = St("copy", "")
      /\ Rebuild[3] = St("drop", "") /\ Rebuild[4] = St("rename", "")
  BY DEF Rebuild
<1>2. \A m \in Moves : \A o \in {"runs_new", ""} : St(m, o) \in Statements /\ St(m, o).kind = m
  BY DEF St, Statements, Creates, Moves
<1>3. Rebuild[1].kind = "new" /\ Rebuild[2].kind = "copy" /\ Rebuild[3].kind = "drop" /\ Rebuild[4].kind = "rename"
  BY <1>1, <1>2 DEF Moves
<1>4. \A k \in 1 .. 4 : Rebuild[k] \in Statements
  <2>1. "new" \in Moves /\ "copy" \in Moves /\ "drop" \in Moves /\ "rename" \in Moves
    BY DEF Moves
  <2>2. Rebuild[1] \in Statements /\ Rebuild[2] \in Statements /\ Rebuild[3] \in Statements /\ Rebuild[4] \in Statements
    BY <1>1, <1>2, <2>1
  <2>3. \A k \in 1 .. 4 : k = 1 \/ k = 2 \/ k = 3 \/ k = 4
    OBVIOUS
  <2> QED BY <2>2, <2>3
<1>5. Rebuild \in Seq(Statements)
  BY <1>0, <1>4
<1>6. ASSUME NEW k \in 1 .. 4
      PROVE  /\ Rebuild[k].kind # "mark"
             /\ Rebuild[k].kind \in {"new", "copy", "drop"} => k < 4
             /\ k < 4 =>
                /\ Rebuild[k + 1].kind = "copy"   <=> Rebuild[k].kind = "new"
                /\ Rebuild[k + 1].kind = "drop"   <=> Rebuild[k].kind = "copy"
                /\ Rebuild[k + 1].kind = "rename" <=> Rebuild[k].kind = "drop"
  <2>1. k = 1 \/ k = 2 \/ k = 3 \/ k = 4
    OBVIOUS
  <2>2. 1 + 1 = 2 /\ 2 + 1 = 3 /\ 3 + 1 = 4
    OBVIOUS
  <2> QED BY <1>3, <2>1, <2>2
<1>7. Chain(Rebuild)
  BY <1>1, <1>6 DEF Chain
<1> QED BY <1>1, <1>3, <1>5, <1>6, <1>7

\* The statements that create or skip something, mark a version or start the rebuild.
LEMMA MigrationSchema ==
    ASSUME SchemaInv, RowInv,
           CreateObject \/ SkipVec \/ AddFilledColumn \/ FillColumn \/ MarkVersion \/ RebuildIfLegacy
    PROVE  SchemaInv' /\ RowInv'
<1> DEFINE h == Head(todo)
           t == Tail(todo)
<1>1. todo # <<>> /\ schemaAt = "opening" /\ UNCHANGED <<schemaAt, inRuns, inNew, ever, cut>>
  <2>1. CASE CreateObject
    BY <2>1, Zenon DEF CreateObject, Statement, rowVars
  <2>2. CASE SkipVec
    BY <2>2, Zenon DEF SkipVec, Statement, rowVars
  <2>3. CASE AddFilledColumn
    BY <2>3, Zenon DEF AddFilledColumn, Statement, rowVars
  <2>4. CASE FillColumn
    BY <2>4, Zenon DEF FillColumn, Statement, rowVars
  <2>5. CASE MarkVersion
    BY <2>5, Zenon DEF MarkVersion, Statement, rowVars
  <2>6. CASE RebuildIfLegacy
    BY <2>6, Zenon DEF RebuildIfLegacy, Statement, rowVars
  <2> QED BY <2>1, <2>2, <2>3, <2>4, <2>5, <2>6
<1>2. /\ h \in Statements /\ NextKind(todo) = h.kind /\ t \in Seq(Statements) /\ Chain(t)
      /\ NextKind(t) = "copy" <=> h.kind = "new"
      /\ NextKind(t) = "drop" <=> h.kind = "copy"
      /\ NextKind(t) = "rename" <=> h.kind = "drop"
  BY <1>1, Following
<1>3. /\ todo \in Seq(Statements) /\ Covered(todo, disk \cup pend) /\ pend \subseteq Plain \cup {"begin"}
      /\ disk \subseteq Plain \cup Marks \cup {"legacy", "runs_new"}
      /\ \A v \in Version : MarkOf(v) \in disk => Needs(v) \subseteq disk
  BY DEF SchemaInv
<1>4. /\ h.kind \in Creates => h.obj \in Plain
      /\ h.kind = "mark" => h.obj \in Marks
      /\ h.kind = "update" => h.obj = "begin"
  BY <1>2 DEF Statements
<1>5. \A new : /\ (disk \cup pend) \cap StepNames \subseteq new
               /\ h.kind \in {"create", "filled"} => h.obj \in new
               => Covered(t, new)
  BY <1>1, <1>3, CoveredTail
<1> HIDE DEF h, t
<1>6. CASE CreateObject
  <2>1. /\ h.kind \in {"create", "vec"} /\ todo' = t
        /\ IF Present(h.obj) THEN UNCHANGED <<disk, pend>>
           ELSE Put(IF h.obj = "runs" THEN RunsColumns ELSE {h.obj})
    BY <1>6, Zenon DEF CreateObject, Statement, Done, h, t
  <2>2. h.obj \in Plain /\ h.kind \notin Moves
    BY <1>4, <2>1 DEF Creates, Moves
  <2>3. /\ disk' \subseteq Plain \cup Marks \cup {"legacy", "runs_new"}
        /\ "runs_new" \in disk' <=> "runs_new" \in disk
        /\ pend' \subseteq Plain \cup {"begin"}
        /\ \A v \in Version : MarkOf(v) \in disk' => Needs(v) \subseteq disk'
        /\ disk \cup pend \cup {h.obj} \subseteq disk' \cup pend'
    <3>1. CASE Present(h.obj)
      BY <1>3, <2>1, <3>1 DEF Present
    <3>2. CASE ~Present(h.obj)
      <4> DEFINE objs == IF h.obj = "runs" THEN RunsColumns ELSE {h.obj}
      <4>1. objs \in SUBSET Plain /\ h.obj \in objs
        BY <2>2 DEF Plain, RunsColumns
      <4>2. Put(objs)
        BY <2>1, <3>2
      <4> HIDE DEF objs
      <4> QED BY <4>1, <4>2, PutKeeps
    <3> QED BY <3>1, <3>2
  <2>4. Covered(todo', disk' \cup pend')
    BY <1>5, <2>1, <2>3
  <2>5. NextKind(todo') \notin {"copy", "drop", "rename"}
    BY <1>2, <2>1
  <2> QED BY <1>1, <1>2, <2>1, <2>2, <2>3, <2>4, <2>5, Proceed DEF h
<1>7. CASE SkipVec
  <2>1. h.kind = "vec" /\ todo' = t /\ UNCHANGED <<disk, pend>>
    BY <1>7, Zenon DEF SkipVec, Statement, Done, h, t
  <2>2. Covered(todo', disk' \cup pend') /\ NextKind(todo') \notin {"copy", "drop", "rename"} /\ h.kind \notin Moves
    BY <1>2, <1>5, <2>1 DEF Moves
  <2> QED BY <1>1, <1>2, <1>3, <2>1, <2>2, Proceed DEF h
<1>8. CASE AddFilledColumn
  <2>1. /\ h.kind = "filled"
        /\ IF Present(h.obj) THEN todo' = t /\ UNCHANGED <<disk, pend>>
           ELSE Put({h.obj}) /\ todo' = <<St("update", "begin")>> \o t
    BY <1>8, Zenon DEF AddFilledColumn, Statement, Done, h, t
  <2>2. h.obj \in Plain /\ h.kind \notin Moves
    BY <1>4, <2>1 DEF Creates, Moves
  <2>3. /\ disk' \subseteq Plain \cup Marks \cup {"legacy", "runs_new"}
        /\ "runs_new" \in disk' <=> "runs_new" \in disk
        /\ pend' \subseteq Plain \cup {"begin"}
        /\ \A v \in Version : MarkOf(v) \in disk' => Needs(v) \subseteq disk'
        /\ disk \cup pend \cup {h.obj} \subseteq disk' \cup pend'
    <3>1. CASE Present(h.obj)
      BY <1>3, <2>1, <3>1 DEF Present
    <3>2. CASE ~Present(h.obj)
      BY <2>1, <2>2, <3>2, PutKeeps
    <3> QED BY <3>1, <3>2
  <2>4. Covered(t, disk' \cup pend')
    BY <1>5, <2>3
  <2>5. NextKind(t) \notin {"copy", "drop", "rename"}
    BY <1>2, <2>1
  <2>6. /\ todo' \in Seq(Statements) /\ Covered(todo', disk' \cup pend') /\ Chain(todo')
        /\ NextKind(todo') \notin {"copy", "drop", "rename"}
    <3>1. CASE Present(h.obj)
      BY <1>2, <2>1, <2>4, <2>5, <3>1
    <3>2. CASE ~Present(h.obj)
      <4> DEFINE a == <<St("update", "begin")>>
      <4>1. St("update", "begin") \in Statements /\ St("update", "begin").kind = "update"
        BY DEF St, Statements, Creates, Moves
      <4>2. a \in Seq(Statements) /\ a # <<>> /\ Len(a) = 1 /\ a[1] = St("update", "begin")
        BY <4>1
      <4>3. todo' = a \o t
        BY <2>1, <3>2
      <4> HIDE DEF a
      <4>4. \A k \in 1 .. Len(a) : k = 1 /\ a[k].kind = "update"
        BY <4>1, <4>2
      <4>5. Chain(a)
        BY <4>2, <4>4 DEF Chain
      <4>6. Covered(a \o t, disk' \cup pend') /\ a \o t \in Seq(Statements)
        BY <1>2, <2>4, <4>2, <4>4, CoveredFront
      <4>7. Chain(a \o t) /\ NextKind(a \o t) = "update"
        BY <1>2, <2>5, <4>1, <4>2, <4>5, ChainFront
      <4> QED BY <4>3, <4>6, <4>7
    <3> QED BY <3>1, <3>2
  <2> QED BY <1>1, <2>2, <2>3, <2>6, Proceed DEF h
<1>9. CASE FillColumn
  <2>1. h.kind = "update" /\ todo' = t /\ disk' = disk /\ pend' = pend \cup {h.obj}
    BY <1>9, Zenon DEF FillColumn, Statement, Done, h, t
  <2>2. pend' \subseteq Plain \cup {"begin"} /\ disk \cup pend \subseteq disk' \cup pend'
    BY <1>3, <1>4, <2>1
  <2>3. Covered(todo', disk' \cup pend') /\ NextKind(todo') \notin {"copy", "drop", "rename"} /\ h.kind \notin Moves
    BY <1>2, <1>5, <2>1, <2>2 DEF Moves
  <2> QED BY <1>1, <1>2, <1>3, <2>1, <2>2, <2>3, Proceed DEF h
<1>10. CASE MarkVersion
  <2>1. h.kind = "mark" /\ todo' = t /\ disk' = disk \cup (pend \ {"begin"}) \cup {h.obj} /\ pend' = {}
    BY <1>10, Zenon DEF MarkVersion, Statement, Done, h, t
  <2>2. PICK w \in Version : h.obj = MarkOf(w)
    BY <1>4, <2>1 DEF Marks
  <2>3. Needs(w) \subseteq disk \cup pend
    <3>1. todo[1] = h /\ Len(todo) \in Nat \ {0} /\ 1 \in 1 .. Len(todo)
      BY <1>1, <1>3, TailOf DEF h
    <3>2. MarksVersion(todo, 1, w)
      BY <2>1, <2>2, <3>1 DEF MarksVersion
    <3>3. \A o : ~Creating(todo, 1, o)
      BY <2>1, <3>1 DEF Creating
    <3> QED BY <1>3, <3>1, <3>2, <3>3 DEF Covered
  <2>4. ASSUME NEW v \in Version, MarkOf(v) \in disk'
        PROVE  Needs(v) \subseteq disk'
    <3>1. "begin" \notin Needs(v) /\ Needs(v) \subseteq StepNames
      BY NamesDiffer DEF StepNames
    <3>2. MarkOf(v) \notin pend
      BY <1>3, NamesDiffer
    <3>3. CASE v = w
      BY <2>1, <2>3, <3>1, <3>3
    <3>4. CASE v # w
      <4>1. MarkOf(v) \in disk
        BY <2>1, <2>2, <2>4, <3>2, <3>4, NamesDiffer
      <4> QED BY <1>3, <2>1, <4>1
    <3> QED BY <3>3, <3>4
  <2>5. h.obj \in Marks /\ h.obj # "runs_new"
    BY <2>2, NamesDiffer DEF Marks
  <2>6. "runs_new" \notin pend
    BY <1>3, NamesDiffer
  <2>7. disk' \subseteq Plain \cup Marks \cup {"legacy", "runs_new"} /\ pend' \subseteq Plain \cup {"begin"}
    BY <1>3, <2>1, <2>5
  <2>8. "runs_new" \in disk' <=> "runs_new" \in disk
    BY <2>1, <2>5, <2>6
  <2>9. "begin" \notin StepNames
    BY NamesDiffer
  <2>10. (disk \cup pend) \cap StepNames \subseteq disk' \cup pend'
    BY <2>1, <2>9
  <2>11. Covered(todo', disk' \cup pend') /\ NextKind(todo') \notin {"copy", "drop", "rename"} /\ h.kind \notin Moves
    BY <1>2, <1>5, <2>1, <2>10 DEF Moves
  <2> QED BY <1>1, <1>2, <2>1, <2>4, <2>7, <2>8, <2>11, Proceed DEF h
<1>11. CASE RebuildIfLegacy
  <2>1. /\ h.kind = "rebuild?" /\ UNCHANGED <<disk, pend>>
        /\ todo' = (IF "legacy" \in disk THEN Rebuild ELSE <<>>) \o t
    BY <1>11, Zenon DEF RebuildIfLegacy, Statement, h, t
  <2>2. Covered(t, disk' \cup pend') /\ NextKind(t) \notin {"copy", "drop", "rename"} /\ h.kind \notin Moves
    BY <1>2, <1>5, <2>1 DEF Moves
  <2>3. /\ todo' \in Seq(Statements) /\ Covered(todo', disk' \cup pend') /\ Chain(todo')
        /\ NextKind(todo') \notin {"copy", "drop", "rename"}
    <3>1. CASE "legacy" \notin disk
      <4>1. todo' = t
        BY <1>2, <2>1, <3>1
      <4> QED BY <1>2, <2>2, <4>1
    <3>2. CASE "legacy" \in disk
      <4>1. todo' = Rebuild \o t
        BY <2>1, <3>2
      <4>2. Covered(Rebuild \o t, disk' \cup pend') /\ Rebuild \o t \in Seq(Statements)
        BY <1>2, <2>2, RebuildChain, CoveredFront
      <4>3. Chain(Rebuild \o t) /\ NextKind(Rebuild \o t) = "new"
        BY <1>2, <2>2, RebuildChain, ChainFront
      <4> QED BY <4>1, <4>2, <4>3
    <3> QED BY <3>1, <3>2
  <2> QED BY <1>1, <1>3, <2>1, <2>2, <2>3, Proceed DEF h
<1> QED BY <1>6, <1>7, <1>8, <1>9, <1>10, <1>11

\* The moves of the rebuild; the rows are in one of the two tables throughout.
LEMMA MigrationMoves ==
    ASSUME SchemaInv, RowInv, CreateNew \/ CopyRows \/ DropRuns \/ RenameNew
    PROVE  SchemaInv' /\ RowInv'
<1> DEFINE h == Head(todo)
           t == Tail(todo)
<1>1. todo # <<>> /\ schemaAt = "opening" /\ h.kind \in Moves /\ pend' = pend /\ ever' = ever /\ cut' = cut
  <2>1. CASE CreateNew
    BY <2>1, SMT DEF CreateNew, Statement, rowVars, Moves
  <2>2. CASE CopyRows
    BY <2>2, SMT DEF CopyRows, Statement, Moves
  <2>3. CASE DropRuns
    BY <2>3, SMT DEF DropRuns, Statement, Moves
  <2>4. CASE RenameNew
    BY <2>4, SMT DEF RenameNew, Statement, Moves
  <2> QED BY <2>1, <2>2, <2>3, <2>4
<1>2. /\ NextKind(todo) = h.kind /\ t \in Seq(Statements) /\ Chain(t)
      /\ NextKind(t) = "copy" <=> h.kind = "new"
      /\ NextKind(t) = "drop" <=> h.kind = "copy"
      /\ NextKind(t) = "rename" <=> h.kind = "drop"
  BY <1>1, Following
<1>3. /\ todo \in Seq(Statements) /\ Covered(todo, disk \cup pend) /\ pend \subseteq Plain \cup {"begin"}
      /\ disk \subseteq Plain \cup Marks \cup {"legacy", "runs_new"}
      /\ \A v \in Version : MarkOf(v) \in disk => Needs(v) \subseteq disk
  BY DEF SchemaInv
<1>4. \A new : (disk \cup pend) \cap StepNames \subseteq new => Covered(t, new)
  BY <1>1, <1>3, CoveredTail DEF Moves
<1>5. /\ \A v \in Version : MarkOf(v) \notin RunsColumns \cup {"legacy", "runs_new"}
      /\ \A v \in Version : Needs(v) \cap (RunsColumns \cup {"legacy", "runs_new"}) = {}
      /\ StepNames \cap (RunsColumns \cup {"legacy", "runs_new"}) = {}
      /\ RunsColumns \subseteq Plain /\ "runs_new" \notin RunsColumns \cup {"legacy"}
  <2>1. RunsColumns \subseteq Plain /\ \A v \in Version : Needs(v) \subseteq StepNames
    BY DEF Plain, StepNames
  <2>2. "runs_new" \notin RunsColumns \cup {"legacy"}
    BY DEF RunsColumns
  <2> QED BY <2>1, <2>2, NamesDiffer
<1>6. /\ ever \subseteq inRuns \cup inNew
      /\ "runs_new" \notin disk => inRuns = ever /\ ~cut
      /\ "runs_new" \in disk /\ ~cut => h.kind \in {"copy", "drop", "rename"}
      /\ h.kind \in {"copy", "drop", "rename"} => "runs_new" \in disk /\ ~cut
      /\ h.kind = "copy" => inRuns = ever
      /\ h.kind \in {"drop", "rename"} => inNew = ever
  BY <1>2 DEF RowInv
<1> HIDE DEF h, t
\* What is promised and covered does not depend on the tables the moves are about.
<1>7. ASSUME todo' = t, schemaAt' = "opening", disk' \subseteq disk \cup RunsColumns \cup {"runs_new"},
             disk \subseteq disk' \cup RunsColumns \cup {"legacy", "runs_new"}
      PROVE  SchemaInv'
  <2>1. disk' \subseteq Plain \cup Marks \cup {"legacy", "runs_new"}
    BY <1>3, <1>5, <1>7
  <2>2. ASSUME NEW v \in Version, MarkOf(v) \in disk'
        PROVE  Needs(v) \subseteq disk'
    BY <1>3, <1>5, <1>7, <2>2
  <2>3. (disk \cup pend) \cap StepNames \subseteq disk' \cup pend'
    BY <1>1, <1>5, <1>7
  <2>4. Covered(t, disk' \cup pend')
    BY <1>4, <2>3
  <2> QED BY <1>1, <1>2, <1>3, <1>7, <2>1, <2>2, <2>4 DEF SchemaInv
<1>8. CASE CreateNew
  <2>1. /\ h.kind = "new" /\ UNCHANGED <<pend, vec, inRuns, inNew, ever, cut>>
        /\ IF "runs_new" \in disk THEN schemaAt' = "failed" /\ todo' = <<>> /\ UNCHANGED disk
           ELSE disk' = disk \cup {"runs_new"} /\ todo' = t /\ UNCHANGED schemaAt
    BY <1>8, Zenon DEF CreateNew, Statement, Done, rowVars, h, t
  <2>2. CASE "runs_new" \in disk
    <3>1. cut
      BY <1>6, <2>1, <2>2
    <3>2. NextKind(todo') = "none" /\ Covered(todo', disk' \cup pend') /\ Chain(todo') /\ todo' \in Seq(Statements)
      BY <2>1, <2>2 DEF NextKind, Covered, Chain
    <3>3. SchemaInv'
      BY <1>3, <2>1, <2>2, <3>2 DEF SchemaInv
    <3>4. RowInv'
      BY <1>6, <2>1, <2>2, <3>1, <3>2 DEF RowInv
    <3> QED BY <3>3, <3>4
  <2>3. CASE "runs_new" \notin disk
    <3>1. SchemaInv'
      BY <1>1, <1>7, <2>1, <2>3
    <3>2. NextKind(todo') = "copy"
      BY <1>2, <2>1, <2>3
    <3>3. RowInv'
      BY <1>1, <1>6, <2>1, <2>3, <3>2 DEF RowInv
    <3> QED BY <3>1, <3>3
  <2> QED BY <2>2, <2>3
<1>9. CASE CopyRows
  <2>1. /\ h.kind = "copy" /\ inNew' = inRuns /\ todo' = t
        /\ UNCHANGED <<schemaAt, disk, pend, inRuns, ever, cut>>
    BY <1>9, Zenon DEF CopyRows, Statement, Done, h, t
  <2>2. SchemaInv'
    BY <1>1, <1>7, <2>1
  <2>3. NextKind(todo') = "drop"
    BY <1>2, <2>1
  <2>4. RowInv'
    BY <1>1, <1>6, <2>1, <2>3 DEF RowInv
  <2> QED BY <2>2, <2>4
<1>10. CASE DropRuns
  <2>1. /\ h.kind = "drop" /\ disk' = disk \ (RunsColumns \cup {"legacy"}) /\ inRuns' = {} /\ todo' = t
        /\ UNCHANGED <<schemaAt, pend, inNew, ever, cut>>
    BY <1>10, Zenon DEF DropRuns, Statement, Done, h, t
  <2>2. SchemaInv'
    BY <1>1, <1>7, <2>1
  <2>3. NextKind(todo') = "rename" /\ "runs_new" \in disk'
    BY <1>2, <1>5, <1>6, <2>1
  <2>4. RowInv'
    BY <1>1, <1>6, <2>1, <2>3 DEF RowInv
  <2> QED BY <2>2, <2>4
<1>11. CASE RenameNew
  <2>1. /\ h.kind = "rename" /\ disk' = (disk \ {"runs_new"}) \cup RunsColumns
        /\ inRuns' = inNew /\ inNew' = {} /\ todo' = t
        /\ UNCHANGED <<schemaAt, pend, ever, cut>>
    BY <1>11, Zenon DEF RenameNew, Statement, Done, h, t
  <2>2. SchemaInv'
    BY <1>1, <1>7, <2>1
  <2>3. NextKind(todo') \notin {"copy", "drop", "rename"} /\ "runs_new" \notin disk'
    BY <1>2, <1>5, <2>1
  <2>4. RowInv'
    BY <1>1, <1>6, <2>1, <2>3 DEF RowInv
  <2> QED BY <2>2, <2>4
<1> QED BY <1>8, <1>9, <1>10, <1>11

\* The store is open, a row is inserted, the process stops or dies.
LEMMA MigrationRest ==
    ASSUME SchemaInv, RowInv, Opened \/ Stop \/ \E r \in Rows : InsertRow(r)
    PROVE  SchemaInv' /\ RowInv'
<1>1. /\ todo \in Seq(Statements) /\ Covered(todo, disk \cup pend) /\ pend \subseteq Plain \cup {"begin"} /\ Chain(todo)
      /\ disk \subseteq Plain \cup Marks \cup {"legacy", "runs_new"}
      /\ \A v \in Version : MarkOf(v) \in disk => Needs(v) \subseteq disk
      /\ schemaAt # "opening" => todo = <<>>
  BY DEF SchemaInv
<1>2. \A have : Covered(<<>>, have) /\ Chain(<<>>) /\ NextKind(<<>>) = "none" /\ <<>> \in Seq(Statements)
  BY DEF Covered, Chain, NextKind
<1>3. CASE Opened
  <2>1. todo = <<>> /\ schemaAt' = "up" /\ UNCHANGED <<todo, disk, pend, inRuns, inNew, ever, cut>>
    BY <1>3, Zenon DEF Opened, rowVars
  <2>2. SchemaInv'
    BY <1>1, <2>1 DEF SchemaInv
  <2>3. RowInv'
    BY <2>1 DEF RowInv
  <2> QED BY <2>2, <2>3
<1>4. CASE Stop
  <2>1. /\ schemaAt' = "down" /\ todo' = <<>> /\ pend' = {}
        /\ cut' = (cut \/ (schemaAt = "opening" /\ "runs_new" \in disk))
        /\ UNCHANGED <<disk, inRuns, inNew, ever>>
    BY <1>4, Zenon DEF Stop, rowVars
  <2>2. Covered(todo', disk' \cup pend') /\ Chain(todo') /\ todo' \in Seq(Statements) /\ NextKind(todo') = "none"
    BY <1>2, <2>1, Zenon
  <2>3. SchemaInv'
    BY <1>1, <2>1, <2>2 DEF SchemaInv
  <2>4. schemaAt # "opening" => NextKind(todo) = "none"
    BY <1>1, <1>2
  <2>5. RowInv'
    BY <2>1, <2>2, <2>4 DEF RowInv
  <2> QED BY <2>3, <2>5
<1>5. CASE \E r \in Rows : InsertRow(r)
  <2>1. PICK r \in Rows : InsertRow(r)
    BY <1>5
  <2>2. /\ schemaAt = "up" /\ inRuns' = inRuns \cup {r} /\ ever' = ever \cup {r}
        /\ UNCHANGED <<schemaAt, todo, disk, pend, inNew, cut>>
    BY <2>1, Zenon DEF InsertRow
  <2>3. SchemaInv'
    BY <1>1, <2>2 DEF SchemaInv
  <2>4. NextKind(todo) = "none"
    BY <1>1, <1>2, <2>2
  <2>5. RowInv'
    BY <2>2, <2>4 DEF RowInv
  <2> QED BY <2>3, <2>5
<1> QED BY <1>3, <1>4, <1>5

\* Every step keeps both parts.
LEMMA MigrationNext == SchemaInv /\ RowInv /\ [sNext]_sVars => SchemaInv' /\ RowInv'
<1> SUFFICES ASSUME SchemaInv, RowInv, [sNext]_sVars PROVE SchemaInv' /\ RowInv'
  OBVIOUS
<1>1. CASE \E v \in BOOLEAN : Open(v)
  BY <1>1, MigrationOpen
<1>2. CASE CreateObject \/ SkipVec \/ AddFilledColumn \/ FillColumn \/ MarkVersion \/ RebuildIfLegacy
  BY <1>2, MigrationSchema
<1>3. CASE CreateNew \/ CopyRows \/ DropRuns \/ RenameNew
  BY <1>3, MigrationMoves
<1>4. CASE Opened \/ Stop \/ \E r \in Rows : InsertRow(r)
  BY <1>4, MigrationRest
<1>5. CASE UNCHANGED sVars
  <2>1. UNCHANGED <<schemaAt, todo, disk, pend, inRuns, inNew, ever, cut>>
    BY <1>5 DEF sVars, rowVars
  <2>2. SchemaInv'
    BY <2>1 DEF SchemaInv
  <2>3. RowInv'
    BY <2>1 DEF RowInv
  <2> QED BY <2>2, <2>3
<1> QED BY <1>1, <1>2, <1>3, <1>4, <1>5, Zenon DEF sNext

\* For any rows and any number of crashes, user_version never claims a step of
\* _init_db of which something but a vector table is missing.
THEOREM VersionCorrect == sSpec => []VersionMeansComplete
<1>1. SchemaInv => VersionMeansComplete
  <2> SUFFICES ASSUME SchemaInv, NEW v \in Version, MarkOf(v) \in disk,
                      NEW i \in DOMAIN Steps[v], Steps[v][i].kind # "vec"
               PROVE  Steps[v][i].obj \in disk
    BY DEF VersionMeansComplete, Version
  <2>1. Steps[v][i].obj \in Needs(v) \cup {MarkOf(v)}
    BY StepObjects
  <2> QED BY <2>1 DEF SchemaInv
<1> QED BY <1>1, MigrationInit, MigrationNext, PTL DEF sSpec

\* No upgrade loses a row of runs, and an open fails only after a death between the
\* statements of the rebuild.
THEOREM RowsCorrect == sSpec => []RowsSurvive
<1>1. SchemaInv /\ RowInv => RowsSurvive
  <2> SUFFICES ASSUME SchemaInv, RowInv PROVE RowsSurvive
    OBVIOUS
  <2>1. schemaAt = "up" => NextKind(todo) = "none"
    BY DEF SchemaInv, NextKind
  <2> QED BY <2>1 DEF RowInv, RowsSurvive
<1> QED BY <1>1, MigrationInit, MigrationNext, PTL DEF sSpec

=============================================================================
