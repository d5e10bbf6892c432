------------------------------ MODULE RunCache ------------------------------
(***************************************************************************)
(* RunStore.get_run and its LRU cache of run records, against the writers    *)
(* that invalidate entries.  Writers hold RunStore._lock; get_run does not.   *)
(* A record is abstracted to its version: the number of writes committed to  *)
(* the run so far, 0 for a run that has no row.                               *)
(***************************************************************************)
EXTENDS Integers, SequencesExt, RunIds

CONSTANTS
    Readers,     \* coroutines that call get_run
    Writers,     \* coroutines that call insert_run, append_event, update_...
    Capacity,    \* _LRU_CAPACITY
    MaxVersion   \* bound on the writes to one run

ASSUME CapacityAssumption == Capacity \in Nat \ {0}
ASSUME MaxVersionAssumption == MaxVersion \in Nat

VARIABLES
    db,       \* version of each run in the database
    lru,      \* _lru, least recently used entry first
    lock,     \* RunStore._lock is taken
    reader,   \* get_run in progress: [at, run, ver]
    writer,   \* store write in progress: [at, run, ver]
    late,     \* runs with a write whose thread was abandoned
    \* History variables, for the properties only:
    acked,    \* version of the last write to the run that returned
    floor,    \* acked[run] when the reader's call began
    raced,    \* runs whose entry comes from a read that overlapped a write
    got       \* what the reader's last call returned

cacheVars == <<db, lru, lock, reader, writer, late, acked, floor, raced, got>>

Versions == 0 .. MaxVersion
Nobody == [at |-> "idle", run |-> "none", ver |-> 0]
Job(a, r, v) == [at |-> a, run |-> r, ver |-> v]
Entry(r, v) == [run |-> r, ver |-> v]

----------------------------------------------------------------------------
(* The OrderedDict *)

Cached(r) == \E i \in DOMAIN lru : lru[i].run = r
Index(r)  == CHOOSE i \in DOMAIN lru : lru[i].run = r

\* pop(r, None)
Without(r) == IF Cached(r) THEN RemoveAt(lru, Index(r)) ELSE lru

\* move_to_end
Touched(r) == Append(Without(r), lru[Index(r)])

\* lru[r] = record, then popitem(last=False) above the capacity.  Assigning to
\* a key that is present keeps its place.
Stored(r, v) ==
    IF Cached(r) THEN [lru EXCEPT ![Index(r)] = Entry(r, v)]
    ELSE LET l == Append(lru, Entry(r, v)) IN
         IF Len(l) > Capacity THEN Tail(l) ELSE l

----------------------------------------------------------------------------
(* get_run *)

\* A hit: no suspension.
GetHit(p, r) ==
    /\ reader[p].at = "idle"
    /\ Cached(r)
    /\ lru' = Touched(r)
    /\ floor' = [floor EXCEPT ![p] = acked[r]]
    /\ got' = [got EXCEPT ![p] = [run |-> r, ver |-> lru[Index(r)].ver]]
    /\ UNCHANGED <<db, lock, reader, writer, late, acked, raced>>

\* A miss: hand _do_get_run to a thread.
GetMiss(p, r) ==
    /\ reader[p].at = "idle"
    /\ ~Cached(r)
    /\ reader' = [reader EXCEPT ![p] = Job("call", r, 0)]
    /\ floor' = [floor EXCEPT ![p] = acked[r]]
    /\ got' = [got EXCEPT ![p] = [run |-> "none", ver |-> 0]]
    /\ UNCHANGED <<db, lru, lock, writer, late, acked, raced>>

\* The thread reads the row and its events.
ReadRow(p) ==
    /\ reader[p].at = "call"
    /\ reader' = [reader EXCEPT ![p] = Job("read", @.run, db[@.run])]
    /\ UNCHANGED <<db, lru, lock, writer, late, acked, floor, raced, got>>

\* Mutant of GetReturns: the absence of a row is cached too.
GetReturns_CachesMissing(p) ==
    /\ reader[p].at = "read"
    /\ LET r == reader[p].run
           v == reader[p].ver IN
       /\ got' = [got EXCEPT ![p] = [run |-> r, ver |-> v]]
       /\ lru' = Stored(r, v)
       /\ raced' = IF acked[r] # floor[p] THEN raced \cup {r} ELSE raced \ {r}
    /\ reader' = [reader EXCEPT ![p] = Nobody]
    /\ UNCHANGED <<db, lock, writer, late, acked, floor>>

\* get_run resumes: no row, or cache what was read and return it.
GetReturns(p) ==
    /\ reader[p].at = "read"
    /\ LET r == reader[p].run
           v == reader[p].ver IN
       /\ got' = [got EXCEPT ![p] = [run |-> r, ver |-> v]]
       /\ lru' = IF v = 0 THEN lru ELSE Stored(r, v)
       /\ raced' = IF v = 0 THEN raced
                   ELSE IF acked[r] # floor[p] THEN raced \cup {r}
                   ELSE raced \ {r}
    /\ reader' = [reader EXCEPT ![p] = Nobody]
    /\ UNCHANGED <<db, lock, writer, late, acked, floor>>

\* The read fails, times out or its caller is cancelled.
GetFails(p) ==
    /\ reader[p].at \in {"call", "read"}
    /\ reader' = [reader EXCEPT ![p] = Nobody]
    /\ UNCHANGED <<db, lru, lock, writer, late, acked, floor, raced, got>>

----------------------------------------------------------------------------
(* Writers *)

\* A write gets the lock and hands its SQL to a thread.
WriteBegins(w, r) ==
    /\ writer[w].at = "idle"
    /\ ~lock
    /\ db[r] < MaxVersion
    /\ lock' = TRUE
    /\ writer' = [writer EXCEPT ![w] = Job("call", r, 0)]
    /\ UNCHANGED <<db, lru, reader, late, acked, floor, raced, got>>

\* The thread commits.
WriteCommits(w) ==
    /\ writer[w].at = "call"
    /\ LET r == writer[w].run IN
       /\ db[r] < MaxVersion
       /\ db' = [db EXCEPT ![r] = @ + 1]
       /\ writer' = [writer EXCEPT ![w] = Job("done", r, db[r] + 1)]
    /\ UNCHANGED <<lru, lock, reader, late, acked, floor, raced, got>>

\* Mutant of WriteReturns: the entry is not invalidated.
WriteReturns_KeepsEntry(w) ==
    /\ writer[w].at = "done"
    /\ acked' = [acked EXCEPT ![writer[w].run] = writer[w].ver]
    /\ lock' = FALSE
    /\ writer' = [writer EXCEPT ![w] = Nobody]
    /\ UNCHANGED <<db, lru, reader, late, floor, raced, got>>

\* The write resumes: invalidate the entry, give the lock back.
WriteReturns(w) ==
    /\ writer[w].at = "done"
    /\ LET r == writer[w].run IN
       /\ lru' = Without(r)
       /\ acked' = [acked EXCEPT ![r] = writer[w].ver]
       /\ raced' = raced \ {r}
    /\ lock' = FALSE
    /\ writer' = [writer EXCEPT ![w] = Nobody]
    /\ UNCHANGED <<db, reader, late, floor, got>>

\* The write times out or is cancelled before it resumes: the lock is given
\* back, the entry stays, and a thread that is running commits later.
WriteAbandoned(w) ==
    /\ writer[w].at \in {"call", "done"}
    /\ \/ UNCHANGED late
       \/ writer[w].at = "call" /\ late' = late \cup {writer[w].run}
    /\ lock' = FALSE
    /\ writer' = [writer EXCEPT ![w] = Nobody]
    /\ UNCHANGED <<db, lru, reader, acked, floor, raced, got>>

LateCommit(r) ==
    /\ r \in late
    /\ db[r] < MaxVersion
    /\ db' = [db EXCEPT ![r] = @ + 1]
    /\ late' = late \ {r}
    /\ UNCHANGED <<lru, lock, reader, writer, acked, floor, raced, got>>

----------------------------------------------------------------------------

cacheInit ==
    /\ db = [r \in Runs |-> 0]
    /\ lru = <<>>
    /\ lock = FALSE
    /\ reader = [p \in Readers |-> Nobody]
    /\ writer = [w \in Writers |-> Nobody]
    /\ late = {}
    /\ acked = [r \in Runs |-> 0]
    /\ floor = [p \in Readers |-> 0]
    /\ raced = {}
    /\ got = [p \in Readers |-> [run |-> "none", ver |-> 0]]

cacheNext ==
    \/ \E p \in Readers :
        \/ \E r \in Runs : GetHit(p, r) \/ GetMiss(p, r)
        \/ ReadRow(p) \/ GetReturns(p) \/ GetFails(p)
    \/ \E w \in Writers :
        \/ \E r \in Runs : WriteBegins(w, r)
        \/ WriteCommits(w) \/ WriteReturns(w) \/ WriteAbandoned(w)
    \/ \E r \in Runs : LateCommit(r)

cacheSpec == cacheInit /\ [][cacheNext]_cacheVars

----------------------------------------------------------------------------
(* Properties *)

\* The values of the variables; the cache never outgrows _LRU_CAPACITY and
\* has one entry per run.
cacheTypeOK ==
    /\ db \in [Runs -> Versions]
    /\ lru \in Seq([run : Runs, ver : Versions])
    /\ Len(lru) <= Capacity
    /\ \A i, j \in DOMAIN lru : lru[i].run = lru[j].run => i = j
    /\ lock \in BOOLEAN
    /\ late \subseteq Runs
    /\ acked \in [Runs -> Versions]

\* A cached record was committed: nothing enters the cache from a write that
\* is under way or lost.
CachedIsCommitted ==
    \A i \in DOMAIN lru : lru[i].ver \in 1 .. db[lru[i].run]

\* A cached record is older than the last write that returned only if the read
\* that cached it overlapped that write: invalidation alone leaves no stale
\* entry, whatever is abandoned, evicted or committed late.
StaleOnlyAfterRace ==
    \A i \in DOMAIN lru :
        lru[i].ver < acked[lru[i].run] => lru[i].run \in raced

\* What append_event promises, "next get_run reads fresh": a call that begins
\* after a write has returned sees that write.
NextGetReadsFresh ==
    \A p \in Readers :
        reader[p].at = "idle" /\ got[p].run # "none" => got[p].ver >= floor[p]
=============================================================================
