------------------------------ MODULE Learning ------------------------------
(***************************************************************************)
(* What the daemon remembers of its runs: LearningConsumer takes the         *)
(* run_finished messages and starts a background task for each, at most      *)
(* MaxConcurrent of which ingest and reflect at a time; inject_context and    *)
(* memory_search recall episodes and lessons; the decay loop prunes what has  *)
(* not been used.  The runs live as RunLife says, which leaves open whether a   *)
(* run's end is stored, announced, or neither.                                  *)
(***************************************************************************)
EXTENDS Naturals, Sequences, FiniteSets, RunLife

CONSTANTS
    MaxConcurrent,   \* _MAX_CONCURRENT
    K                \* recall_k

VARIABLES
    cached,     \* status in the outdated record that the store's cache got, or "none"
    phase,      \* open; closed: learning.close() returned; exited: no process
    inbox,      \* the consumer's queue of Topic.runs
    handler,    \* control point of the run's background task
    rec,        \* status in the record that ingest read
    episodes,   \* outcome of the run's row in episodes, or "none"
    vecs,       \* rows of episode_vecs
    lessons,    \* number of rows in reflections, by run and polarity
    idleE,      \* episodes whose decay_score is below the threshold
    recalled    \* the recall under way: [at, rows]

daemonVars == <<lifeVars, cached, phase, inbox>>
memVars == <<episodes, vecs, lessons, idleE>>
learningVars == <<cached, phase, inbox, handler, rec, memVars, recalled>>
lVars == <<lifeVars, learningVars>>

Message(kind, r) == [kind |-> kind, run |-> r]

\* The outcome that run_finished carries: derive_from_status.
Derived(s) == CASE s = "completed" -> "success"
                [] s = "errored"   -> "failure"
                [] OTHER           -> "partial"

\* _STATUS_TO_OUTCOME of ingest, with its fallback.
EpisodeOutcome(s) == CASE s = "completed"             -> "success"
                       [] s \in {"aborted", "errored"} -> "failure"
                       [] OTHER                        -> s

\* _FAILURE_OUTCOMES decides the polarity; success and partial are positive.
Polarity(o) == IF o \in {"failure", "stuck", "errored", "aborted"}
               THEN "negative" ELSE "positive"

\* _derive_text returns a text: for a failure, and for a run of any outcome in
\* which an action was blocked.
HasText(o, blocked) == blocked \/ Polarity(o) = "negative"

\* What get_run may find: the row, or a record that the cache should have dropped.
Records(r) == {status[r]} \cup ({cached[r]} \ {"none"})

NoLesson == [negative |-> 0, positive |-> 0]
LessonRows(r)  == lessons[r]["negative"] + lessons[r]["positive"]

InSemaphore(r) == handler[r] \notin {"none", "waiting", "done"}

----------------------------------------------------------------------------
(* RunExecutor, the store's cache and the bus, as the consumer sees them *)

\* PubSub.publish: nobody is subscribed once close() has returned.
Announce(kind, r) ==
    inbox' = IF phase = "open" THEN Append(inbox, Message(kind, r)) ELSE inbox

\* Runs go on under executor.close(), when the consumer is gone.
LifeStep(r) ==
    /\ phase # "exited"
    /\ \/ QuietStep(r) /\ UNCHANGED inbox
       \/ PublishVerdict(r) /\ UNCHANGED inbox
       \/ CreateTask(r) /\ Announce("run_started", r)
       \/ PublishFinished(r) /\ Announce("run_finished", r)
    /\ UNCHANGED <<cached, phase, handler, rec, memVars, recalled>>

\* A reader races a write of the run and leaves its outdated copy in the cache:
\* StaleOnlyAfterRace of RunCache.  Bound: once for a run.
CacheOldRecord(r) ==
    /\ phase # "exited"
    /\ status[r] # "absent" /\ cached[r] = "none"
    /\ cached' = [cached EXCEPT ![r] = status[r]]
    /\ UNCHANGED <<lifeVars, phase, inbox, handler, rec, memVars, recalled>>

----------------------------------------------------------------------------
(* LearningConsumer *)

\* Mutant of Dispatch: the kind of the message is not looked at.
Dispatch_AnyKind ==
    /\ phase = "open" /\ inbox # <<>>
    /\ inbox' = Tail(inbox)
    /\ handler' = [handler EXCEPT ![Head(inbox).run] = "waiting"]
    /\ UNCHANGED <<lifeVars, cached, phase, rec, memVars, recalled>>

\* _loop: a task of its own for every run_finished, other kinds are skipped.
Dispatch ==
    /\ phase = "open" /\ inbox # <<>>
    /\ inbox' = Tail(inbox)
    /\ handler' = IF Head(inbox).kind = "run_finished"
                  THEN [handler EXCEPT ![Head(inbox).run] = "waiting"]
                  ELSE handler
    /\ UNCHANGED <<lifeVars, cached, phase, rec, memVars, recalled>>

\* _handle enters the semaphore.
Enter(r) ==
    /\ handler[r] = "waiting" /\ phase # "exited"
    /\ Cardinality({q \in Runs : InSemaphore(q)}) < MaxConcurrent
    /\ handler' = [handler EXCEPT ![r] = "ingest"]
    /\ UNCHANGED <<daemonVars, rec, memVars, recalled>>

\* close(): the loop ends and unsubscribes; background tasks go on.
CloseConsumer ==
    /\ phase = "open"
    /\ phase' = "closed"
    /\ inbox' = <<>>
    /\ UNCHANGED <<lifeVars, cached, handler, rec, memVars, recalled>>

\* The process ends: asyncio.run cancels the tasks that are left, or it is killed.
Exit ==
    /\ phase # "exited"
    /\ phase' = "exited"
    /\ KillProcess
    /\ inbox' = <<>>
    /\ handler' = [r \in Runs |-> IF handler[r] = "none" THEN "none" ELSE "done"]
    /\ recalled' = [at |-> "idle", rows |-> {}]
    /\ rec' = [r \in Runs |-> "none"]
    /\ UNCHANGED <<cached, memVars>>

----------------------------------------------------------------------------
(* EpisodicMemory.ingest, then ReflectionEngine.reflect *)

At(r, from) == handler[r] = from /\ phase # "exited"
Go(r, to)   == handler' = [handler EXCEPT ![r] = to]
Forget(r)   == rec' = [rec EXCEPT ![r] = "none"]

\* get_run; list_analytics has no effect.
ReadRun(r) ==
    /\ At(r, "ingest")
    /\ \E s \in Records(r) : rec' = [rec EXCEPT ![r] = s]
    /\ Go(r, "embed")
    /\ UNCHANGED <<daemonVars, memVars, recalled>>

\* A failed embedding leaves emb None; the episode is stored all the same.
Embed(r) ==
    /\ At(r, "embed")
    /\ Go(r, "episode") \/ Go(r, "bare_episode")
    /\ UNCHANGED <<daemonVars, rec, memVars, recalled>>

\* insert_episode: INSERT OR REPLACE, with a last access of now.
InsertEpisode(r) ==
    /\ At(r, "episode") \/ At(r, "bare_episode")
    /\ episodes' = [episodes EXCEPT ![r] = EpisodeOutcome(rec[r])]
    /\ idleE' = idleE \ {r}
    /\ Go(r, IF handler[r] = "episode" THEN "vec" ELSE "reflect")
    /\ Forget(r)
    /\ UNCHANGED <<daemonVars, vecs, lessons, recalled>>

InsertVec(r) ==
    /\ At(r, "vec")
    /\ vecs' = vecs \cup {r}
    /\ Go(r, "reflect")
    /\ UNCHANGED <<daemonVars, rec, episodes, lessons, idleE, recalled>>

\* reflect has the outcome from the message; it reads the run again only for the
\* actions and the blocks, and derives a text, or nothing.
Reflect(r) ==
    /\ At(r, "reflect")
    /\ \E blocked \in BOOLEAN :
        Go(r, IF HasText(Derived(told[r]), blocked) THEN "lesson" ELSE "done")
    /\ UNCHANGED <<daemonVars, rec, memVars, recalled>>

AddLesson(r) == lessons' = [lessons EXCEPT ![r][Polarity(Derived(told[r]))] = @ + 1]

\* insert_reflection, a plain INSERT.
InsertLesson(r) ==
    /\ At(r, "lesson")
    /\ AddLesson(r)
    /\ Go(r, "done")
    /\ UNCHANGED <<daemonVars, rec, episodes, vecs, idleE, recalled>>

\* Mutant of HandlerFails: the failure leaves the semaphore taken.
HandlerFails_KeepsSlot(r) ==
    /\ At(r, handler[r]) /\ InSemaphore(r)
    /\ Go(r, "failed")
    /\ UNCHANGED <<daemonVars, rec, memVars, recalled>>

\* A store call raises or times out, its write lost: ingest and reflect each
\* swallow it, so reflect still follows a failed ingest.  (A timed out write
\* that commits later is Insert... : the caller's next step is the same.)
HandlerFails(r) ==
    /\ At(r, handler[r]) /\ InSemaphore(r)
    /\ Go(r, IF handler[r] \in {"reflect", "lesson"} THEN "done" ELSE "reflect")
    /\ Forget(r)
    /\ UNCHANGED <<daemonVars, memVars, recalled>>

----------------------------------------------------------------------------
(* Recall, use and decay *)

\* query_episodes_by_vec: at most K rows that have an episode; inject_context
\* filters failures out, memory_search does not.  The order of the distances
\* is left open.
Recall(filter) ==
    /\ recalled.at = "idle" /\ phase # "exited"
    /\ \E S \in SUBSET {r \in vecs : /\ episodes[r] # "none"
                                     /\ filter => episodes[r] # "failure"} :
        /\ Cardinality(S) <= K
        /\ recalled' = [at |-> "touch", rows |-> {[run |-> r, outcome |-> episodes[r],
                                                   filter |-> filter] : r \in S}]
    /\ UNCHANGED <<daemonVars, handler, rec, memVars>>

\* touch_memory of one recalled episode; a row pruned meanwhile is not found.
TouchEpisode(row) ==
    /\ recalled.at = "touch" /\ row \in recalled.rows
    /\ idleE' = idleE \ {row.run}
    /\ recalled' = [recalled EXCEPT !.rows = @ \ {row}]
    /\ UNCHANGED <<daemonVars, handler, rec, episodes, vecs, lessons>>

RecallReturns ==
    /\ recalled.at = "touch" /\ recalled.rows = {}
    /\ recalled' = [at |-> "idle", rows |-> {}]
    /\ UNCHANGED <<daemonVars, handler, rec, memVars>>

\* Months without use.
Decay(r) ==
    /\ phase # "exited"
    /\ episodes[r] # "none" /\ r \notin idleE
    /\ idleE' = idleE \cup {r}
    /\ UNCHANGED <<daemonVars, handler, rec, episodes, vecs, lessons, recalled>>

\* prune_decayed deletes from episodes and reflections, not from episode_vecs.
\* Which reflections have decayed is left open.
Prune ==
    /\ phase # "exited"
    /\ \E r \in Runs : episodes[r] # "none" \/ LessonRows(r) > 0
    /\ episodes' = [r \in Runs |-> IF r \in idleE THEN "none" ELSE episodes[r]]
    /\ \E S \in SUBSET Runs :
        lessons' = [r \in Runs |-> IF r \in S THEN NoLesson ELSE lessons[r]]
    /\ idleE' = {}
    /\ UNCHANGED <<daemonVars, handler, rec, vecs, recalled>>

----------------------------------------------------------------------------

lInit ==
    /\ LifeInit
    /\ cached = [r \in Runs |-> "none"]
    /\ phase = "open"
    /\ inbox = <<>>
    /\ handler = [r \in Runs |-> "none"]
    /\ rec = [r \in Runs |-> "none"]
    /\ episodes = [r \in Runs |-> "none"]
    /\ vecs = {}
    /\ lessons = [r \in Runs |-> NoLesson]
    /\ idleE = {}
    /\ recalled = [at |-> "idle", rows |-> {}]

\* The steps of one run's background task.
Handle(r) ==
    \/ Enter(r) \/ ReadRun(r) \/ Embed(r) \/ InsertEpisode(r) \/ InsertVec(r)
    \/ Reflect(r) \/ InsertLesson(r) \/ HandlerFails(r)

lNext ==
    \/ \E r \in Runs : LifeStep(r) \/ CacheOldRecord(r) \/ Handle(r) \/ Decay(r)
    \/ Dispatch \/ CloseConsumer \/ Exit \/ Prune
    \/ \E f \in BOOLEAN : Recall(f)
    \/ \E row \in recalled.rows : TouchEpisode(row)
    \/ RecallReturns

\* The consumer reads its queue, and its background tasks are scheduled.
lFair == WF_lVars(Dispatch) /\ \A r \in Runs : WF_lVars(Handle(r))

lSpec == lInit /\ [][lNext]_lVars /\ lFair

----------------------------------------------------------------------------
(* Properties *)

\* There are episodes only of runs that were announced as finished, and they tell
\* what was published, although they are written long after the message, from a
\* row that a late write may change and through the cache: the outcome is that of
\* the verdict, or of a "completed" that overtook it in the row, or of an outdated
\* record.  A run without a verdict may have left any row, one that is still
\* running included.
EpisodeTellsTheEnd ==
    \A r \in Runs : episodes[r] # "none" =>
        /\ told[r] # "none"
        /\ verdict[r] # "none" =>
             \E s \in {verdict[r]} \cup Records(r) : episodes[r] = EpisodeOutcome(s)

\* A run whose run_finished reaches the consumer is handled to the end, whatever
\* store calls fail and however many runs queue at the semaphore, unless the
\* daemon shuts down first.
FinishedRunsAreLearned ==
    \A r \in Runs :
        (told[r] # "none" /\ phase = "open") ~> (handler[r] = "done" \/ phase # "open")
=============================================================================
