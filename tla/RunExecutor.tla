---------------------------- MODULE RunExecutor ----------------------------
(***************************************************************************)
(* The life of agent runs inside the daemon: RunExecutor (submit, cancel,   *)
(* the run task with its exception handlers and its finally block), the     *)
(* RunStore writes it awaits, and the daemon's shutdown, crash and restart.  *)
(*                                                                         *)
(* A coroutine of asyncio is interrupted only where it suspends, so a step  *)
(* of the model is what the code does between two suspension points.  The   *)
(* store calls suspend twice: on the asyncio.Lock and on the thread that    *)
(* executes the SQL.  Interrupting a coroutine that awaits the thread gives *)
(* the lock back but does not stop a thread that has started: its write     *)
(* becomes a "late" write.                                                  *)
(***************************************************************************)
EXTENDS Integers, FiniteSets

CONSTANTS
    Runs,         \* the run ids that _submit can draw
    MaxEvents,    \* bound on the events one run emits
    MaxCancels,   \* bound on cancel requests from clients, poller, screen lock
    MaxCrashes,   \* bound on kills of the daemon process
    StoreFaults   \* TRUE iff SQL calls, audit writes may fail or time out

ASSUME MaxEventsAssumption  == MaxEvents \in Nat
ASSUME MaxCancelsAssumption == MaxCancels \in Nat
ASSUME MaxCrashesAssumption == MaxCrashes \in Nat
ASSUME StoreFaultsAssumption == StoreFaults \in BOOLEAN

VARIABLES
    pc,        \* where the coroutine that serves the run is
    op,        \* state of the store call it awaits
    locked,    \* RunStore._lock
    late,      \* writes of abandoned threads that may still commit
    intr,      \* exception scheduled for the run's task
    final,     \* local variable final_status of _run_task
    seq,       \* RunExecutor._seq; -1: no entry
    cur,       \* local variable seq of _emit
    row,       \* runs.status in the database
    events,    \* run_events: committed sequence numbers
    outcome,   \* run_outcomes.outcome
    source,    \* run_outcomes.source
    pub,       \* lifecycle messages published on Topic.runs
    pubev,     \* sequence numbers of the events published on Topic.runs
    daemon,    \* phase of daemon.main.run
    client,    \* some client connection is open
    gathered,  \* tasks that executor.close() waits for
    cancels, crashes   \* counters behind MaxCancels and MaxCrashes

taskVars   == <<pc, op, locked, late, intr, final, seq, cur>>
dbVars     == <<row, events, outcome, source>>
pubVars    == <<pub, pubev>>
daemonVars == <<daemon, client, gathered, cancels, crashes>>
vars == <<taskVars, dbVars, pubVars, daemonVars>>

----------------------------------------------------------------------------
(* Vocabulary *)

\* Values of RunStatus that end a run.
Terminal == {"completed", "errored", "aborted"}

\* Outcomes that derive_from_status and feedback_to_outcome can store.
Outcomes == {"success", "failure", "partial"}

derive_from_status(s) ==
    CASE s = "completed" -> "success"
      [] s = "errored"   -> "failure"
      [] OTHER           -> "partial"   \* aborted

\* Control points that await a store call.
StorePC == {"insert", "append", "complete", "handle", "metrics", "outcome"}

\* Inside the wait_for around orchestrate.
Orchestrating == {"orch", "append", "audit"}

\* Control points of a run task that is not done().
LivePC == {"created", "complete", "handle", "metrics", "outcome"} \cup Orchestrating

PCs == LivePC \cup {"idle", "insert", "refused", "done", "lost"}

Live(r) == pc[r] \in LivePC

\* The coroutine is inside "async with self._lock".
Holding(r) == op[r] \in {"call", "ok", "err"}

\* What a store call writes, by name; "event" stands for seq number cur[r].
Writes == {"insert", "event", "metrics"} \cup Terminal \cup Outcomes

\* The write of the store call that the run's coroutine awaits.
Write(r) ==
    CASE pc[r] = "insert"               -> "insert"
      [] pc[r] = "append"               -> "event"
      [] pc[r] \in {"complete", "handle"} -> final[r]
      [] pc[r] = "metrics"              -> "metrics"
      [] OTHER                          -> derive_from_status(final[r])

----------------------------------------------------------------------------
(* RunStore: one SQL write, its lock and its thread *)

\* Mutant of Commit: an outcome is written to the status column.
Commit_WrongColumn(r, w) ==
    /\ row' = IF w = "insert" THEN [row EXCEPT ![r] = "running"]
              ELSE IF w \in Terminal \cup Outcomes THEN [row EXCEPT ![r] = w]
              ELSE row
    /\ events' = IF w = "event" THEN [events EXCEPT ![r] = @ \cup {cur[r]}]
                 ELSE events
    /\ UNCHANGED <<outcome, source>>

\* The statement that write w of run r executes and commits.
Commit(r, w) ==
    /\ row' = IF w = "insert" THEN [row EXCEPT ![r] = "running"]
              ELSE IF w \in Terminal THEN [row EXCEPT ![r] = w]
              ELSE row
    /\ events' = IF w = "event" THEN [events EXCEPT ![r] = @ \cup {cur[r]}]
                 ELSE events
    /\ outcome' = IF w \in Outcomes THEN [outcome EXCEPT ![r] = w] ELSE outcome
    /\ source' = IF w \in Outcomes THEN [source EXCEPT ![r] = "derived"]
                 ELSE source

\* The coroutine gets the lock and hands the SQL call to the thread pool.
AcquireLock(r) ==
    /\ op[r] = "lock"
    /\ intr[r] = "none"
    /\ ~locked
    /\ locked' = TRUE
    /\ op' = [op EXCEPT ![r] = "call"]
    /\ UNCHANGED <<pc, late, intr, final, seq, cur, dbVars, pubVars, daemonVars>>

\* The thread commits; the coroutine is not yet resumed.
StoreCommit(r) ==
    /\ op[r] = "call"
    /\ op' = [op EXCEPT ![r] = "ok"]
    /\ Commit(r, Write(r))
    /\ UNCHANGED <<pc, locked, late, intr, final, seq, cur, pubVars, daemonVars>>

\* The thread raises (database locked, disk full); nothing is committed.
StoreFail(r) ==
    /\ StoreFaults
    /\ op[r] = "call"
    /\ op' = [op EXCEPT ![r] = "err"]
    /\ UNCHANGED <<pc, locked, late, intr, final, seq, cur, dbVars, pubVars,
                   daemonVars>>

\* A thread nobody awaits any more commits its write ...
LateCommit(r, w) ==
    /\ w \in late[r]
    /\ late' = [late EXCEPT ![r] = @ \ {w}]
    /\ Commit(r, w)
    /\ UNCHANGED <<pc, op, locked, intr, final, seq, cur, pubVars, daemonVars>>

\* ... or fails.
LateFail(r, w) ==
    /\ StoreFaults
    /\ w \in late[r]
    /\ late' = [late EXCEPT ![r] = @ \ {w}]
    /\ UNCHANGED <<pc, op, locked, intr, final, seq, cur, dbVars, pubVars,
                   daemonVars>>

----------------------------------------------------------------------------
(* Normal progress of a run *)

\* Mutant of Goto: the lock is not given back.
Goto_KeepsLock(r, p) ==
    /\ pc' = [pc EXCEPT ![r] = p]
    /\ op' = [op EXCEPT ![r] = IF p \in StorePC THEN "lock" ELSE "none"]
    /\ locked' = locked

\* The coroutine moves on to control point p, from a store call or not.
Goto(r, p) ==
    /\ pc' = [pc EXCEPT ![r] = p]
    /\ op' = [op EXCEPT ![r] = IF p \in StorePC THEN "lock" ELSE "none"]
    /\ locked' = (locked /\ ~Holding(r))

\* The awaited store call of control point p has returned.
Returned(r, p) ==
    /\ pc[r] = p
    /\ op[r] = "ok"
    /\ intr[r] = "none"

Publish(r, msgs) == pub' = [pub EXCEPT ![r] = @ \cup msgs]

\* _submit is entered: run_task and plan_task are the only callers.
Submit(r) ==
    /\ client
    /\ pc[r] = "idle"
    /\ Goto(r, "insert")
    /\ UNCHANGED <<late, intr, final, seq, cur, dbVars, pubVars, daemonVars>>

\* insert_run has returned and get_brain selects a brain: create the task.
SubmitCreates(r) ==
    /\ Returned(r, "insert")
    /\ Goto(r, "created")
    /\ seq' = [seq EXCEPT ![r] = 0]
    /\ Publish(r, {"started"})
    /\ UNCHANGED <<late, intr, final, cur, dbVars, pubev, daemonVars>>

\* insert_run has returned and get_brain raises BrainSelectionError.
SubmitRefused(r) ==
    /\ Returned(r, "insert")
    /\ Goto(r, "refused")
    /\ seq' = [seq EXCEPT ![r] = 0]
    /\ UNCHANGED <<late, intr, final, cur, dbVars, pubVars, daemonVars>>

\* First step of the task: _run_task up to the first await of orchestrate.
Start(r) ==
    /\ pc[r] = "created"
    /\ intr[r] = "none"
    /\ Goto(r, "orch")
    /\ final' = [final EXCEPT ![r] = "errored"]
    /\ UNCHANGED <<late, intr, seq, cur, dbVars, pubVars, daemonVars>>

\* self._seq.get(run_id, 0)
NextSeq(r) == IF seq[r] = -1 THEN 0 ELSE seq[r]

\* orchestrate calls ctx.emit: draw a sequence number, await append_event.
Emit(r) ==
    /\ pc[r] = "orch"
    /\ intr[r] = "none"
    /\ NextSeq(r) < MaxEvents
    /\ cur' = [cur EXCEPT ![r] = NextSeq(r)]
    /\ seq' = [seq EXCEPT ![r] = NextSeq(r) + 1]
    /\ Goto(r, "append")
    /\ UNCHANGED <<late, intr, final, dbVars, pubVars, daemonVars>>

\* append_event has returned: await the audit log.
EmitAppended(r) ==
    /\ Returned(r, "append")
    /\ Goto(r, "audit")
    /\ UNCHANGED <<late, intr, final, seq, cur, dbVars, pubVars, daemonVars>>

\* The audit line is written: publish the event, return to orchestrate.
EmitAudited(r) ==
    /\ pc[r] = "audit"
    /\ intr[r] = "none"
    /\ Goto(r, "orch")
    /\ pubev' = [pubev EXCEPT ![r] = @ \cup {cur[r]}]
    /\ UNCHANGED <<late, intr, final, seq, cur, dbVars, pub, daemonVars>>

\* Mutant of OrchestrateReturns: the verdict is published before it is stored.
OrchestrateReturns_PublishesFirst(r) ==
    /\ pc[r] = "orch"
    /\ intr[r] = "none"
    /\ final' = [final EXCEPT ![r] = "completed"]
    /\ Publish(r, {"completed"})
    /\ Goto(r, "complete")
    /\ UNCHANGED <<late, intr, seq, cur, dbVars, pubev, daemonVars>>

\* orchestrate returns: final_status = completed, await update_run_status.
OrchestrateReturns(r) ==
    /\ pc[r] = "orch"
    /\ intr[r] = "none"
    /\ final' = [final EXCEPT ![r] = "completed"]
    /\ Goto(r, "complete")
    /\ UNCHANGED <<late, intr, seq, cur, dbVars, pubVars, daemonVars>>

\* update_run_status has returned, in the try body ("complete") or in an
\* exception handler ("handle"): publish the verdict, enter finally.
StatusWritten(r) ==
    /\ Returned(r, "complete") \/ Returned(r, "handle")
    /\ Publish(r, {final[r]})
    /\ Goto(r, "metrics")
    /\ UNCHANGED <<late, intr, final, seq, cur, dbVars, pubev, daemonVars>>

\* Mutant of MetricsWritten: run_finished goes out before the outcome.
MetricsWritten_FinishesFirst(r) ==
    /\ Returned(r, "metrics")
    /\ Publish(r, {"finished"})
    /\ Goto(r, "outcome")
    /\ UNCHANGED <<late, intr, final, seq, cur, dbVars, pubev, daemonVars>>

\* finally: update_run_metrics has returned, await upsert_run_outcome.
MetricsWritten(r) ==
    /\ Returned(r, "metrics")
    /\ Goto(r, "outcome")
    /\ UNCHANGED <<late, intr, final, seq, cur, dbVars, pubVars, daemonVars>>

\* finally: the outcome is stored; forget the counter, publish run_finished.
OutcomeWritten(r) ==
    /\ Returned(r, "outcome")
    /\ seq' = [seq EXCEPT ![r] = -1]
    /\ Publish(r, {"finished"})
    /\ Goto(r, "done")
    /\ UNCHANGED <<late, intr, final, cur, dbVars, pubev, daemonVars>>

----------------------------------------------------------------------------
(* Exceptions *)

\* Mutants of Handler: _emit goes on to the next event, or to the audit log,
\* when append_event raises; _submit creates the task although insert_run
\* raised; an interrupted final status write is not handled.
Handler_SkipsEvent(p) ==
    CASE p = "insert"                            -> "refused"
      [] p = "append"                            -> "orch"
      [] p \in {"orch", "audit", "complete"}     -> "handle"
      [] p = "handle"                            -> "metrics"
      [] OTHER                                   -> "done"

Handler_PublishesAnyway(p) ==
    CASE p = "insert"                            -> "refused"
      [] p = "append"                            -> "audit"
      [] p \in {"orch", "audit", "complete"}     -> "handle"
      [] p = "handle"                            -> "metrics"
      [] OTHER                                   -> "done"

Handler_StartsAnyway(p) ==
    CASE p = "insert"                            -> "created"
      [] p \in Orchestrating \cup {"complete"}   -> "handle"
      [] p = "handle"                            -> "metrics"
      [] OTHER                                   -> "done"

Handler_ForgetsStatus(p) ==
    CASE p = "insert"                            -> "refused"
      [] p \in Orchestrating                     -> "handle"
      [] p \in {"complete", "handle"}            -> "metrics"
      [] OTHER                                   -> "done"

\* Where an exception raised at control point p takes the coroutine.  A task
\* cancelled before its first step ("created") never enters its try statement,
\* and an exception inside finally leaves the task.
Handler(p) ==
    CASE p = "insert"                            -> "refused"
      [] p \in Orchestrating \cup {"complete"}   -> "handle"
      [] p = "handle"                            -> "metrics"
      [] OTHER                                   -> "done"

\* An exception leaves the awaited call.  Leaving "async with" gives the lock
\* back; the thread of an unfinished call was either still queued, and is
\* dropped, or it is running, and its write becomes late.
Throw(r, status) ==
    /\ Goto(r, Handler(pc[r]))
    /\ final' = IF Handler(pc[r]) = "handle"
                THEN [final EXCEPT ![r] = status] ELSE final
    /\ \/ UNCHANGED late
       \/ op[r] = "call" /\ late' = [late EXCEPT ![r] = @ \cup {Write(r)}]
    /\ UNCHANGED <<seq, cur, dbVars, pubVars, daemonVars>>

\* The SQL call raised, run_sync's 30s are over, or the audit write failed.
StoreRaises(r) ==
    /\ StoreFaults
    /\ intr[r] = "none"
    /\ op[r] \in {"call", "err"} \/ pc[r] = "audit"
    /\ Throw(r, "errored")
    /\ UNCHANGED intr

\* orchestrate raises: StuckError aborts the run, other exceptions fail it.
OrchestrateRaises(r, status) ==
    /\ pc[r] = "orch"
    /\ intr[r] = "none"
    /\ Throw(r, status)
    /\ UNCHANGED intr

\* The timer of wait_for(orchestrate) fires.
RunTimeout(r) ==
    /\ pc[r] \in Orchestrating
    /\ intr[r] = "none"
    /\ intr' = [intr EXCEPT ![r] = "timeout"]
    /\ UNCHANGED <<pc, op, locked, late, final, seq, cur, dbVars, pubVars,
                   daemonVars>>

\* The task runs again and finds the scheduled exception.
Deliver(r) ==
    /\ intr[r] # "none"
    /\ Throw(r, IF intr[r] = "timeout" THEN "errored" ELSE "aborted")
    /\ intr' = [intr EXCEPT ![r] = "none"]

\* task.cancel() on every task of S: a second request before delivery merges
\* with the first, and a cancel overrides an expired timer.
CancelAll(S) == intr' = [r \in Runs |-> IF r \in S THEN "cancel" ELSE intr[r]]

LiveRuns == {r \in Runs : Live(r)}

\* cancel_run of one client.
Cancel(r) ==
    /\ cancels < MaxCancels
    /\ client
    /\ Live(r)
    /\ CancelAll({r})
    /\ cancels' = cancels + 1
    /\ UNCHANGED <<pc, op, locked, late, final, seq, cur, dbVars, pubVars,
                   daemon, client, gathered, crashes>>

\* The kill-switch poller or the screen lock cancels every active run.
CancelActive ==
    /\ cancels < MaxCancels
    /\ daemon \in {"up", "draining"}
    /\ LiveRuns # {}
    /\ CancelAll(LiveRuns)
    /\ cancels' = cancels + 1
    /\ UNCHANGED <<pc, op, locked, late, final, seq, cur, dbVars, pubVars,
                   daemon, client, gathered, crashes>>

----------------------------------------------------------------------------
(* Clients and the daemon process *)

Connect ==
    /\ daemon = "up"
    /\ ~client
    /\ client' = TRUE
    /\ UNCHANGED <<taskVars, dbVars, pubVars, daemon, gathered, cancels, crashes>>

Disconnect ==
    /\ client
    /\ client' = FALSE
    /\ UNCHANGED <<taskVars, dbVars, pubVars, daemon, gathered, cancels, crashes>>

\* The peer of a connection is gone while its handler is inside _submit: the
\* connection's writer ends first and the reader task is cancelled.
DropHandler(r) ==
    /\ pc[r] = "insert"
    /\ intr[r] = "none"
    /\ intr' = [intr EXCEPT ![r] = "cancel"]
    /\ UNCHANGED <<pc, op, locked, late, final, seq, cur, dbVars, pubVars,
                   daemonVars>>

\* record_feedback: the explicit outcome replaces whatever is stored.
Feedback(r, o) ==
    /\ client
    /\ ~locked
    /\ row[r] # "absent"
    /\ outcome' = [outcome EXCEPT ![r] = o]
    /\ source' = [source EXCEPT ![r] = "explicit"]
    /\ UNCHANGED <<taskVars, row, events, pubVars, daemonVars>>

\* SIGTERM: cancel the active runs, then wait for the server to end.
Shutdown ==
    /\ daemon = "up"
    /\ daemon' = "draining"
    /\ CancelAll(LiveRuns)
    /\ UNCHANGED <<pc, op, locked, late, final, seq, cur, dbVars, pubVars,
                   client, gathered, cancels, crashes>>

\* The server has ended, which it does once no connection is open; close()
\* of the executor cancels the tasks that are left, again, and gathers them.
Close ==
    /\ daemon = "draining"
    /\ ~client
    /\ daemon' = "closing"
    /\ CancelAll(LiveRuns)
    /\ gathered' = LiveRuns
    /\ UNCHANGED <<pc, op, locked, late, final, seq, cur, dbVars, pubVars,
                   client, cancels, crashes>>

\* The 5s of state.close() are over: cancelling gather cancels its children.
CloseTimeout ==
    /\ daemon = "closing"
    /\ gathered \cap LiveRuns # {}
    /\ daemon' = "expired"
    /\ CancelAll(gathered \cap LiveRuns)
    /\ UNCHANGED <<pc, op, locked, late, final, seq, cur, dbVars, pubVars,
                   client, gathered, cancels, crashes>>

\* asyncio.run ends: it cancels the tasks that are left, a handler that is
\* still inside _submit included.
Teardown ==
    /\ daemon \in {"closing", "expired"}
    /\ gathered \cap LiveRuns = {}
    /\ daemon' = "teardown"
    /\ CancelAll({r \in Runs : Live(r) \/ pc[r] = "insert"})
    /\ UNCHANGED <<pc, op, locked, late, final, seq, cur, dbVars, pubVars,
                   client, gathered, cancels, crashes>>

\* The process ends after its last thread.
Exit ==
    /\ daemon = "teardown"
    /\ \A r \in Runs : ~Live(r) /\ pc[r] # "insert" /\ late[r] = {}
    /\ daemon' = "down"
    /\ UNCHANGED <<taskVars, dbVars, pubVars, client, gathered, cancels, crashes>>

\* The process is killed: what was not committed is gone.
Crash ==
    /\ crashes < MaxCrashes
    /\ daemon # "down"
    /\ crashes' = crashes + 1
    /\ daemon' = "down"
    /\ client' = FALSE
    /\ pc' = [r \in Runs |-> IF Live(r) \/ pc[r] = "insert" THEN "lost" ELSE pc[r]]
    /\ op' = [r \in Runs |-> "none"]
    /\ locked' = FALSE
    /\ late' = [r \in Runs |-> {}]
    /\ intr' = [r \in Runs |-> "none"]
    /\ UNCHANGED <<final, seq, cur, dbVars, pubVars, gathered, cancels>>

\* A new daemon process opens the same database and repairs nothing in it.
Restart ==
    /\ daemon = "down"
    /\ daemon' = "up"
    /\ gathered' = {}
    /\ seq' = [r \in Runs |-> -1]
    /\ UNCHANGED <<pc, op, locked, late, intr, final, cur, dbVars, pubVars,
                   client, cancels, crashes>>

----------------------------------------------------------------------------

Init ==
    /\ pc = [r \in Runs |-> "idle"]
    /\ op = [r \in Runs |-> "none"]
    /\ locked = FALSE
    /\ late = [r \in Runs |-> {}]
    /\ intr = [r \in Runs |-> "none"]
    /\ final = [r \in Runs |-> "errored"]
    /\ seq = [r \in Runs |-> -1]
    /\ cur = [r \in Runs |-> 0]
    /\ row = [r \in Runs |-> "absent"]
    /\ events = [r \in Runs |-> {}]
    /\ outcome = [r \in Runs |-> "none"]
    /\ source = [r \in Runs |-> "none"]
    /\ pub = [r \in Runs |-> {}]
    /\ pubev = [r \in Runs |-> {}]
    /\ daemon = "up"
    /\ client = FALSE
    /\ gathered = {}
    /\ cancels = 0
    /\ crashes = 0

StoreStep(r) ==
    \/ AcquireLock(r)
    \/ StoreCommit(r)
    \/ StoreFail(r)
    \/ \E w \in Writes : LateCommit(r, w) \/ LateFail(r, w)

RunStep(r) ==
    \/ SubmitCreates(r)
    \/ SubmitRefused(r)
    \/ Start(r)
    \/ Emit(r)
    \/ EmitAppended(r)
    \/ EmitAudited(r)
    \/ OrchestrateReturns(r)
    \/ StatusWritten(r)
    \/ MetricsWritten(r)
    \/ OutcomeWritten(r)
    \/ StoreRaises(r)
    \/ OrchestrateRaises(r, "errored")
    \/ OrchestrateRaises(r, "aborted")
    \/ RunTimeout(r)
    \/ Deliver(r)

ClientStep(r) ==
    \/ Submit(r)
    \/ Cancel(r)
    \/ DropHandler(r)
    \/ \E o \in {"success", "failure"} : Feedback(r, o)

DaemonStep ==
    \/ CancelActive
    \/ Connect
    \/ Disconnect
    \/ Shutdown
    \/ Close
    \/ CloseTimeout
    \/ Teardown
    \/ Exit
    \/ Crash
    \/ Restart

Next ==
    \/ \E r \in Runs : StoreStep(r) \/ RunStep(r) \/ ClientStep(r)
    \/ DaemonStep

Spec == Init /\ [][Next]_vars

\* Every thread ends and every ready coroutine is scheduled; timers fire.
\* asyncio.Lock is FIFO, so a waiter that can get the lock infinitely often
\* gets it: strong fairness.  Nothing is assumed about clients.
Fairness ==
    /\ \A r \in Runs :
         /\ SF_vars(AcquireLock(r))
         /\ WF_vars(StoreCommit(r) \/ StoreFail(r))
         /\ WF_vars(\E w \in Writes : LateCommit(r, w) \/ LateFail(r, w))
         /\ WF_vars(SubmitCreates(r) \/ SubmitRefused(r))
         /\ WF_vars(Start(r))
         /\ WF_vars(EmitAppended(r))
         /\ WF_vars(StatusWritten(r))
         /\ WF_vars(MetricsWritten(r))
         /\ WF_vars(OutcomeWritten(r))
         /\ WF_vars(StoreRaises(r))
         /\ WF_vars(RunTimeout(r))
         /\ WF_vars(Deliver(r))
    /\ WF_vars(Close)
    /\ WF_vars(Teardown)
    /\ WF_vars(Exit)

FairSpec == Spec /\ Fairness

----------------------------------------------------------------------------
(* Properties *)

\* The values each variable takes; a control point awaits the store exactly
\* when op says so, and an exception is scheduled only for a coroutine that
\* still runs.
TypeOK ==
    /\ pc \in [Runs -> PCs]
    /\ op \in [Runs -> {"none", "lock", "call", "ok", "err"}]
    /\ \A r \in Runs : op[r] # "none" <=> pc[r] \in StorePC
    /\ locked \in BOOLEAN
    /\ late \in [Runs -> SUBSET Writes]
    /\ intr \in [Runs -> {"none", "timeout", "cancel"}]
    /\ final \in [Runs -> Terminal]
    /\ \A r \in Runs : intr[r] # "none" => pc[r] \in LivePC \cup {"insert"}
    /\ seq \in [Runs -> Nat \cup {-1}]
    /\ cur \in [Runs -> Nat]
    /\ row \in [Runs -> {"absent", "running"} \cup Terminal]
    /\ events \in [Runs -> SUBSET Nat]
    /\ outcome \in [Runs -> {"none"} \cup Outcomes]
    /\ source \in [Runs -> {"none", "derived", "explicit"}]
    /\ pub \in [Runs -> SUBSET ({"started", "finished"} \cup Terminal)]
    /\ pubev \in [Runs -> SUBSET Nat]
    /\ daemon \in {"up", "draining", "closing", "expired", "teardown", "down"}
    /\ client \in BOOLEAN
    /\ gathered \subseteq Runs
    /\ cancels \in Nat
    /\ crashes \in Nat

\* RunStore._lock: at most one coroutine is inside "async with self._lock",
\* and the lock is taken only while one is: an interrupted store call, at
\* whatever point it is interrupted, never leaks it.
StoreLockHeldByOne ==
    /\ \A r, s \in Runs : Holding(r) /\ Holding(s) => r = s
    /\ locked <=> \E r \in Runs : Holding(r)

\* _emit draws the number before the write can fail, yet the stored events of
\* a run are always numbered 0, 1, ... without a gap: nothing follows an
\* event whose write was interrupted, failed or is late.
StoredEventsHaveNoGap ==
    \A r \in Runs : \A n \in events[r] : 0 .. n \subseteq events[r]

\* An event that a subscriber of Topic.runs has seen is in the database, also
\* after a crash.
PublishedEventsAreStored ==
    \A r \in Runs : pubev[r] \subseteq events[r]

\* {kind}_completed is published only for a run whose row says completed, for
\* ever; an _errored or _aborted run has that status in its row unless a late
\* write of the interrupted "completed" update overtook it.
VerdictIsStored ==
    \A r \in Runs :
        /\ "completed" \in pub[r] => row[r] = "completed"
        /\ \A v \in Terminal : v \in pub[r] => row[r] \in {v, "completed"}

\* A run is never announced with two verdicts, however completion, timeout,
\* cancellation and store failures race, and run_finished carries the same one.
OneVerdict ==
    \A r \in Runs : pub[r] \cap Terminal \subseteq {final[r]}

\* run_finished is published only when run_outcomes has the run's row: what
\* LearningConsumer reads on run_finished is there.
FinishedHasOutcome ==
    \A r \in Runs : "finished" \in pub[r] =>
        /\ outcome[r] # "none"
        /\ source[r] = "derived" => outcome[r] = derive_from_status(final[r])

\* No write, late ones included, takes a run that has ended back to running.
EndedRunStaysEnded ==
    [][\A r \in Runs : row[r] \in Terminal => row'[r] \in Terminal]_vars

\* Once run_finished is out, only explicit feedback changes the outcome.
OutcomeSettled ==
    [][\A r \in Runs : "finished" \in pub[r] /\ outcome'[r] # outcome[r]
                        => source'[r] = "explicit"]_vars

----------------------------------------------------------------------------
(* Inductive strengthening: what is true of one run at each control point *)

\* Control points before the verdict is published.
Undecided == {"idle", "insert", "refused", "created", "complete", "handle"}
             \cup Orchestrating

\* Late writes of run r: a late insert belongs to a refused submission, a late
\* status to an interrupted update_run_status, a late outcome to a task whose
\* finally block was cut short.
LateInv(r) ==
    /\ "insert" \in late[r] => pc[r] = "refused"
    /\ \A v \in late[r] \cap Terminal :
        /\ pc[r] \notin Undecided \ {"handle"}
        /\ pc[r] = "handle" => v = "completed"
        /\ pub[r] \cap Terminal # {} => v = "completed"
    /\ \A o \in late[r] \cap Outcomes :
        /\ pc[r] = "done"
        /\ "finished" \notin pub[r]

\* The verdict: published after the commit, at most once, never before.
VerdictInv(r) ==
    /\ pc[r] \in Undecided => pub[r] \cap Terminal = {}
    /\ pub[r] \cap Terminal \subseteq {final[r]}
    /\ pc[r] = "complete" => final[r] = "completed"
    /\ pc[r] = "complete" /\ op[r] = "ok" => row[r] = "completed"
    /\ pc[r] = "handle" => final[r] # "completed"
    /\ pc[r] = "handle" /\ op[r] = "ok" => row[r] \in {final[r], "completed"}
    /\ pc[r] \in {"idle", "insert", "refused"} => row[r] \notin Terminal
    /\ "completed" \in pub[r] => row[r] = "completed"
    /\ \A v \in Terminal : v \in pub[r] => row[r] \in {v, "completed"}
    /\ pc[r] \in {"metrics", "outcome"} /\ final[r] = "completed" => "completed" \in pub[r]

\* run_started: published by the step that creates the task, after the commit of
\* the row; a killed process leaves no thread behind.
StartInv(r) ==
    /\ pc[r] \in LivePC \cup {"done"} => "started" \in pub[r]
    /\ pc[r] \in {"idle", "insert", "refused"} => "started" \notin pub[r]
    /\ pc[r] = "insert" /\ op[r] = "ok" => row[r] = "running"
    /\ pc[r] = "lost" => late[r] = {}

\* The outcome: run_finished only after its commit.
OutcomeInv(r) ==
    /\ "finished" \in pub[r] => pc[r] = "done"
    /\ "finished" \in pub[r] \/ (pc[r] = "outcome" /\ op[r] = "ok") =>
        /\ outcome[r] # "none"
        /\ source[r] = "derived" => outcome[r] = derive_from_status(final[r])

\* The events: every number below the next one, or below the one whose write
\* is under way or late, is stored.
EventsInv(r) ==
    /\ \A n \in events[r] : 0 .. n \subseteq events[r]
    /\ pubev[r] \subseteq events[r]
    /\ pc[r] \in {"created", "orch", "audit"} =>
        \A k \in 0 .. (NextSeq(r) - 1) : k \in events[r]
    /\ pc[r] = "append" => NextSeq(r) \in {0, cur[r] + 1}
    /\ pc[r] = "append" \/ "event" \in late[r] =>
        \A k \in 0 .. (cur[r] - 1) : k \in events[r]
    /\ pc[r] = "audit" \/ (pc[r] = "append" /\ op[r] = "ok") => cur[r] \in events[r]

\* What every run satisfies at its control point; the invariants above follow.
RunInv ==
    \A r \in Runs :
        LateInv(r) /\ VerdictInv(r) /\ StartInv(r) /\ OutcomeInv(r) /\ EventsInv(r)

----------------------------------------------------------------------------
(* What the rest of the system sees of a run *)

\* The phase of the task: before its finally block, inside it, gone.
LifeOf(r) ==
    IF "started" \notin pub[r] THEN "none"
    ELSE CASE pc[r] \in {"metrics", "outcome"} -> "closing"
           [] pc[r] \in {"done", "lost"}       -> "over"
           [] OTHER                            -> "working"

\* The verdict and the end that subscribers of Topic.runs have been told.
VerdictOf(r) == IF pub[r] \cap Terminal = {} THEN "none" ELSE final[r]

ToldOf(r) == IF "finished" \in pub[r] THEN final[r] ELSE "none"

Life == INSTANCE RunLife WITH
            life    <- [r \in Runs |-> LifeOf(r)],
            status  <- row,
            verdict <- [r \in Runs |-> VerdictOf(r)],
            told    <- [r \in Runs |-> ToldOf(r)]

\* The executor does nothing to a run's row and to Topic.runs that RunLife does not
\* allow: the learning consumer and the front-ends, which are modelled and proved
\* against RunLife, meet in the daemon no run that they were not checked with.
LifeCycle == Life!LifeSpec

----------------------------------------------------------------------------
(* Liveness, and what comments and logs of the repository say *)

\* Every run task ends: the run timeout bounds orchestrate and no store call
\* waits for ever, whoever is cancelled meanwhile.
EveryRunEnds ==
    \A r \in Runs : pc[r] = "created" ~> pc[r] \in {"done", "lost"}

\* A single cancel that reaches a run at work, or one that is just storing its
\* completion, is recorded: the row becomes terminal, unless a second cancel or
\* the end of the daemon interrupts the handler (and if the store works: this is
\* checked with StoreFaults = FALSE).
CancelledRunIsRecorded ==
    \A r \in Runs :
        intr[r] = "cancel" /\ pc[r] \in Orchestrating \cup {"complete"}
            ~> row[r] \in Terminal \/ cancels > 1 \/ daemon # "up"

\* What main.py calls cancelling active runs gracefully: a run that had begun
\* to emit events is recorded with a terminal status when the daemon is down.
GracefulShutdown ==
    daemon = "down" /\ crashes = 0 =>
        \A r \in Runs : pc[r] = "done" /\ events[r] # {} => row[r] \in Terminal

\* What derive_from_status documents: the outcome is derived from the status
\* of the run, so the two tables agree once all writes are in.
OutcomeFollowsStatus ==
    \A r \in Runs :
        /\ "finished" \in pub[r]
        /\ source[r] = "derived"
        /\ row[r] \in Terminal
        /\ late[r] = {}
        => outcome[r] = derive_from_status(row[r])
============================================================================
