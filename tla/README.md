# A TLA+ verification of hyprland-agent

hyprland-agent is a daemon that lets a language model drive a Hyprland desktop.
Clients (CLI, TUI, launcher, voice side car) submit tasks over a Unix socket;
the daemon asks a "brain" for a list of actions, passes each action through
safety gates, performs it with a tool, records everything in SQLite, publishes
events, and learns from finished runs. It is one asyncio process with a thread
pool for SQL, and the interesting mistakes are those of asyncio: what happens
between two suspension points, where a cancellation lands, which thread is
still writing after nobody waits for it.

This directory holds the models (`*.tla`), the TLC instances (`MC*.tla`,
`*.cfg`), the proofs (`*_proofs.tla`) and `PROJECT.json`, which ties each
definition to the source lines it stands for and lists the runs, the mutants that
show that every property can fail, the hazards, the findings and the theorems.
Source paths below are relative to `src/src/agent/`.

## 1. Inventory

| Component | Source | State | Operations | Correct when | Module |
|---|---|---|---|---|---|
| Run executor | `daemon/run_executor.py` | `_tasks`, `_seq`; per task: the point it awaits at, `final_status` | `submit_run`, `submit_plan`, `cancel`, `emit`, `_run_task`, `close` | one verdict per run, stored before it is published; an event is published only after it is stored; every run ends | RunExecutor |
| Run store, writes | `daemon/store.py` | SQLite tables; `_lock` | one coroutine per statement, executed by a thread under `_lock` with a timeout of 30 s | the lock is never leaked; a late thread does no harm | RunExecutor, Learning, Proposals |
| Run store, schema | `daemon/store.py` | `user_version`, tables, columns | `_init_db` | an upgrade that is cut off is repeated, no row is lost | Migrations |
| Run store, cache | `daemon/store.py` | `_lru` | `get_run`, invalidation by writers | no stale entry without a race | RunCache |
| Orchestrator | `orchestrator.py`, `awareness/meta_cognition.py` | the action list, the loop detector | `run`, `plan`, `_execute_action` | every action passes the gates; STOP ends a run; stuck exactly at the threshold | Orchestrator |
| Kill switch | `safety/killswitch.py`, `daemon/main.py` | the STOP file | `arm`, `disarm`, `ensure_disarmed`, the 100 ms poller | a press is never lost | Orchestrator |
| Rate limiter | `safety/rate_limit.py` | a deque per kind | `check` | never more than the limit in any window | RateLimiter |
| Allowlist, miners, proposals | `safety/allowlist.py`, `learning/*` | the miss counter, two tables, two YAML files | `is_allowed`, mine, approve, reject, reload | approved means in the file; decided means decided | Proposals |
| Learning and episodic memory | `learning/consumer.py`, `memory/*` | the consumer's queue and tasks; episodes, vectors, lessons | ingest, reflect, recall, decay | an episode tells what was published of its run, or what its row says | Learning |
| Daemon life cycle | `daemon/main.py`, `daemon/state.py` | open resources, background tasks | start, SIGTERM, `close`, teardown | runs are recorded, nothing hangs | RunExecutor, Integrations, Learning |
| PubSub bus | `daemon/pubsub.py` | `_subs`, one queue per subscriber | `subscribe`, `unsubscribe`, `publish` | order kept; only the oldest is dropped | Connection |
| Server connection, RPC | `daemon/server.py`, `daemon/rpc.py` | per client: reader, writer, forwarders, `outbound`, `stop`, `subs` | handshake, read loop, dispatch, end | no response lost; a gone client is dropped | Connection |
| Client connection | `client/connection.py` | `_pending`, `_event_queue`, `_reader_task` | `connect`, `request`, `subscribe`, `events`, `close` | every iterator is released | Connection |
| Brains | `brain/*` | the transcript of a decision | `decide`, provider routing, compaction | calls and results paired; fails only if something failed | Brain |
| Tools | `tools/terminal.py`, `tools/_proc.py` | a subprocess | run, time out, terminate | no process left behind | Commands |
| Integrations | `integrations/*` | `_integrations`, `_status`, the lock listener | `setup`, `teardown`, screen lock | all torn down once; a lock ends the runs | Integrations |
| Watcher and rules | `daemon/watcher_service.py`, `daemon/rule_runner.py` | the rules, a task per matched rule | read events, run rules, reload | a matched rule runs to its end | Watcher |
| Voice | `voice/*`, `cli/voice_sidecar.py` | pipeline state shared by a thread and coroutines | capture, wake word, transcribe, submit, announce | one task per trigger; a recording ends | Voice |
| Followers of the runs topic | `tui/*`, `cli/runs.py`, `cli/waybar_module.py` | the rows, the line | list and events merged | the rows are right; `tail` ends | Frontends |
| Audit log, framing, sanitizer, confirmation | `daemon/audit_log.py`, `ipc/*`, `safety/*` | none that matters | | as steps of the modules above | |
| Other TUI panes and commands, diagnostics, configuration, log publisher, introspection | | presentation | | | none |

**How they interact.** `rpc.dispatch` calls the executor; the executor creates a
task per run, which awaits `orchestrate` inside `wait_for(run_timeout)`;
`orchestrate` asks a brain, and its actions start processes. It calls back
`ctx.emit`, which awaits the store, then the audit log, then publishes. The
learning consumer is one subscriber of that topic and the forwarders of each
connection are others; they move events from the bus into `outbound`, whose only
consumer is that connection's writer. Cancellation reaches a run from a client's
`cancel_run`, from the kill-switch poller, from the screen-lock integration, from
`main` on SIGTERM and from `executor.close`. Shared state: the database and its
lock, the LRU cache, the STOP file, the YAML files, the active window, the rate
limiter.

**What is hard.** (1) Cancellation at any await, a second one inside an
exception handler or a `finally` block. (2) Threads that outlive the coroutine
that started them. (3) A lock that an interrupted coroutine must give back.
(4) Reads that are cached after the write that should have invalidated them.
(5) A check of shared, external state (STOP, active window) used an await later.
(6) Bounded queues in a chain, with a peer that stops reading or disappears.
(7) Kill, restart, and an orderly exit that is interrupted by itself.
(8) A database and files that are updated in several steps. (9) A list and a
stream of events that describe the same runs and race each other. `PROJECT.json`
lists each at its line under "hazards".

## 2. Modules

```
RunIds                                 the ids of runs
RunLife       RunLife_proofs           the life of a run as others see it
RunExecutor   RunExecutor_proofs       executor, store writes, daemon life cycle
Orchestrator  Orchestrator_proofs      the inside of a run, kill switch, poller, loop detector
RunCache      Store_proofs             get_run and its LRU cache
Migrations    Store_proofs             _init_db on a database of any age
Learning      Learning_proofs          consumer, episodes, lessons, recall, decay
Proposals     Learning_proofs          miners, inbox, YAML files, reload
RateLimiter   Services_proofs          the sliding window
Commands      Services_proofs          the process of one action
Brain         Services_proofs          the dialogue of one decision
Integrations  Services_proofs          registry, screen lock
Watcher                                window events and rules
Voice         Clients_proofs           the side car
Frontends     Clients_proofs           TUI list, runs tail, waybar
Connection    Connection_proofs        server connection, bus, socket, client
EventStream   Connection_proofs        what Connection implements on each topic

MCRunExecutor (races)   MCMemory (memory)   MCExecution (execution)
MCBackground (background)   MCConnection (connection)
```

A step of every model is what a coroutine does between two suspension points
(or what one thread's SQL statement does), since asyncio interrupts nowhere else.
`_lock`s that are never held across a suspension (`PubSub._lock`,
`RateLimiter._lock`) make their sections atomic and are not modelled.

### RunExecutor

`pc[r]` is the await at which run `r`'s coroutine stands: `insert` is `_submit`
inside `insert_run`; `created` a task that has not started; `orch` the inside of
`orchestrate`; `append` and `audit` the two awaits of `_emit`; `complete` and
`handle` the `update_run_status` of the try body and of the three exception
handlers; `metrics` and `outcome` those of `finally`. `op[r]` says how far the store call of that
point is: waiting for the lock, in its thread, committed, failed. `intr[r]` is
the exception scheduled for the task; `Deliver` raises it at whatever point the
task is, and `Handler` says where each point's exception goes. When `Throw`
interrupts a call whose thread runs, the write moves to `late[r]` and commits (or
fails) at any later time, outside the lock.
The environment: cancels from clients and poller, the run timeout, a broken
connection during `_submit`, feedback, SIGTERM (`Shutdown`), `executor.close`
(`Close`) after the server has ended, its grace period (`CloseTimeout`), the end
of `asyncio.run` (`Teardown`, `Exit`), `Crash` and `Restart`.

### RunLife

The abstract specification of a run: its row in `runs` (`status`) and the messages
that tell of its start (`life`), its verdict and its end (`told`). It leaves open
what the code leaves open: `InsertRun` without `CreateTask` (a submission that
is refused after `insert_run`), `CutShort` (a handler whose own store call is
interrupted or fails: no verdict, and the row may stay `running`), `LeaveTask` (a
`finally` block that is interrupted or fails: no `run_finished`, whatever the row
says), `WriteStatus` at any later time for a `completed` whose thread was abandoned,
and `KillProcess`. RunExecutor implements it: `LifeCycle` is RunLife's specification
under the refinement mapping `LifeOf`, `VerdictOf`, `ToldOf`, checked in `races` and
proved as `LifeCycleCorrect`. Learning and Frontends extend it: their runs live as
RunLife says, so neither assumes of a run what the executor does not keep.

### Orchestrator

One coroutine per run goes through `new` (the task starts: `ensure_disarmed`),
`window` (allowlist), `screen`, `decide`, `loop` (kill switch), `gate`
(rate limiter, sanitizer, control terminal), `confirm`, `perform`, `after` (loop
detector), and `stuck` or `leaving` while its last event is emitted. All runs share `flag` (the STOP
file) and `focus` (the active window, which the user or an action changes).
`Arm` creates the file, `Poll` is the daemon's poller. The brain returns any
list of at most `MaxActions` actions. Events are left to RunExecutor: `emit`
matters here only as the suspension point that separates a check from its use. `press`,
`after`, `observed` and `hits` are history variables that no action reads.

### RunCache

A record is its version, the number of writes committed to the run. Readers do
what `get_run` does, without the lock: hit, or read in a thread and then store in
`_lru`. Writers hold the lock, commit in a thread, and invalidate the entry when
they resume, unless they were abandoned (cancelled, timed out) before.

### Connection and EventStream

One client's connection. On the daemon's side `rd`, `wr`, `fw` are the reader, writer
and forwarder tasks, `outbound` the bounded queue, `queue[t]` the subscriber's
queue with its drop policy; between the sides `c2s` and `s2c` are the socket, whose
flow control is `drain()` above `HighWater`; on the client's side the read loop,
`_pending`, `_event_queue` and the consumer of `events()`. The client may be any
program that speaks the protocol: it can also send a version that does not fit, a malformed
frame, an unsubscribe, or a subscription to `voice`, a topic that the table of queue
sizes lacks. Either side may go away at any time. An RPC handler is
`dispatch` ... `respond`; nothing says that it ever returns.

`EventStream` is the abstract specification of the subscriptions: per topic a
sequence in flight, from which an event leaves only at the front (received), at the
end of the subscription (any suffix), or, on a lossy topic, displaced by a newer
one. `Next` says it of every topic at once, because the end of a connection ends the
subscriptions of all its topics in one step. `Stream` instantiates it with the
concatenation of every queue an event passes: `_event_queue`, the socket,
`outbound`, the forwarder's hand and the subscriber's queue. `EventsAreStreamed` is
the refinement, `Stream!Spec`.

### Learning

`LearningConsumer` subscribes to the runs topic; `inbox` is its queue. The runs are
RunLife's (`LifeStep`), and go on while the consumer works: a row may change after its
`run_finished`, may still be running, and a `run_finished` may never come. `Dispatch`
starts a task per `run_finished`, `handler[r]` is the control point of that task:
`waiting` for the semaphore, then the awaits of `EpisodicMemory.ingest` and
`ReflectionEngine.reflect`. `rec` is the record that `get_run` returned: the row, or an
outdated copy that a race has left in the cache (`CacheOldRecord`, once for a run, as
RunCache allows). A store call may fail at each await, and both callers swallow the
failure. The other half is recall (`recalled`, between the vector query and the
touches), the decay of scores and `prune_decayed`. `CloseConsumer` ends the loop but
not the tasks; `Exit` cancels them, and the runs.

### Proposals

The cycle from a denied window or a recurring pattern to a rule in force.
`misses` is `_miss_counter`, `batch` what `mine()` drained before its upserts. `op[d]` is
the RPC of one client: approve lists the rows, appends to the YAML file without an
await in between, updates the status, and reloads if it was a rule. An update may raise, or time
out and commit later (`lateUpdates`). The user edits the rules file; a crash comes at any
point, also between truncating and writing a file (`torn`). `inForce` are the
learned rules that the daemon follows after the last reload.

### Migrations

`_init_db` as the list `todo` of statements that the version and the tables on
disk make due; `disk` is what is committed, `pend` what the open transaction of v5
adds. `Stop` cuts it off between any two statements; the vector extension loads or not at each open. The rebuild of a
legacy `runs` table is four statements of its own. A database starts at any earlier
version, with any rows.

### RateLimiter

A deque of timestamps per kind is kept as the log of all grants and the number of
those evicted from its left end, so that the property can speak about grants that
the code has forgotten.

### Brain

A transcript is a sequence of messages with a role and the tool calls that they
make or answer. `Kept` is `compact_messages`, which keeps everything from the
`keep_rounds`-th user message from the end; 0, which the configuration allows, keeps all of
them, because `round_starts[-0]` is the first. `decide()` is compaction, call, the handling of the response's calls one by one. Tool calls
of the model can be malformed, unknown or fail. The two dialogues differ where the code
differs: the roles of tool results, and the message objects that the OpenAI
client returns.

### Commands

The awaits of `_run_visible`, `_run_capture` and `_proc.run`: opening event, spawn,
wait with a timeout, SIGTERM, two seconds, SIGKILL, closing event. A cancellation
may arrive at each, also inside the handler of an earlier one. `stubborn` processes
ignore SIGTERM. `communicate()` waits for the end of the process's pipes and not only
for the process (`Drained`): a child that it has forked (`Fork`, `heir`) may hold them
when it is dead, as the one of `wl-copy` does. The wait of a headless shell has a
timeout after which the process alone is awaited; `_proc.run` awaits
`communicate()` once more after its kill, without one (`Reaped`).

### Integrations

The registry loads its entry points in order, each may be missing, degraded or
ready, and tears down the ready ones in reverse order, each of which may raise.
The idle integration's listener queues `ActiveChanged` signals and cancels the
active runs; runs are reduced to whether they can be cancelled yet.

### Watcher

`OnEvent` starts a task for each rule of the current list that matches; a task's
actions are done one after the other, each may succeed, fail or time out. Reloads swap the list, the socket
may end.

### Voice

The capture thread handles one block in several steps, on fields that the
coroutines it hands to the event loop change without a lock; `waking` splits
`_check_wake_word` between its assignments, where the thread can run. `_transcribe` holds
the event loop. Push-to-talk requests and the announcements of `_watch`, with the
barge-in event, run beside it.

### Frontends

Three programs, one per behaviour, over runs that live as RunLife says. `wire` holds
the events on their way. The answer to `list_runs` is a snapshot of at most
`ListLimit` rows, made among the events, and the request may fail, which `on_mount`
suppresses (`ListFails`). `unsure` is a history variable: the runs that the first list may
have wrong, because they published something while it was on its way, were stored but not
announced when it was made, were beyond its limit, or had begun when it failed. The
part of the TUI covers one life of the daemon, since the TUI does not connect again;
`tail` and waybar see `Outage` and `Restart`. Waybar draws the start of a run as
running or idle (`_render` does not know `plan_started`) and its end by the status
that `run_finished` carries.

### The MC modules

The components of `MCMemory`, `MCExecution` and `MCBackground` share no state
there. A variable `part`, chosen initially, says which component moves; the
others stay in their initial state. One run thus checks the sum of the state spaces
and not their product, without weakening any: each component has all its
behaviours. A component that the module EXTENDS has its constants in the cfg, one
that it INSTANCEs has them in the module. `MCRunExecutor` does the same with two
instances of one module. The lasting interactions of two components are inside one
module each (run and poller, server and client, thread and event loop, miner and
client); what a component needs of the runs of another one is RunLife, which both sides
share and the executor is shown to implement. Smaller environments are free choices: a
store call fails or not, a record is outdated or not, a listener's run can be cancelled yet
or not.

RunLife lets a row change at any time, which multiplies every instance. `MCMemory` and
`MCBackground` therefore restrict it where the property does not look: in the part
`learning` of `memory` one run lives (the episode of a run depends on no other, while
the queue at the semaphore is in `background`), its part `tui` leaves out `errored` (the
list treats all three final statuses alike), and in `background`, where nothing
depends on rows, the rows stay running in the part `learning`, and in the part `front` that
of the run which is not followed does and the other one ends once. The theorems have no such restriction.

## 3. Runs

| Run | Parts and instances | Result |
|---|---|---|
| `races` | RunExecutor: 1 run, 2 events, 2 cancels, 1 crash, store faults; and 2 runs, 1 cancel, that contend for the lock | passes |
| `memory` | RunCache: 2 runs, capacity 1, 2 readers, 1 writer, 2 versions. RateLimiter: limits 1 and 2, period 2, time to 5. Migrations: all versions, 2 rows. Proposals: rules for 1 class and 2 patterns, 2 clients, 2 blocks. Learning: 1 run, semaphore 1, recall 1. Brain: both protocols, 4 rounds, 2 calls, 2 rounds kept. Frontends: the TUI with 2 runs, list limit 1. Orchestrator: 2 runs, 2 actions, 1 press; and 1 run with lists of 7 actions for the loop detector | passes |
| `execution` | Orchestrator: 2 runs, 1 action, 1 press, fair. RunExecutor: 1 run, 2 cancels, 1 crash, fair. Commands: 2 cancellations, all three kinds, with and without children, fair. Integrations: 3 entry points, 2 runs, 2 signals, fair | passes |
| `background` | Learning: 2 runs, fair. Proposals: 1 window class, 2 clients, fair. Watcher: 2 rules, 2 events, 1 reload, fair. Voice: 2 triggers, 2 waiting coroutines, fair. Frontends: `runs tail` with 2 runs and waybar with 1 outage, fair | passes |
| `connection` | Connection: queues of 1, 2 topics (one unbounded, one lossy), 2 events, 2 requests, 3 subscription frames, fair | passes |
| `graceful_shutdown` | RunExecutor: is a run recorded with a final status when the daemon exits in order? | violated |
| `outcome_follows_status` | RunExecutor: do `runs.status` and `run_outcomes` agree? | violated |
| `stop_within_one_action` | Orchestrator: does STOP act within one action whatever other runs do? | violated |
| `allowlist_focus` | Orchestrator: are actions performed on allowed windows only? | violated |
| `run_cache_fresh` | RunCache: does a read that begins after a write see it? | violated |
| `openai_rounds` | Brain: does a dialogue fail only when something failed? | violated |
| `barge_in` | Voice: does the wake word stop an announcement? | violated |

What the passing runs show, in words:

* `races`: whatever interrupts a run, its stored events have no gap and include
  all that were published; its verdict is the stored status up to a late
  `completed`; there is one verdict; `run_finished` comes after the outcome;
  a run that ended stays ended, with an outcome that only feedback changes; and
  nothing happens to its row and its messages that RunLife does not allow.
* `memory`: the cache holds committed records, stale ones only after a race; the
  limiter is a sliding window; a schema version never promises what is not there
  and rows survive; an approved rule is in its file; an episode tells the published
  end of its run, or what the row or an outdated record said instead; every tool call is answered in the next
  message after any compaction; the TUI's rows are right, except of runs that the first list may have wrong; a STOP allows at most
  one more action and is not lost, unless the start of another run erases it; the loop detector stops a run exactly at its
  threshold.
* `execution`: a STOP, a cancel, a lock of the screen or a timeout ends the run,
  a cancelled run is recorded as aborted, a command ends (a tool only if no child of
  it holds its pipes, or by a cancel) and leaves no process,
  each integration is torn down once.
* `background`: a run announced as finished is handled, a denied window is proposed and a
  decision stays, matched rules run to the end, a trigger makes one task and a
  recording ends, `tail` ends if `run_finished` comes or
  the daemon goes, and an outage shows.
* `connection`: topics implement EventStream, requests are answered in order,
  everybody is released when a side goes away.

**Why the bounds are enough.** In RunExecutor runs interact only through the store
lock and `CancelAll`, so one run with all faults and two runs with one cancel
cover the interactions; two cancels are what it takes to interrupt a handler, two
events what it takes to leave a gap, and the theorems hold for any number. The
loop detector's default is 3 within 6: lists of 7 actions make its window slide. In
RunCache capacity 1 and two runs make every insertion of the other run evict, two
readers overlap, and two versions distinguish stale from fresh. In Connection
every queue has one place, so every one of them fills; two events fill the lossy
queue and displace; three subscription frames are subscribe, unsubscribe,
subscribe again with events of the old subscription still under way. In Proposals two
clients decide on one item at the same time, and two patterns of one class compete for it.
In Learning a semaphore of 1 makes two runs queue (`background`). In Frontends a list
limit of 1 makes two runs exceed it; the outages of `tail` and waybar are one, after which they
end or are back where they began. In Brain four rounds of which two are kept
make compaction drop rounds twice. In Commands the second cancellation is the one
that hits the handler of the first. In RateLimiter the clock passes two periods. In Voice two triggers are a wake word within a
recording or beside push-to-talk. Database versions and their statements are all enumerated. The bounds
are the constants `Max*`, in the guards of the actions they bound.

**Deadlock** is checked where the system never stops: `races` (the daemon can
always be restarted), `memory` (the cache and the schema can always move; the parts
that their bounds end stutter explicitly) and `run_cache_fresh`. It is off where
everything may end: a finished connection, commands and runs that are over, a
`tail` that has seen its last event, a closed daemon.

## 4. Fairness

* RunExecutor: a ready coroutine is scheduled and a thread ends (weak fairness of
  each of these steps); the run timeout and the timers fire; `asyncio.Lock` is FIFO
  and every holder gives it back, which is strong fairness of taking it. Nothing is
  assumed of `orchestrate` (it may hang), of clients, or of feedback.
  `StoreFaults = FALSE` there because a disk that always fails records nothing.
* Orchestrator: the poller's loop runs for ever, a cancelled task is scheduled.
  The brain, the tools and the user may never answer.
* Connection: the reader starts, the writer is woken (by its heartbeat at the
  latest), `asyncio.wait` returns once one of the tasks has ended. RPC handlers,
  publishers, forwarders and the client may do nothing for ever.
* Learning: the consumer's loop takes its messages and each background task goes on;
  a store call has a timeout. Being granted the semaphore needs weak fairness only,
  because a task that waits for it is always enabled once another one leaves, and
  only so many runs exist.
* Proposals: the mining loop comes round, a store call returns or fails. Nobody has
  to decide anything.
* Watcher: tasks are scheduled and an action has a limit of 30 s.
* Commands: the event loop runs ready coroutines and timers; a process that obeys
  dies of its signal. One that nobody signals may run for ever, and so may the children
  of one that is dead.
* Integrations: the listener and a cancelled run are scheduled.
* Voice: the capture thread, the clock and the event loop run; requests may hang.
* Frontends: a task reaches its `finally` block and leaves it (`TaskGoesOn`; that tasks
  end is `EveryRunEnds` of RunExecutor), with or without a verdict, a final row and
  `run_finished`, which nobody is fair to; and a program reads what has come.

## 5. Proofs

Eight modules are checked by TLAPS. They hold for any values of the constants
that satisfy the named assumptions of the module: bounds and limits are naturals,
`StoreFaults` is a boolean, keyboard and confirmed actions are actions, the
detector's window and threshold are positive, entry points are distinct, window
classes and rules have ids of their own, ending a recording by silence takes more than one
frame. TLC evaluates every assumption in the runs
that extend the module.

* **RunExecutor_proofs.** `TypeCorrect` is the type invariant, which also says that
  a run awaits the store exactly at the points that call it. `LockCorrect` is mutual
  exclusion of the store lock; the heart is `LockGoto`: leaving a point gives the
  lock back exactly if the run held it. `RunsCorrect` is the inductive invariant
  `RunInv`: the properties alone are not inductive, because they do not say what
  late writes may exist. `RunInv` adds, per control point, which writes can be late
  (`LateInv`: an insert only of a refused submission, a status only of an
  interrupted `update_run_status` and only `completed` once a verdict is out, an
  outcome only of a task whose `finally` was cut short), what the row says once a
  status call is through (`VerdictInv`), the same for the outcome (`OutcomeInv`),
  and which event numbers must be stored (`EventsInv`). Steps of one run leave the
  other runs' parts alone, so there are two lemmas, one for the steps of a run and
  one for the daemon's. From it follow `VerdictCorrect`, `OneVerdictCorrect`,
  `FinishedCorrect`, `EventsCorrect` and `PublishedCorrect`, and with `WhoWrites`,
  which names the steps that write the two tables, the action properties
  `EndedCorrect` and `OutcomeCorrect`. `LifeCycleCorrect` is the refinement of RunLife: a step
  inside one phase of the task changes nothing that is visible (`InsidePhase`); a
  commit, in time or late, is a `WriteStatus` or an `InsertRun` (`CommitIsALifeStep`,
  `LateCommitIsALifeStep`); an exception is a `CutShort` or a `LeaveTask`
  (`ThrowIsALifeStep`); and the end of the process is a `KillProcess`. It needs of `RunInv`
  that `run_started` is out exactly once the task exists (`StartInv`), that a verdict is in
  the row when it is published, and that a late status is `completed` from then on.
* **Orchestrator_proofs.** `TypeCorrect`, and `StopCorrect`: `StopHonoured` by the
  inductive invariant `StopPending /\ StopHonoured`. Once STOP is created during a
  run, the file is there or the run's cancellation is scheduled or it is over, and
  a run past its kill-switch check has performed nothing since.
* **Store_proofs.** Of the cache, `CommittedCorrect` and `RaceCorrect`. `CacheInv` bounds what
  each call in progress may know: a version that was committed and, for a reader,
  none older than the last write that had returned when its call began. The LRU
  list has one entry per run at most, which makes the removal of an entry remove
  all that is known of the run; the lemmas on `RemoveAt` and `Append` keep it so.
  Of the schema, `VersionCorrect` and `RowsCorrect`. `SchemaInv` says of the
  statements that are still to do that each version mark among them is preceded by
  the creation of whatever it promises and the disk lacks (`Covered`), and that the
  statements of the rebuild follow each other (`Chain`); both survive the removal of
  the first statement and the insertion of others before it. `RowInv` says in which
  of the two tables the rows are, by the statement that comes next.
* **RunLife_proofs.** `LifeCorrect`: the row agrees with the published verdict but for
  a late `completed`, and `run_finished` repeats the verdict if there was one
  (`LifeInv`). `LifeSettles` says what no later step changes. The two modules whose environment is RunLife cite them.
* **Learning_proofs.** `EpisodesCorrect`. The chain is: `run_finished` is in the queue
  only of a run that published it, a task exists only for such a run, and what it has
  read, and the episode that is made of it, is what the verdict said, a `completed`
  that overtook it in the row, or an outdated record. A published
  verdict, `told` and a `completed` in the row beside another verdict stay.
  Of Proposals, `ApprovalsCorrect` and `DecisionsCorrect`. Whoever is about to
  store `approved`, a handler or the abandoned thread of one, has appended the
  entry before, and only a torn file loses entries (`InFile` is monotone).
* **Services_proofs.** `SlidingWindow`: grants lie in the
  past and whatever was evicted is a period old; a grant needs fewer than the
  limit in the deque, so the one that is a limit before it has been evicted.
  `NothingLeftRunningCorrect`: `CommandInv` says for each await
  which signal has been sent by then and whether the process can still run.
  `CallsAnsweredCorrect`: `DialogueInv` says that user and assistant take turns and
  that each user message answers the calls of the message before it. A suffix that
  starts at a user message is such a transcript again (`SuffixTurns`), and
  `KeptTurns` shows that compaction takes one: the round start that the code indexes
  from the end exists (`PositionFromTheEnd`), for every number of rounds.
  `TeardownCorrect`: the list has exactly the ready names,
  each once, and the teardown has reached what lies behind its index.
* **Connection_proofs.** `ConnectionInvariant` is the inductive invariant: what every
  coroutine of both sides can hold at its control point, which queues and tasks
  exist, and `Accounted`, where each request is. From it follow `IteratorReleased`,
  `RequestsAreConserved`, and `EventsStream`: the refinement of EventStream. Its step
  simulation goes topic by topic: a frame that moves from one queue to the next
  leaves `InFlight` alone (the lemmas on `ArgsOf` over concatenation, `Tail` and
  `Append`), a publication appends to it, an eviction removes one element of it, and
  the end of a side cuts a suffix off.
* **Clients_proofs.** `RowsAreRightCorrect`: for a run that the first list cannot have
  wrong, the row together with the events that have not been read fits the life of the run
  (`RowFits`), and its events are on the wire in the order of its life and not beyond how far it has come
  (`Rank`, `Far`), so that `ended` is never read before `started`. That an `ended` row
  has an ended row behind it rests on `LifeCorrect`. `OneTaskCorrect`: up to the second trigger, a
  trigger is a push-to-talk client, a recording (`Armed`), a waiting coroutine
  (`Submits`) or a request, never two of them. `RacedBlock` is what makes this inductive: the
  block of the capture thread that begins between the assignments of
  `_check_wake_word` cannot end by silence, since that takes more frames than one
  (`EnoughAssumption`; the code wants more than 20), and after a hand-over its
  frame is not handed over again.

`StuckCorrect` of Orchestrator_proofs is the loop detector against its definition:
`Tracks` says that the deque is the last `Window` of all observed actions,
`DequeCounts` that counting an action in the deque and in the end of that history is the
same, by a bijection, and `CountsStay` that later actions leave what was counted alone.

The proofs about `ArgsOf`, which is a recursive function, and about the rounds of a
transcript need induction. They take a least counterexample (`LeastNatural`), which
`NatLessThanWellFounded` of the library gives for a set of naturals.

**Only model-checked:** liveness, which needs fairness (`EveryRunEnds`, `CancelledRunIsRecorded`,
`StopEnds`, `CommandEnds`, `LockEndsRuns`, `FinishedRunsAreLearned`,
`DeniedIsProposed`, `MatchedRulesRun`, `RecordingEnds`, `TailEnds`, `OutageShows`,
`GoneClientIsDropped`). Every invariant and every action property that a
passing run checks is proved. The mutants, which show that each of them can fail, and the
violated runs are TLC's.

## 6. Findings

Each is a run that is expected to be violated; `PROJECT.json` quotes the texts.

1. **An orderly exit can leave a run marked as running** (`graceful_shutdown`). `main`
   cancels the active runs, then `executor.close()` cancels those whose handler is
   still storing `aborted`. The second `CancelledError` ends the handler.
2. **The outcome can contradict the status** (`outcome_follows_status`). A cancel that
   arrives while `completed` is being stored sets `final_status` to aborted, but
   the thread's write may commit after the `aborted` one.
3. **A STOP can be erased by the start of another run** (`stop_within_one_action`).
   `_build_state` of every run removes the file, also one created a moment ago for
   another run.
4. **The allowlist is consulted once per run**, not before each action
   (`allowlist_focus`).
5. **A stale record can stay in the cache** (`run_cache_fresh`). `get_run` reads
   without the lock and caches after a writer has invalidated the entry.
   `StaleOnlyAfterRace` shows that this is the only way.
6. **A dialogue with an OpenAI-compatible model fails in its second round**
   (`openai_rounds`). The transcript holds the client library's message object, and
   the token estimate of the next compaction treats it as a dictionary.
7. **The wake word does not stop an announcement** (`barge_in`). The event is looked
   at when the next run event arrives, and by then the speech has been awaited.

Further observations, which no run shows as a disagreement:

* A request whose response never comes waits for ever. `Topic.voice` cannot be
  subscribed to. The disconnect policy of the `runs` topic is never used because its
  queue is unbounded. Shutdown waits for clients to go.
* Feedback given while a run is going on is overwritten by the derived outcome.
* A crash within `write_text` empties `allowlist.yaml` or `learned_rules.yaml`
  (`torn`). `learned_rules.yaml` can get the same block twice.
* An open that was cut off within the rebuild of a legacy table fails for ever
  after, the rows being in `runs_new` (`cut`).
* Pruned episodes leave their vectors behind for ever; the join of the query keeps them
  out of every recall.
* A tool whose wait is cancelled leaves its process running. `_proc.run` "Raises
  RuntimeError on timeout" only once nobody holds the tool's stderr: after the kill it
  waits for that without a limit (`_proc.py:55`), and a child of `wl-copy` holds it.
  The action then ends with the run's timeout or a cancel.
* The event watcher is not started again when its socket ends, nor the lock listener
  when it has lost the bus.
* The row of a run whose handler or submission was cut short says running for ever. An
  episode of such a run says so too.
* The TUI ends with `DuplicateKey` when `run_started` comes after a list that has the run
  already. A failure of the first list is swallowed, and the runs it would have shown never appear.
* The wake word can be heard twice in one block and then makes two tasks.
* `runs tail` waits for as long as the daemon lives on a run that ended before it
  subscribed, and on one whose `finally` block was interrupted or failed; the waybar line
  changes only when the next attempt to connect fails.

## 7. Not modelled

* Prompt assembly, screenshots, embeddings and distances, JSON and schema
  validation, logging, presentation: data without a protocol. The same holds of
  configuration, diagnostics, the log publisher and introspection.
* The procedural memory of skills: nothing in the program produces one; its table
  appears in Migrations.
* SQL itself: a statement commits or fails as a whole (each `_do_*` method is
  one transaction), except in Migrations.
* Glob and pattern matching of the allowlist, the sanitizer's regular expressions:
  decisions that may go either way.
* The ring buffer of the microphone and the detection of voice and wake word: the
  detectors' answers are free.
* RPC handlers that only read; the audit log's content; the other panes of the
  TUI and the other commands of the CLI, which show what one request returns.
* mako, waybar and fuzzel as integrations: notifications without a state of their own.
* Several connections at once: they share nothing but the bus, whose sections are
  atomic, and the executor, which RunExecutor models.
* Of asyncio, the order in which ready tasks are scheduled: any order is allowed.

## 8. What could be added

* Two connections on one bus with a fair scheduler, to relate the drop policy of one
  client to the liveness of the other.
