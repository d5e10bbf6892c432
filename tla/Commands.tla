------------------------------ MODULE Commands ------------------------------
(***************************************************************************)
(* The process of one action: a visible foot window (_run_visible), a headless  *)
(* shell (_run_capture) or a tool such as wtype, ydotool, grim and wl-copy       *)
(* (_proc.run).  The task that awaits it may be cancelled at every await, also   *)
(* while it is cleaning up after an earlier cancellation.  communicate() waits    *)
(* for the end of the process's pipes, which a child that it forked may still      *)
(* hold when it is dead: wl-copy forks such a child, and so may a shell.           *)
(***************************************************************************)
EXTENDS Naturals, Sequences

CONSTANT
    MaxInterrupts    \* bound on the cancellations of the task: cancel_run, the
                     \* kill switch, the run's own timeout and close() may all ask

VARIABLES
    how,          \* visible, capture or tool
    stubborn,     \* the process ignores SIGTERM
    cpc,          \* where the coroutine stands
    proc,         \* none, running, dead
    heir,         \* a child of the process holds the write end of its pipes
    signal,       \* the last signal sent: none, TERM, KILL
    why,          \* what it is cleaning up for: none, timeout, cancelled
    shown,        \* the events that were emitted
    returned,     \* none, ok, failed, timeout, cancelled
    interrupts    \* cancellations delivered

cVars == <<how, stubborn, cpc, proc, heir, signal, why, shown, returned, interrupts>>

Terminal == how \in {"visible", "capture"}

Finish(r) == cpc' = "done" /\ returned' = r

\* The closing event is emitted and awaited next, if the command is a terminal's.
ThenEmit(r) ==
    IF Terminal THEN cpc' = "close" /\ UNCHANGED returned ELSE Finish(r)

----------------------------------------------------------------------------

\* emit("terminal_started") comes before the process.
Open ==
    /\ cpc = "open"
    /\ shown' = IF Terminal THEN <<"started">> ELSE <<>>
    /\ cpc' = "spawn"
    /\ UNCHANGED <<how, stubborn, proc, heir, signal, why, returned, interrupts>>

\* create_subprocess_exec or create_subprocess_shell: no such program.
Spawn ==
    /\ cpc = "spawn"
    /\ \/ cpc' = "wait" /\ proc' = "running" /\ UNCHANGED returned
       \/ Finish("failed") /\ UNCHANGED proc
    /\ UNCHANGED <<how, stubborn, heir, signal, why, shown, interrupts>>

\* The process forks a child that goes on without it, or such a child ends.  A
\* window has no pipes.
Fork ==
    /\ proc = "running" /\ how # "visible"
    /\ heir' = TRUE
    /\ UNCHANGED <<how, stubborn, cpc, proc, signal, why, shown, returned, interrupts>>

HeirEnds ==
    /\ heir /\ heir' = FALSE
    /\ UNCHANGED <<how, stubborn, cpc, proc, signal, why, shown, returned, interrupts>>

\* The process ends by itself, or of the signal it was sent.
Exit ==
    /\ proc = "running"
    /\ proc' = "dead"
    /\ UNCHANGED <<how, stubborn, cpc, heir, signal, why, shown, returned, interrupts>>

\* What communicate() waits for: the process is dead and its pipes are closed.
Drained == proc = "dead" /\ ~heir

\* The awaited process has ended; for a window proc.wait() is enough.
Collect ==
    /\ cpc = "wait" /\ proc = "dead"
    /\ how = "visible" \/ Drained
    /\ \E code \in {"ok", "failed"} :
        /\ why' = code
        /\ ThenEmit(code)
    /\ UNCHANGED <<how, stubborn, proc, heir, signal, shown, interrupts>>

\* SIGTERM to the group of the window, SIGKILL to the others; nothing if it is dead.
Stop(reason) ==
    /\ why' = reason
    /\ cpc' = "reap"
    /\ signal' = IF proc = "dead" THEN signal
                 ELSE IF how = "visible" THEN "TERM" ELSE "KILL"

\* Mutant of TimesOut: the process is left to itself.
TimesOut_LeavesProcess ==
    /\ cpc = "wait"
    /\ why' = "timeout"
    /\ ThenEmit("timeout")
    /\ UNCHANGED <<how, stubborn, proc, heir, signal, shown, interrupts>>

\* wait_for gives up: 300 seconds in a terminal, 5 or 10 for a tool.
TimesOut ==
    /\ cpc = "wait"
    /\ Stop("timeout")
    /\ UNCHANGED <<how, stubborn, proc, heir, shown, returned, interrupts>>

\* Mutant of Escalate: the two seconds have no end.
Escalate_Never ==
    /\ FALSE
    /\ UNCHANGED cVars

\* _terminate_process: the window did not close in two seconds.
Escalate ==
    /\ cpc = "reap" /\ signal = "TERM" /\ proc = "running"
    /\ signal' = "KILL"
    /\ UNCHANGED <<how, stubborn, cpc, proc, heir, why, shown, returned, interrupts>>

\* The process is dead: the handler goes on to its event or raises.  After the kill
\* of a tool it awaits communicate() once more, which has no timeout.
Reaped ==
    /\ cpc = "reap" /\ proc = "dead"
    /\ how = "tool" => Drained
    /\ ThenEmit(why)
    /\ UNCHANGED <<how, stubborn, proc, heir, signal, why, shown, interrupts>>

\* emit("terminal_exited"), ("terminal_timed_out") or ("terminal_cancelled").
Close ==
    /\ cpc = "close"
    /\ shown' = Append(shown, IF why \in {"ok", "failed"} THEN "exited" ELSE why)
    /\ Finish(why)
    /\ UNCHANGED <<how, stubborn, proc, heir, signal, why, interrupts>>

\* A cancellation arrives.  The wait of a terminal has a handler for it, the wait
\* of a tool has none, and neither has a handler that is already at work.  The
\* event being emitted may be stored or not.  asyncio kills a process that it was
\* still creating.
Interrupt ==
    /\ cpc \notin {"done"}
    /\ interrupts < MaxInterrupts
    /\ interrupts' = interrupts + 1
    /\ IF cpc = "wait" /\ Terminal
       THEN Stop("cancelled") /\ UNCHANGED <<returned, shown>>
       ELSE /\ Finish("cancelled")
            /\ shown' \in {shown} \cup
                 (IF ~Terminal THEN {} ELSE
                  IF cpc = "open" THEN {<<"started">>} ELSE
                  IF cpc = "close"
                  THEN {Append(shown, IF why \in {"ok", "failed"} THEN "exited" ELSE why)}
                  ELSE {})
            /\ UNCHANGED <<signal, why>>
    /\ UNCHANGED <<how, stubborn, proc, heir>>

----------------------------------------------------------------------------

cInit ==
    /\ how \in {"visible", "capture", "tool"}
    /\ stubborn \in BOOLEAN
    /\ cpc = "open" /\ proc = "none" /\ heir = FALSE /\ signal = "none" /\ why = "none"
    /\ shown = <<>> /\ returned = "none" /\ interrupts = 0

\* What the event loop, its timers and the kernel do in the end.
cStep ==
    \/ Open \/ Spawn \/ Collect \/ TimesOut \/ Escalate \/ Reaped \/ Close

Obeys == signal = "KILL" \/ (signal = "TERM" /\ ~stubborn)

cNext == cStep \/ Exit \/ Fork \/ HeirEnds \/ Interrupt

\* The kernel delivers signals; the event loop runs what is ready and its timers
\* fire.  A command that nobody signals may run for ever, and so may its children.
cFair == WF_cVars(cStep) /\ WF_cVars(Obeys /\ Exit)

cSpec == cInit /\ [][cNext]_cVars /\ cFair

----------------------------------------------------------------------------
(* Properties *)

\* However an action ends, the process it started is dead or dying: only a tool
\* whose wait was cancelled goes on unsignalled, and only a cancellation that
\* cuts _terminate_process short, the second one or one after the timeout,
\* leaves a window with SIGTERM alone.
NothingLeftRunning ==
    returned # "none" /\ proc = "running" =>
        \/ how = "tool" /\ returned = "cancelled"
        \/ signal = "KILL"
        \/ signal = "TERM" /\ interrupts > (IF why = "cancelled" THEN 1 ELSE 0)

\* A command that never ends and ignores SIGTERM still gives its action an end, and
\* so does a dead shell whose children hold its output.  A tool does not, if it
\* leaves a child that holds its stderr: _proc.run then hangs after its timeout,
\* and only a cancellation of the run ends the action.
CommandEnds ==
    (cpc = "wait") ~> (cpc = "done" \/ (how = "tool" /\ proc = "dead" /\ heir))
=============================================================================
