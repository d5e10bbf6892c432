---------------------------- MODULE Orchestrator ----------------------------
(***************************************************************************)
(* What happens inside the wait_for of RunExecutor: orchestrator.run and    *)
(* orchestrator.plan of concurrent runs, with the gates they pass before an *)
(* action (allowlist, kill switch, rate limit, control terminal,            *)
(* confirmation), the loop detector, the STOP file that all runs share, and *)
(* the daemon's kill-switch poller.  Events are not modelled here: emit     *)
(* shows up only as the suspension point between a check and its use.       *)
(***************************************************************************)
EXTENDS Integers, Sequences, FiniteSets, RunIds

CONSTANTS
    Actions,      \* action keys (kind and params) that the brain may plan
    Keyboard,     \* the actions of kind type_text and key
    Confirmed,    \* destructive dispatches and overwrites: ask the user first
    Windows,      \* kinds of window that can be active (see below)
    MaxActions,   \* bound on the length of the brain's action list
    MaxStops,     \* bound on how often STOP is created
    Window,       \* LoopDetector: maxlen of the history
    Threshold     \* LoopDetector: repeat_threshold

ASSUME KindsAssumption == Keyboard \subseteq Actions /\ Confirmed \subseteq Actions
\* The active window: none, in the allowlist, not in it, or an allowed
\* terminal that runs the agent itself.
ASSUME WindowsAssumption == Windows \subseteq {"none", "listed", "unlisted", "control"}
ASSUME BoundsAssumption == MaxActions \in Nat /\ MaxStops \in Nat
ASSUME DetectorAssumption == Window \in Nat \ {0} /\ Threshold \in Nat \ {0}

VARIABLES
    flag,       \* ~/.cache/hyprland-agent/STOP exists
    focus,      \* the active window
    at,         \* where the run's coroutine is
    kind,       \* RunKind
    acts,       \* actions the brain returned and the loop has not finished
    history,    \* LoopDetector._history
    cancelled,  \* CancelledError is scheduled for the run's task
    result,     \* how orchestrate ended
    \* History variables, for the properties only:
    stops,      \* how often STOP was created
    press,      \* STOP created while the run was at work: "no", "yes", or
                \* "erased" when another run removed it before anyone saw it
    after,      \* actions performed since
    observed,   \* actions given to the loop detector
    hits        \* active windows at the moments an action was performed

vars == <<flag, focus, at, kind, acts, history, cancelled, result,
          stops, press, after, observed, hits>>
runVars  == <<at, kind, acts, history, result>>
histVars == <<stops, press, after, observed, hits>>

----------------------------------------------------------------------------

\* hypr.active_window() returned w: "if active and not is_allowed(active)".
is_allowed(w) == w # "unlisted"

Points == {"idle", "new", "window", "screen", "decide", "loop", "gate", "confirm",
           "perform", "after", "stuck", "leaving", "over"}

\* The run's task exists and is not done: RunExecutor.active_run_ids.
Active(r) == at[r] \notin {"idle", "over"}

\* The coroutine of run r takes a step: it does not find CancelledError.
Resumes(r, p) == at[r] = p /\ ~cancelled[r]

Goto(r, p) == at' = [at EXCEPT ![r] = p]

Return(r, how) ==
    /\ Goto(r, "over")
    /\ result' = [result EXCEPT ![r] = how]

\* The last event, "blocked", "killswitch" or "done", is emitted before the
\* coroutine returns.
Leave(r) == Goto(r, "leaving")

----------------------------------------------------------------------------
(* Kill switch *)

\* killswitch.arm(): the hot key, agent stop, or the RPC arm_killswitch.
Arm ==
    /\ stops < MaxStops
    /\ flag' = TRUE
    /\ stops' = stops + 1
    /\ press' = [r \in Runs |-> IF Active(r) /\ at[r] # "new" THEN "yes" ELSE press[r]]
    /\ after' = [r \in Runs |-> IF press[r] = "yes" THEN after[r] ELSE 0]
    /\ UNCHANGED <<focus, runVars, cancelled, observed, hits>>

\* Mutant of Poll: the flag is consumed and nobody is cancelled.
Poll_OnlyDisarms ==
    /\ flag
    /\ flag' = FALSE
    /\ UNCHANGED <<focus, runVars, cancelled, histVars>>

\* One round of _killswitch_poller that finds the flag: cancel, then disarm.
Poll ==
    /\ flag
    /\ cancelled' = [r \in Runs |-> cancelled[r] \/ Active(r)]
    /\ flag' = FALSE
    /\ UNCHANGED <<focus, runVars, histVars>>

\* The task is scheduled and finds CancelledError.
Cancelled(r) ==
    /\ cancelled[r]
    /\ Active(r)
    /\ Return(r, "cancelled")
    /\ UNCHANGED <<flag, focus, kind, acts, history, cancelled, histVars>>

----------------------------------------------------------------------------
(* orchestrator.run and orchestrator.plan *)

Submit(r, k) ==
    /\ at[r] = "idle"
    /\ Goto(r, "new")
    /\ kind' = [kind EXCEPT ![r] = k]
    /\ UNCHANGED <<flag, focus, acts, history, cancelled, result, histVars>>

\* _build_state up to its first await: ensure_disarmed().
Begin(r) ==
    /\ Resumes(r, "new")
    /\ flag' = FALSE
    /\ Goto(r, "window")
    /\ press' = [s \in Runs |-> IF flag /\ press[s] = "yes" THEN "erased" ELSE press[s]]
    /\ UNCHANGED <<focus, kind, acts, history, cancelled, result,
                   stops, after, observed, hits>>

\* _build_state: the allowlist gate, then screenshot, monitor and windows.
CheckWindow(r) ==
    /\ Resumes(r, "window")
    /\ \/ is_allowed(focus) /\ Goto(r, "screen")
       \/ ~is_allowed(focus) /\ Leave(r)
    /\ UNCHANGED <<flag, focus, kind, acts, history, cancelled, result, histVars>>

\* _build_state has returned: the first look at the kill switch.
CheckStart(r) ==
    /\ Resumes(r, "screen")
    /\ \/ ~flag /\ Goto(r, "decide")
       \/ flag /\ Leave(r)
    /\ UNCHANGED <<flag, focus, kind, acts, history, cancelled, result, histVars>>

\* The lists a brain may return.
Lists == UNION {[1 .. n -> Actions] : n \in 0 .. MaxActions}

\* brain.decide has returned a list of actions.  A plan emits them and ends; a
\* run looks at the kill switch again and enters its loop.
Decide(r) ==
    /\ Resumes(r, "decide")
    /\ \/ /\ kind[r] = "run" /\ ~flag
          /\ Goto(r, "loop")
          /\ \E list \in Lists : acts' = [acts EXCEPT ![r] = list]
       \/ /\ kind[r] = "plan" \/ flag
          /\ Leave(r)
          /\ UNCHANGED acts
    /\ UNCHANGED <<flag, focus, kind, history, cancelled, result, histVars>>

\* Mutant of NextAction: the kill switch is polled once before the loop only.
NextAction_NoPoll(r) ==
    /\ Resumes(r, "loop")
    /\ \/ acts[r] = <<>> /\ Leave(r)
       \/ acts[r] # <<>> /\ Goto(r, "gate")
    /\ UNCHANGED <<flag, focus, kind, acts, history, cancelled, result, histVars>>

\* Head of the loop: stop, finish, or emit the next action and go on.
NextAction(r) ==
    /\ Resumes(r, "loop")
    /\ \/ (acts[r] = <<>> \/ flag) /\ Leave(r)
       \/ acts[r] # <<>> /\ ~flag /\ Goto(r, "gate")
    /\ UNCHANGED <<flag, focus, kind, acts, history, cancelled, result, histVars>>

\* _execute_action up to the tool call: the rate limiter or the command
\* sanitizer may block, and a screenshot action does nothing; keyboard input is
\* not sent to the control terminal; some actions wait for the user.
Gate(r) ==
    /\ Resumes(r, "gate")
    /\ LET a == Head(acts[r]) IN
       \/ Goto(r, "after")                                       \* blocked, or no tool
       \/ a \in Confirmed /\ Goto(r, "confirm")
       \/ a \in Keyboard /\ focus # "control" /\ Goto(r, "perform")
       \/ a \notin Keyboard \cup Confirmed /\ Goto(r, "perform")
    /\ UNCHANGED <<flag, focus, kind, acts, history, cancelled, result, histVars>>

\* The user answers the confirmation prompt.
Answer(r) ==
    /\ Resumes(r, "confirm")
    /\ Goto(r, "perform") \/ Goto(r, "after")
    /\ UNCHANGED <<flag, focus, kind, acts, history, cancelled, result, histVars>>

\* The tool acts on whatever window is active now.
Perform(r) ==
    /\ Resumes(r, "perform")
    /\ Goto(r, "after")
    /\ hits' = hits \cup {focus}
    /\ after' = [after EXCEPT ![r] = IF press[r] = "no" THEN 0 ELSE @ + 1]
    /\ UNCHANGED <<flag, focus, kind, acts, history, cancelled, result,
                   stops, press, observed>>

\* A tool, the brain or an emit raises anything but CancelledError.
Raise(r) ==
    /\ Active(r) /\ at[r] # "new" /\ ~cancelled[r]
    /\ Return(r, "raised")
    /\ UNCHANGED <<flag, focus, kind, acts, history, cancelled, histVars>>

\* Mutant of observe: the new entry is not counted.
observe_CountsBefore(h, a) ==
    [history |-> IF Len(h) < Window THEN Append(h, a) ELSE Append(Tail(h), a),
     stuck   |-> Cardinality({i \in 1 .. Len(h) : h[i] = a}) >= Threshold]

\* LoopDetector.observe: the deque after a, and whether the run is stuck.
observe(h, a) ==
    LET h2 == IF Len(h) < Window THEN Append(h, a) ELSE Append(Tail(h), a)
    IN  [history |-> h2,
         stuck   |-> Cardinality({i \in 1 .. Len(h2) : h2[i] = a}) >= Threshold]

\* The result is recorded and shown to the loop detector; end of the iteration.
AfterAction(r) ==
    /\ Resumes(r, "after")
    /\ LET a == Head(acts[r])
           o == observe(history[r], a) IN
       /\ history' = [history EXCEPT ![r] = o.history]
       /\ observed' = [observed EXCEPT ![r] = Append(@, a)]
       /\ acts' = [acts EXCEPT ![r] = Tail(@)]
       /\ Goto(r, IF o.stuck THEN "stuck" ELSE "loop")
    /\ UNCHANGED <<flag, focus, kind, cancelled, result,
                   stops, press, after, hits>>

\* The last event is out: StuckError is raised, or the coroutine returns.
Ends(r) ==
    /\ \/ Resumes(r, "stuck") /\ Return(r, "stuck")
       \/ Resumes(r, "leaving") /\ Return(r, "returned")
    /\ UNCHANGED <<flag, focus, kind, acts, history, cancelled, histVars>>

----------------------------------------------------------------------------

\* The user, or an action, changes the active window.
Focus(w) ==
    /\ focus' = w
    /\ w # focus
    /\ UNCHANGED <<flag, runVars, cancelled, histVars>>

Init ==
    /\ flag \in BOOLEAN       \* a STOP file may be left from an earlier session
    /\ focus \in Windows
    /\ at = [r \in Runs |-> "idle"]
    /\ kind = [r \in Runs |-> "run"]
    /\ acts = [r \in Runs |-> <<>>]
    /\ history = [r \in Runs |-> <<>>]
    /\ cancelled = [r \in Runs |-> FALSE]
    /\ result = [r \in Runs |-> "none"]
    /\ stops = 0
    /\ press = [r \in Runs |-> "no"]
    /\ after = [r \in Runs |-> 0]
    /\ observed = [r \in Runs |-> <<>>]
    /\ hits = {}

RunStep(r) ==
    \/ \E k \in {"run", "plan"} : Submit(r, k)
    \/ Begin(r)
    \/ CheckWindow(r)
    \/ CheckStart(r)
    \/ Decide(r)
    \/ NextAction(r)
    \/ Gate(r)
    \/ Answer(r)
    \/ Perform(r)
    \/ AfterAction(r)
    \/ Ends(r)
    \/ Raise(r)
    \/ Cancelled(r)

Next ==
    \/ \E r \in Runs : RunStep(r)
    \/ Arm
    \/ Poll
    \/ \E w \in Windows : Focus(w)

Spec == Init /\ [][Next]_vars

\* The poller's 100ms loop runs for ever and a cancelled task is scheduled.
\* Nothing is assumed of the brain, the tools or the user.
Fairness == WF_vars(Poll) /\ \A r \in Runs : WF_vars(Cancelled(r))

FairSpec == Spec /\ Fairness

----------------------------------------------------------------------------
(* Properties *)

\* The values of the variables; the detector's deque is bounded.
TypeOK ==
    /\ flag \in BOOLEAN
    /\ focus \in Windows
    /\ at \in [Runs -> Points]
    /\ kind \in [Runs -> {"run", "plan"}]
    /\ acts \in [Runs -> Seq(Actions)]
    /\ history \in [Runs -> Seq(Actions)]
    /\ \A r \in Runs :
        /\ Len(history[r]) <= Window
        /\ at[r] \in {"gate", "confirm", "perform", "after"} => acts[r] # <<>>
    /\ cancelled \in [Runs -> BOOLEAN]
    /\ result \in [Runs -> {"none", "returned", "raised", "stuck", "cancelled"}]
    /\ stops \in Nat
    /\ press \in [Runs -> {"no", "yes", "erased"}]
    /\ after \in [Runs -> Nat]
    /\ observed \in [Runs -> Seq(Actions)]
    /\ hits \subseteq Windows

\* After STOP is created a run at work performs at most the one action whose
\* kill-switch check it has passed, unless the start of another run removes
\* the file first.
StopHonoured == \A r \in Runs : press[r] = "yes" => after[r] <= 1

\* A STOP created during a run's work is not lost before the run is over, short
\* of another run's start: the file is there or the run's cancellation is
\* scheduled, and a run that performed an action since gets to no other.
StopPending ==
    \A r \in Runs : press[r] = "yes" =>
        /\ at[r] \notin {"idle", "new"}
        /\ flag \/ cancelled[r] \/ at[r] = "over"
        /\ at[r] \in {"gate", "confirm", "perform"} => after[r] = 0

\* A STOP created during a run's work ends that run, even if its brain or a
\* tool never returns, unless the start of another run removes the file.
StopEnds ==
    \A r \in Runs : press[r] = "yes" ~> at[r] = "over" \/ press[r] = "erased"

\* How often the i-th action of s occurs among the Window actions up to it.
RepeatsInWindow(s, i) ==
    Cardinality({j \in (i - Window + 1) .. i : j >= 1 /\ s[j] = s[i]})

\* The loop detector against its definition: nothing is done after an action
\* that was the Threshold-th of its kind among the last Window actions, and a
\* run is only called stuck when its last action was.
StuckIffRepeated ==
    \A r \in Runs :
        LET s == observed[r]
            Repeated(i) == RepeatsInWindow(s, i) >= Threshold IN
        /\ \A i \in DOMAIN s :
            Repeated(i) => i = Len(s) /\ at[r] \in {"stuck", "over"}
        /\ at[r] = "stuck" \/ result[r] = "stuck" => s # <<>> /\ Repeated(Len(s))

\* What README.md says of the kill switch: a running task stops within one
\* action cycle, whatever other runs do.
StopsWithinOneAction == \A r \in Runs : press[r] # "no" => after[r] <= 1

\* What README.md says of the allowlist: the agent does not act on windows
\* that are not in it.
ActsOnListedWindows == "unlisted" \notin hits
============================================================================
