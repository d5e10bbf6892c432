---------------------------- MODULE Integrations ----------------------------
(***************************************************************************)
(* IntegrationRegistry: integrations are loaded when the daemon opens and torn   *)
(* down in reverse order when it closes.  IdleIntegration listens for the lock     *)
(* signal of the desktop and cancels the active runs, which are abstracted to      *)
(* their phases.                                                                   *)
(***************************************************************************)
EXTENDS Naturals, Sequences

CONSTANTS
    EntryPoints,   \* names of the group, in the order they are discovered
    Jobs,          \* runs that clients may submit
    MaxSignals     \* bound on the lock signals of the desktop

VARIABLES
    iPhase,      \* loading, serving, closing, closed
    iNext,       \* entry points looked at; while closing: integrations left
    iLoaded,     \* _integrations
    iStatus,     \* _status: none, missing, degraded, ready
    tornDown,    \* how often teardown() was called, by name
    listener,    \* _task of IdleIntegration: off, on, stopped
    signals,     \* ActiveChanged messages not received yet
    isLocked,    \* the screen is locked
    sent,        \* signals so far
    jobs         \* runs: none, inserting, active, cancelling, ended

iVars == <<iPhase, iNext, iLoaded, iStatus, tornDown,
           listener, signals, isLocked, sent, jobs>>
deskVars == <<signals, isLocked, sent>>

Names == {EntryPoints[i] : i \in DOMAIN EntryPoints}

\* The names of a group are distinct.
ASSUME EntryPointsAssumption ==
    /\ EntryPoints \in Seq(Names)
    /\ \A i, j \in DOMAIN EntryPoints : EntryPoints[i] = EntryPoints[j] => i = j

----------------------------------------------------------------------------
(* Loading and closing *)

\* The class cannot be loaded, or asks for another major version.
Missing(n) ==
    /\ iStatus' = [iStatus EXCEPT ![n] = "missing"]
    /\ UNCHANGED <<iLoaded, listener>>

\* setup() raises: no binary, no jeepney.
Degraded(n) ==
    /\ iStatus' = [iStatus EXCEPT ![n] = "degraded"]
    /\ UNCHANGED <<iLoaded, listener>>

Ready(n) ==
    /\ iStatus' = [iStatus EXCEPT ![n] = "ready"]
    /\ iLoaded' = Append(iLoaded, n)
    /\ listener' = IF n = "idle" THEN "on" ELSE listener

LoadNext ==
    /\ iPhase = "loading" /\ iNext < Len(EntryPoints)
    /\ iNext' = iNext + 1
    /\ LET n == EntryPoints[iNext + 1] IN Missing(n) \/ Degraded(n) \/ Ready(n)
    /\ UNCHANGED <<iPhase, tornDown, deskVars, jobs>>

Serve ==
    /\ iPhase = "loading" /\ iNext = Len(EntryPoints)
    /\ iPhase' = "serving"
    /\ UNCHANGED <<iNext, iLoaded, iStatus, tornDown, listener, deskVars, jobs>>

\* AppState.close begins with the teardown; main has cancelled the active runs.
StartClose ==
    /\ iPhase = "serving"
    /\ iPhase' = "closing" /\ iNext' = Len(iLoaded)
    /\ jobs' = [j \in Jobs |-> IF jobs[j] = "active" THEN "cancelling" ELSE jobs[j]]
    /\ UNCHANGED <<iLoaded, iStatus, tornDown, listener, deskVars>>

\* Mutant of TeardownNext: the first failure ends the loop.
TeardownNext_StopsAtFailure ==
    /\ iPhase = "closing" /\ iNext > 0
    /\ LET n == iLoaded[iNext] IN
        /\ tornDown' = [tornDown EXCEPT ![n] = @ + 1]
        /\ listener' = IF n = "idle" THEN "off" ELSE listener
    /\ iNext' \in {iNext - 1, 0}
    /\ UNCHANGED <<iPhase, iLoaded, iStatus, deskVars, jobs>>

\* An integration that raises is logged and the next one is torn down.  idle cancels
\* its listener and awaits it.
TeardownNext ==
    /\ iPhase = "closing" /\ iNext > 0
    /\ LET n == iLoaded[iNext] IN
        /\ tornDown' = [tornDown EXCEPT ![n] = @ + 1]
        /\ listener' = IF n = "idle" THEN "off" ELSE listener
    /\ iNext' = iNext - 1
    /\ UNCHANGED <<iPhase, iLoaded, iStatus, deskVars, jobs>>

Closed ==
    /\ iPhase = "closing" /\ iNext = 0
    /\ iPhase' = "closed" /\ iLoaded' = <<>>
    /\ UNCHANGED <<iNext, iStatus, tornDown, listener, deskVars, jobs>>

----------------------------------------------------------------------------
(* The desktop, the listener and the runs *)

ScreenSaver ==
    /\ sent < MaxSignals
    /\ sent' = sent + 1 /\ isLocked' = ~isLocked
    /\ signals' = IF listener = "on" THEN Append(signals, ~isLocked) ELSE signals
    /\ UNCHANGED <<iPhase, iNext, iLoaded, iStatus, tornDown, listener, jobs>>

\* Mutant of OnActiveChanged: the loop stops after one run.
OnActiveChanged_One ==
    /\ listener = "on" /\ signals # <<>>
    /\ signals' = Tail(signals)
    /\ IF Head(signals) /\ \E j \in Jobs : jobs[j] = "active"
       THEN \E j \in Jobs : jobs[j] = "active" /\ jobs' = [jobs EXCEPT ![j] = "cancelling"]
       ELSE UNCHANGED jobs
    /\ UNCHANGED <<iPhase, iNext, iLoaded, iStatus, tornDown, listener, isLocked, sent>>

\* _on_active_changed: executor.cancel for every active run; nothing on unlock.
OnActiveChanged ==
    /\ listener = "on" /\ signals # <<>>
    /\ signals' = Tail(signals)
    /\ jobs' = IF Head(signals)
               THEN [j \in Jobs |-> IF jobs[j] = "active" THEN "cancelling" ELSE jobs[j]]
               ELSE jobs
    /\ UNCHANGED <<iPhase, iNext, iLoaded, iStatus, tornDown, listener, isLocked, sent>>

\* The connection to the bus fails: a warning, and no lock is noticed any more.
ListenerStops ==
    /\ listener = "on"
    /\ listener' = "stopped" /\ signals' = <<>>
    /\ UNCHANGED <<iPhase, iNext, iLoaded, iStatus, tornDown, isLocked, sent, jobs>>

\* run_task: insert_run is awaited, then the task is created.
Job(j, from, to) ==
    /\ jobs[j] = from /\ jobs' = [jobs EXCEPT ![j] = to]
    /\ UNCHANGED <<iPhase, iNext, iLoaded, iStatus, tornDown, listener, deskVars>>

SubmitJob(j)  == iPhase = "serving" /\ Job(j, "none", "inserting")
JobStarted(j) == Job(j, "inserting", "active")
JobEnds(j)    == Job(j, "active", "ended")
JobStopped(j) == Job(j, "cancelling", "ended")

----------------------------------------------------------------------------

iInit ==
    /\ iPhase = "loading" /\ iNext = 0
    /\ iLoaded = <<>> /\ iStatus = [n \in Names |-> "none"]
    /\ tornDown = [n \in Names |-> 0]
    /\ listener = "off" /\ signals = <<>> /\ isLocked = FALSE /\ sent = 0
    /\ jobs = [j \in Jobs |-> "none"]

iNextStep ==
    \/ LoadNext \/ Serve \/ StartClose \/ TeardownNext \/ Closed
    \/ ScreenSaver \/ OnActiveChanged \/ ListenerStops
    \/ \E j \in Jobs : SubmitJob(j) \/ JobStarted(j) \/ JobEnds(j) \/ JobStopped(j)

\* The event loop runs the listener and the cancelled runs.
iFair ==
    /\ WF_iVars(OnActiveChanged)
    /\ \A j \in Jobs : WF_iVars(JobStopped(j))

iSpec == iInit /\ [][iNextStep]_iVars /\ iFair

----------------------------------------------------------------------------
(* Properties *)

\* When the daemon has closed, every integration that was set up has been torn down
\* once and no other ever, although some of them raised.
TeardownReachesAll ==
    iPhase = "closed" =>
        \A n \in Names : tornDown[n] = IF iStatus[n] = "ready" THEN 1 ELSE 0

\* All runs that are active when the screen is locked end, unless the listener has
\* lost the bus or was torn down.
LockEndsRuns ==
    \A j \in Jobs :
        (jobs[j] = "active" /\ TRUE \in {signals[i] : i \in DOMAIN signals})
            ~> (jobs[j] = "ended" \/ listener # "on")
=============================================================================
