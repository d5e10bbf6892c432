----------------------------- MODULE Frontends -----------------------------
(***************************************************************************)
(* Three programs that follow the runs topic: the run list of the TUI, agent runs *)
(* tail and agent-waybar.  They do not interact, so a behaviour has one of them.   *)
(* The runs live as RunLife says: a row may stay running, a verdict or             *)
(* run_finished may never come.                                                    *)
(***************************************************************************)
EXTENDS Naturals, Sequences, FiniteSets, RunLife

CONSTANTS
    ListLimit,    \* the limit that refresh_runs asks list_runs for: 20
    MaxOutages    \* bound on the outages of the daemon that tail and waybar see

VARIABLES
    front,      \* tui, tail or bar
    fpc,        \* tui: connect, list, answer, done; tail: connect, follow, done;
                \* bar: connect, follow, sleep
    wire,       \* events on their way to the program
    rows,       \* RunList: absent, running, ended
    listed,     \* the rows of the response to list_runs
    crashed,    \* add_row raised DuplicateKey, which ends the TUI
    unsure,     \* runs the first list may have wrong: they published an event while it
                \* was on its way, were stored but not announced when it was made, were
                \* beyond its limit, or had begun when it failed
    tailed,     \* the run that tail follows
    line,       \* class of waybar's line: none, idle, running, done, error, disconnected
    daemonUp, outages

tuiVars == <<rows, listed, crashed, unsure>>
barVars == <<line, daemonUp, outages>>
frontVars == <<front, fpc, wire, tuiVars, tailed, barVars>>
fVars   == <<lifeVars, frontVars>>

Event(r, kind) == [run |-> r, kind |-> kind]
Eof == [kind |-> "eof"]
Shown(s) == IF s \in Terminal THEN "ended" ELSE s

----------------------------------------------------------------------------
(* The daemon *)

\* The server has taken the subscription.
Subscribed ==
    /\ fpc \in {"list", "answer", "follow"} \/ (front = "tui" /\ fpc = "done")
    /\ wire = <<>> \/ wire[Len(wire)] # Eof

\* An event is published; the list that is on its way may be older or younger.
Send(r, kind) ==
    /\ wire' = IF Subscribed THEN Append(wire, Event(r, kind)) ELSE wire
    /\ unsure' = IF fpc \in {"list", "answer"} THEN unsure \cup {r} ELSE unsure

\* A step of a run.  Its other events are left out: the programs treat each as they
\* treat its verdict, or not at all.
Advance(r) ==
    /\ daemonUp
    /\ \/ QuietStep(r) /\ UNCHANGED <<wire, unsure>>
       \/ CreateTask(r) /\ Send(r, "started")
       \/ PublishVerdict(r) /\ Send(r, "ended")
       \/ PublishFinished(r) /\ Send(r, "finished")
    /\ UNCHANGED <<front, fpc, rows, listed, crashed, tailed, barVars>>

\* The daemon stops, and with it its runs and the connection.  The TUI does not
\* connect again: what it shows of a later daemon is nothing.
Outage ==
    /\ front # "tui" /\ daemonUp /\ outages < MaxOutages
    /\ daemonUp' = FALSE /\ outages' = outages + 1
    /\ KillProcess
    /\ wire' = IF Subscribed THEN Append(wire, Eof) ELSE wire
    /\ UNCHANGED <<front, fpc, tuiVars, tailed, line>>

Restart ==
    /\ ~daemonUp /\ daemonUp' = TRUE
    /\ UNCHANGED <<lifeVars, front, fpc, wire, tuiVars, tailed, line, outages>>

----------------------------------------------------------------------------
(* RunList *)

\* on_mount subscribes, then refresh_runs asks for the list: the server takes the
\* frames of a connection in turn.
Mount ==
    /\ front = "tui" /\ fpc = "connect"
    /\ fpc' = "list"
    /\ UNCHANGED <<lifeVars, front, wire, tuiVars, tailed, barVars>>

StoredRuns == {r \in Runs : status[r] # "absent"}

\* list_runs: the latest ListLimit rows, whichever they are.
ListRuns ==
    /\ fpc = "list" /\ fpc' = "answer"
    /\ \E S \in SUBSET StoredRuns :
        /\ S = StoredRuns \/ Cardinality(S) = ListLimit
        /\ listed' = [r \in Runs |-> IF r \in S THEN Shown(status[r]) ELSE "absent"]
        /\ unsure' = unsure \cup (StoredRuns \ S) \cup {r \in S : life[r] = "none"}
    /\ UNCHANGED <<lifeVars, front, wire, rows, crashed, tailed, barVars>>

\* refresh_runs raises: on_mount suppresses it, and the table stays as it is.
ListFails ==
    /\ fpc \in {"list", "answer"} /\ ~crashed
    /\ fpc' = "done"
    /\ unsure' = unsure \cup {r \in Runs : life[r] # "none"}
    /\ UNCHANGED <<lifeVars, front, wire, rows, listed, crashed, tailed, barVars>>

\* refresh_runs clears the table and adds the rows of the response.
Refresh ==
    /\ fpc = "answer" /\ ~crashed
    /\ fpc' = "done" /\ rows' = listed
    /\ UNCHANGED <<lifeVars, front, wire, listed, crashed, unsure, tailed, barVars>>

\* Mutant of OnRunMsg: the verdict of a plan is not among the kinds it knows.
OnRunMsg_NoPlans ==
    /\ front = "tui" /\ wire # <<>> /\ ~crashed
    /\ wire' = Tail(wire)
    /\ LET r == Head(wire).run
           k == Head(wire).kind IN
        /\ crashed' = (k = "started" /\ rows[r] # "absent")
        /\ rows' = [rows EXCEPT ![r] = IF k = "started" THEN "running" ELSE @]
    /\ UNCHANGED <<lifeVars, front, fpc, listed, unsure, tailed, barVars>>

\* on_run_msg: add_row of a run that is there raises, update_cell of one that is not
\* is suppressed, other events do not concern the list.
OnRunMsg ==
    /\ front = "tui" /\ wire # <<>> /\ ~crashed
    /\ wire' = Tail(wire)
    /\ LET r == Head(wire).run
           k == Head(wire).kind IN
        /\ crashed' = (k = "started" /\ rows[r] # "absent")
        /\ rows' = [rows EXCEPT ![r] =
                      IF k = "started" THEN "running"
                      ELSE IF k = "ended" /\ @ # "absent" THEN "ended" ELSE @]
    /\ UNCHANGED <<lifeVars, front, fpc, listed, unsure, tailed, barVars>>

----------------------------------------------------------------------------
(* agent runs tail *)

\* connect() raises without a daemon, and the command ends.
TailStarts ==
    /\ front = "tail" /\ fpc = "connect"
    /\ fpc' = IF daemonUp THEN "follow" ELSE "done"
    /\ UNCHANGED <<lifeVars, front, wire, tuiVars, tailed, barVars>>

\* Mutant of TailReads: it waits for the verdict.
TailReads_Verdict ==
    /\ front = "tail" /\ fpc = "follow" /\ wire # <<>>
    /\ wire' = Tail(wire)
    /\ fpc' = IF Head(wire) \in {Event(tailed, "ended"), Eof} THEN "done" ELSE fpc
    /\ UNCHANGED <<lifeVars, front, tuiVars, tailed, barVars>>

\* Events of other runs are skipped; run_finished ends it, or the end of the stream.
TailReads ==
    /\ front = "tail" /\ fpc = "follow" /\ wire # <<>>
    /\ wire' = Tail(wire)
    /\ fpc' = IF Head(wire) \in {Event(tailed, "finished"), Eof} THEN "done" ELSE fpc
    /\ UNCHANGED <<lifeVars, front, tuiVars, tailed, barVars>>

----------------------------------------------------------------------------
(* agent-waybar *)

\* Mutant of BarConnects: a failed attempt prints nothing.
BarConnects_Silent ==
    /\ front = "bar" /\ fpc = "connect"
    /\ fpc' = IF daemonUp THEN "follow" ELSE "sleep"
    /\ line' = IF daemonUp THEN "idle" ELSE line
    /\ UNCHANGED <<lifeVars, front, wire, tuiVars, tailed, daemonUp, outages>>

BarConnects ==
    /\ front = "bar" /\ fpc = "connect"
    /\ fpc' = IF daemonUp THEN "follow" ELSE "sleep"
    /\ line' = IF daemonUp THEN "idle" ELSE "disconnected"
    /\ UNCHANGED <<lifeVars, front, wire, tuiVars, tailed, daemonUp, outages>>

\* _render knows run_started and run_finished; plan_started and all the others are
\* drawn as idle.
Render(e) ==
    CASE e.kind = "started"  -> {"running", "idle"}
      [] e.kind = "finished" -> {IF told[e.run] = "completed" THEN "done" ELSE "error"}
      [] OTHER               -> {"idle"}

BarReads ==
    /\ front = "bar" /\ fpc = "follow" /\ wire # <<>> /\ Head(wire) # Eof
    /\ wire' = Tail(wire) /\ line' \in Render(Head(wire))
    /\ UNCHANGED <<lifeVars, front, fpc, tuiVars, tailed, daemonUp, outages>>

\* events() ends with the connection: no line is printed.
BarLosesDaemon ==
    /\ front = "bar" /\ fpc = "follow" /\ wire # <<>> /\ Head(wire) = Eof
    /\ fpc' = "sleep" /\ wire' = <<>>
    /\ UNCHANGED <<lifeVars, front, tuiVars, tailed, barVars>>

BarWakes ==
    /\ fpc = "sleep" /\ fpc' = "connect"
    /\ UNCHANGED <<lifeVars, front, wire, tuiVars, tailed, barVars>>

----------------------------------------------------------------------------

fInit ==
    /\ front \in {"tui", "tail", "bar"} /\ fpc = "connect"
    /\ LifeInit /\ wire = <<>>
    /\ rows = [r \in Runs |-> "absent"] /\ listed = rows
    /\ crashed = FALSE /\ unsure = {}
    /\ tailed \in Runs
    /\ line = "none" /\ daemonUp = TRUE /\ outages = 0

Bar == BarConnects \/ BarReads \/ BarLosesDaemon \/ BarWakes

fNext ==
    \/ \E r \in Runs : Advance(r)
    \/ Mount \/ ListRuns \/ ListFails \/ Refresh \/ OnRunMsg
    \/ TailStarts \/ TailReads
    \/ Outage \/ Restart \/ Bar

\* The task of r reaches its finally block, or its end.
TaskGoesOn(r) == Advance(r) /\ life'[r] # life[r] /\ life[r] # "none"

\* A task ends, as EveryRunEnds of the run executor says, with or without
\* run_finished; tail reads what has come, and waybar's back-off ends.
fFair ==
    /\ \A r \in Runs : WF_fVars(TaskGoesOn(r))
    /\ WF_fVars(TailReads) /\ WF_fVars(Bar)

fSpec == fInit /\ [][fNext]_fVars /\ fFair

----------------------------------------------------------------------------
(* Properties *)

\* When the TUI has read what was published, and whatever writes of statuses are
\* late or missing, its list shows the runs that have begun, with a verdict once
\* one is published, as running while the row says so, and shows an end only of a
\* run whose row has one.  It crashes, or shows a run wrongly, only for a run that
\* the first list may have had wrong.
RowsAreRight ==
    /\ crashed => unsure # {}
    /\ \A r \in Runs : front = "tui" /\ rows[r] = "ended" => status[r] \in Terminal
    /\ front = "tui" /\ fpc = "done" /\ wire = <<>> /\ ~crashed =>
        \A r \in Runs \ unsure :
            /\ life[r] = "none" => rows[r] = "absent"
            /\ life[r] # "none" => rows[r] # "absent"
            /\ life[r] # "none" /\ status[r] = "running" => rows[r] = "running"
            /\ verdict[r] # "none" => rows[r] = "ended"

\* tail ends if it follows a run whose run_finished comes, whatever the other runs
\* do, and if the daemon stops; when the task leaves without run_finished, it waits
\* for ever, as it does for a run that was over when it came.
TailEnds ==
    (front = "tail" /\ fpc = "follow" /\ life[tailed] \in {"working", "closing"})
        ~> \/ fpc = "done"
           \/ Subscribed /\ life[tailed] = "over" /\ told[tailed] = "none"

\* An outage of the daemon shows on the bar, though only when it tries to connect
\* again, or it is over.
OutageShows == (front = "bar" /\ ~daemonUp) ~> (line = "disconnected" \/ daemonUp)

=============================================================================
