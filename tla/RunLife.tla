------------------------------- MODULE RunLife -------------------------------
(***************************************************************************)
(* The life of a run as the rest of the system sees it: the row of the table    *)
(* runs, and the messages on Topic.runs that tell of its start, its verdict and  *)
(* its end.  RunExecutor implements it (LifeCycle there); Learning and Frontends *)
(* have it as their environment.  It promises no more than RunExecutor keeps: a   *)
(* row may stay running, a verdict or run_finished may never come, and a write    *)
(* of "completed" may commit after everything else.                               *)
(***************************************************************************)
EXTENDS RunIds

VARIABLES
    life,       \* none; working: the task is in its try statement or a handler of it;
                \* closing: in its finally block; over
    status,     \* runs.status, or absent
    verdict,    \* the {kind}_completed, _errored or _aborted that was published
    told        \* the status in the published run_finished

lifeVars == <<life, status, verdict, told>>

Terminal == {"completed", "errored", "aborted"}

\* _submit: insert_run commits; no task exists, and perhaps none ever will.
InsertRun(r) ==
    /\ life[r] = "none" /\ status[r] = "absent"
    /\ status' = [status EXCEPT ![r] = "running"]
    /\ UNCHANGED <<life, verdict, told>>

\* _submit: the task is created and run_started published.
CreateTask(r) ==
    /\ life[r] = "none" /\ status[r] = "running"
    /\ life' = [life EXCEPT ![r] = "working"]
    /\ UNCHANGED <<status, verdict, told>>

\* update_run_status commits, in its time or late in a thread that was abandoned.
\* Once a verdict is out, only an abandoned "completed" is left.
WriteStatus(r) ==
    /\ life[r] # "none"
    /\ \E s \in Terminal :
        /\ verdict[r] = "none" \/ s = "completed"
        /\ status' = [status EXCEPT ![r] = s]
    /\ UNCHANGED <<life, verdict, told>>

\* The status is written, the verdict published: the finally block is next.
PublishVerdict(r) ==
    /\ life[r] = "working"
    /\ life' = [life EXCEPT ![r] = "closing"]
    /\ \E v \in Terminal :
        /\ status[r] \in {v, "completed"}
        /\ verdict' = [verdict EXCEPT ![r] = v]
    /\ UNCHANGED <<status, told>>

\* The handler's own store call is interrupted or fails: finally, but no verdict.
CutShort(r) ==
    /\ life[r] = "working"
    /\ life' = [life EXCEPT ![r] = "closing"]
    /\ UNCHANGED <<status, verdict, told>>

\* The last statement of the finally block: run_finished carries final_status.
PublishFinished(r) ==
    /\ life[r] = "closing"
    /\ life' = [life EXCEPT ![r] = "over"]
    /\ \E s \in Terminal :
        /\ s = verdict[r] \/ (verdict[r] = "none" /\ s # "completed")
        /\ told' = [told EXCEPT ![r] = s]
    /\ UNCHANGED <<status, verdict>>

\* The task ends without a word: cancelled before its first step, or interrupted
\* in its finally block.
LeaveTask(r) ==
    /\ life[r] \in {"working", "closing"}
    /\ life' = [life EXCEPT ![r] = "over"]
    /\ UNCHANGED <<status, verdict, told>>

\* The daemon's process is gone, and with it every task.
KillProcess ==
    /\ life' = [r \in Runs |-> IF life[r] = "none" THEN "none" ELSE "over"]
    /\ UNCHANGED <<status, verdict, told>>

LifeInit ==
    /\ life = [r \in Runs |-> "none"] /\ status = [r \in Runs |-> "absent"]
    /\ verdict = [r \in Runs |-> "none"] /\ told = verdict

\* The steps that leave the bus alone.
QuietStep(r) == InsertRun(r) \/ WriteStatus(r) \/ CutShort(r) \/ LeaveTask(r)

LifeNext ==
    \/ \E r \in Runs :
        QuietStep(r) \/ CreateTask(r) \/ PublishVerdict(r) \/ PublishFinished(r)
    \/ KillProcess

LifeSpec == LifeInit /\ [][LifeNext]_lifeVars

\* What the users of this module rest on: the row agrees with the verdict, but for a
\* late "completed", and run_finished repeats the verdict, if there was one.
LifeInv ==
    \A r \in Runs :
        /\ life[r] = "none" => status[r] \in {"absent", "running"}
        /\ status[r] = "absent" => life[r] = "none"
        /\ verdict[r] # "none" => life[r] \in {"closing", "over"} /\ status[r] \in {verdict[r], "completed"}
        /\ told[r] # "none" => life[r] = "over" /\ verdict[r] \in {"none", told[r]}
=============================================================================
