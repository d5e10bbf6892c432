---------------------------- MODULE MCBackground ----------------------------
(* The run "background": the tasks beside the runs and the programs around  *)
(* the daemon.  The components share no state; the variable part, chosen    *)
(* initially, says which of them moves, so that the state space is the sum  *)
(* of theirs and not the product.                                           *)
(*   learning   Learning: two runs that queue at the semaphore; decay,      *)
(*              recalls and what else can happen to a row are in "memory"   *)
(*   gate       Proposals: windows that the allowlist keeps out             *)
(*   watcher    Watcher: rules that window events trigger                   *)
(*   voice      Voice: the sidecar's microphone thread and event loop       *)
(*   front      Frontends: "runs tail" and the waybar module; the TUI is in *)
(*              the run "memory".  The run x ends completed or aborted, and  *)
(*              its row is written once; the row of y stays running          *)
EXTENDS Proposals, Voice, TLC

VARIABLES
    part,
    life, status, verdict, told, cached, phase, inbox, handler, rec, episodes, vecs, lessons, idleE, recalled,
    watching, rules, heardEvents, due, ruleTasks, done, reloads,
    front, fpc, wire, rows, listed, crashed, unsure, tailed, line, daemonUp, outages

Consumer == INSTANCE Learning WITH Runs <- {"x", "y"}, MaxConcurrent <- 1, K <- 1

RuleWatcher == INSTANCE Watcher WITH Classes <- {"a", "b"}, MaxHypr <- 2, MaxReloads <- 1,
                   RuleSet <- {[class |-> "*", length |-> 2], [class |-> "a", length |-> 3]}

Front == INSTANCE Frontends WITH Runs <- {"x", "y"}, ListLimit <- 2, MaxOutages <- 1

lifeVars == <<life, status, verdict, told>>
learningVars == <<cached, phase, inbox, handler, rec, episodes, vecs, lessons, idleE,
                  recalled>>
watcherVars  == <<watching, rules, heardEvents, due, ruleTasks, done, reloads>>
frontVars    == <<front, fpc, wire, rows, listed, crashed, unsure, tailed, line,
                  daemonUp, outages>>
allVars == <<part, lifeVars, learningVars, pVars, watcherVars, vVars,
             frontVars>>

\* The rows that the part "learning" leaves to the run "memory".
RowsStayRunning == \A r \in {"x", "y"} : status'[r] \in {"absent", "running"}

\* The runs of the part "front".
RowsEndOnce ==
    /\ \A r \in {"x", "y"} : "errored" \notin {status'[r], verdict'[r], told'[r]}
    /\ status["x"] \in {"completed", "aborted"} => status'["x"] = status["x"]
    /\ status'["y"] \in {"absent", "running"}

Init ==
    /\ part \in {"learning", "gate", "watcher", "voice", "front"}
    /\ Consumer!lInit /\ pInit /\ vInit
    /\ RuleWatcher!wInit /\ (part # "watcher" => rules = {})
    /\ Front!fInit /\ tailed = "x"
    /\ IF part = "front" THEN front # "tui" ELSE front = "tail"

Next ==
    \/ /\ part = "learning" /\ Consumer!lNext /\ UNCHANGED <<cached, idleE, recalled>>
       /\ RowsStayRunning
       /\ UNCHANGED <<part, pVars, watcherVars, vVars, frontVars>>
    \/ /\ part = "gate" /\ pNext
       /\ UNCHANGED <<part, lifeVars, learningVars, watcherVars, vVars, frontVars>>
    \/ /\ part = "watcher" /\ RuleWatcher!wNext
       /\ UNCHANGED <<part, lifeVars, learningVars, pVars, vVars, frontVars>>
    \/ /\ part = "voice" /\ vNext
       /\ UNCHANGED <<part, lifeVars, learningVars, pVars, watcherVars, frontVars>>
    \/ /\ part = "front" /\ Front!fNext /\ RowsEndOnce
       /\ UNCHANGED <<part, learningVars, pVars, watcherVars, vVars>>

\* A part that does not move stays in its initial state, where the fair actions
\* of learning, gate and watcher are disabled.
Spec ==
    /\ Init /\ [][Next]_allVars
    /\ Consumer!lFair /\ pFair /\ RuleWatcher!wFair
    /\ WF_vVars(part = "voice" /\ Capture)
    /\ WF_vVars(part = "voice" /\ TimePasses)
    /\ WF_vVars(part = "voice" /\ EventLoop)
    /\ \A r \in {"x", "y"} : WF_<<lifeVars, frontVars>>(part = "front" /\ Front!TaskGoesOn(r) /\ RowsEndOnce)
    /\ WF_frontVars(part = "front" /\ Front!TailReads)
    /\ WF_frontVars(part = "front" /\ Front!Bar)

\* A run that was announced as finished is learned from.  (The runs of the part
\* "front" have the same variables and no consumer.)
FinishedRunsAreLearned == part = "learning" => Consumer!FinishedRunsAreLearned
\* The rules that an event matched get all their actions.
MatchedRulesRun == RuleWatcher!MatchedRulesRun
\* "runs tail" ends with run_finished.
TailEnds == Front!TailEnds
\* The waybar module shows that the daemon is away.
OutageShows == Front!OutageShows
=============================================================================
