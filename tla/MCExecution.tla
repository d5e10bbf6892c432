---------------------------- MODULE MCExecution ----------------------------
(* The run "execution": what ends a run and what it has started.  The       *)
(* components it explores share no state; the variable part, chosen         *)
(* initially, says which of them moves, so that the state space is the sum  *)
(* of theirs and not the product.                                           *)
(*   stop       Orchestrator: the STOP file, the poller and two runs        *)
(*   executor   RunExecutor: one run, cancelled, killed and restarted       *)
(*   command    Commands: a command that a run executes                     *)
(*   desktop    Integrations: the screen lock that cancels runs             *)
EXTENDS Orchestrator, Commands, Integrations, TLC

VARIABLES
    part,
    pc, op, locked, late, intr, final, seq, cur, row, events, outcome, source,
    pub, pubev, daemon, client, gathered, cancels, crashes

Executor == INSTANCE RunExecutor WITH Runs <- {"run"}, MaxEvents <- 1,
                MaxCancels <- 2, MaxCrashes <- 1, StoreFaults <- FALSE

MCEntryPoints == <<"mako", "idle", "voice">>

executorVars == <<pc, op, locked, late, intr, final, seq, cur, row, events, outcome,
                  source, pub, pubev, daemon, client, gathered, cancels, crashes>>
allVars == <<part, vars, executorVars, cVars, iVars>>

ExecutionInit ==
    /\ part \in {"stop", "executor", "command", "desktop"}
    /\ Init /\ (part # "stop" => flag = FALSE)
    /\ Executor!Init /\ iInit
    /\ cInit /\ (part # "command" => how = "tool" /\ ~stubborn)

ExecutionNext ==
    \/ /\ part = "stop" /\ Next
       /\ UNCHANGED <<part, executorVars, cVars, iVars>>
    \/ /\ part = "executor" /\ Executor!Next
       /\ UNCHANGED <<part, vars, cVars, iVars>>
    \/ /\ part = "command" /\ cNext
       /\ UNCHANGED <<part, vars, executorVars, iVars>>
    \/ /\ part = "desktop" /\ iNextStep
       /\ UNCHANGED <<part, vars, executorVars, cVars>>

\* A part that does not move stays in its initial state, where the fair actions
\* of all but the command are disabled.
ExecutionSpec ==
    /\ ExecutionInit /\ [][ExecutionNext]_allVars
    /\ Fairness /\ Executor!Fairness /\ iFair
    /\ WF_cVars(part = "command" /\ cStep)
    /\ WF_cVars(part = "command" /\ Obeys /\ Exit)

\* A run of RunExecutor ends.
EveryRunEnds == Executor!EveryRunEnds
\* A run that is cancelled is recorded as such, if nothing else ends it first.
CancelledRunIsRecorded == Executor!CancelledRunIsRecorded
============================================================================
