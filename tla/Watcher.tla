------------------------------ MODULE Watcher ------------------------------
(***************************************************************************)
(* run_watcher reads the event socket of Hyprland and starts a task for every  *)
(* rule that matches; execute_rule performs the rule's actions one after the     *)
(* other, each with a limit of 30 seconds.  Rules and events are reduced to the  *)
(* window class they are about, "*" in a rule stands for any.                    *)
(***************************************************************************)
EXTENDS Naturals

CONSTANTS
    RuleSet,      \* rules: [class, length], length: how many actions it has
    Classes,      \* window classes of events
    MaxHypr,      \* bound on the events
    MaxReloads    \* bound on the reloads of the rules

VARIABLES
    watching,    \* the watcher task: TRUE until the socket ends
    rules,       \* AppState.rules
    heardEvents, \* events read
    due,         \* what each event owed: <<event number, rule>> matched when it was read
    ruleTasks,   \* tasks: [ev, rule, at, busy], at: next action, busy: it has begun
    done,        \* actions that began: <<event number, rule, position>>
    reloads

wVars == <<watching, rules, heardEvents, due, ruleTasks, done, reloads>>

\* match_event, for the kind, class and title of the rule.
Matches(r, class) == r.class \in {"*", class}

\* A task for every rule of the list as it is now; tasks of earlier events may
\* still be running.
OnEvent(class) ==
    /\ watching /\ heardEvents < MaxHypr
    /\ heardEvents' = heardEvents + 1
    /\ LET hit == {r \in rules : Matches(r, class)} IN
        /\ due' = due \cup {<<heardEvents, r>> : r \in hit}
        /\ ruleTasks' = ruleTasks \cup
             {[ev |-> heardEvents, rule |-> r, at |-> 1, busy |-> FALSE] : r \in hit}
    /\ UNCHANGED <<watching, rules, done, reloads>>

\* The socket ends, Hyprland is gone.  Nobody starts the watcher again.
WatcherEnds ==
    /\ watching
    /\ watching' = FALSE
    /\ UNCHANGED <<rules, heardEvents, due, ruleTasks, done, reloads>>

\* reload_rules swaps the list; the tasks have their own rule.
Reload(S) ==
    /\ reloads < MaxReloads
    /\ reloads' = reloads + 1 /\ rules' = S
    /\ UNCHANGED <<watching, heardEvents, due, ruleTasks, done>>

----------------------------------------------------------------------------
(* execute_rule *)

Replace(t, u) == ruleTasks' = (ruleTasks \ {t}) \cup {u}

Begin(t) ==
    /\ t \in ruleTasks /\ ~t.busy /\ t.at <= t.rule.length
    /\ Replace(t, [t EXCEPT !.busy = TRUE])
    /\ done' = done \cup {<<t.ev, t.rule, t.at>>}
    /\ UNCHANGED <<watching, rules, heardEvents, due, reloads>>

GoOn(t) == Replace(t, [t EXCEPT !.busy = FALSE, !.at = @ + 1])

\* Mutant of Proceeds: the first failure ends the rule.
Proceeds_EndsRule(t) ==
    /\ t \in ruleTasks /\ t.busy
    /\ ruleTasks' = ruleTasks \ {t}
    /\ UNCHANGED <<watching, rules, heardEvents, due, done, reloads>>

\* The action returns, its command was refused by the deny list, it raises, or
\* wait_for cancels it: the next one follows.  Nobody kills the process of a run
\* action that was overdue.
Proceeds(t) ==
    /\ t \in ruleTasks /\ t.busy
    /\ GoOn(t)
    /\ UNCHANGED <<watching, rules, heardEvents, due, done, reloads>>

TaskEnds(t) ==
    /\ t \in ruleTasks /\ ~t.busy /\ t.at > t.rule.length
    /\ ruleTasks' = ruleTasks \ {t}
    /\ UNCHANGED <<watching, rules, heardEvents, due, done, reloads>>

----------------------------------------------------------------------------

wInit ==
    /\ watching = TRUE /\ rules \in SUBSET RuleSet
    /\ heardEvents = 0 /\ due = {} /\ ruleTasks = {} /\ done = {}
    /\ reloads = 0

\* What the event loop does for the tasks; an action ends or its 30 seconds do.
wStep == \E t \in ruleTasks : Begin(t) \/ Proceeds(t) \/ TaskEnds(t)

wNext ==
    \/ \E class \in Classes : OnEvent(class)
    \/ WatcherEnds
    \/ \E S \in SUBSET RuleSet : Reload(S)
    \/ wStep

\* The tasks are scheduled; an action ends, at the latest by its timeout.
wFair == WF_wVars(wStep)

wSpec == wInit /\ [][wNext]_wVars /\ wFair

----------------------------------------------------------------------------
(* Properties *)

\* Every action of every rule that an event matched begins in the end, whatever
\* fails or hangs before it, however the rules are reloaded and although the
\* watcher itself has ended.
MatchedRulesRun ==
    \A n \in 0..(MaxHypr - 1), r \in RuleSet :
        (<<n, r>> \in due) ~> (\A k \in 1..r.length : <<n, r, k>> \in done)

=============================================================================
