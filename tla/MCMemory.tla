------------------------------ MODULE MCMemory ------------------------------
(* The run "memory" explores the cache of RunCache and, beside it,          *)
(* what else the daemon keeps: its database, files and counters, and the    *)
(* gates in front of an action.  The components share no state; the         *)
(* variable part, chosen initially, says which of them moves, so that the   *)
(* state space is the sum of theirs and not the product.                    *)
(*   cache       RunCache: two readers, a writer, two runs                  *)
(*   rate        RateLimiter: two kinds of action                           *)
(*   migrations  Migrations: a database of any age                          *)
(*   rules       Proposals: rules that are mined, approved and reloaded     *)
(*   brain       Brain: the dialogue of a decision with the model           *)
(*   tui         Frontends: the list of runs of the TUI                     *)
(*   learning    Learning: two runs, their episodes and lessons             *)
(*   stop        Orchestrator: two runs, the STOP file and the poller       *)
(*   loop        Orchestrator: one run whose brain plans a list long enough *)
(*               for the loop detector, where it may and may not type       *)
EXTENDS RunCache, RateLimiter, Proposals, Learning, Orchestrator, Migrations, Brain,
        Frontends, TLC

VARIABLE part

MCLimit == "key" :> 2 @@ "rm" :> 1

Loop == INSTANCE Orchestrator WITH
            Actions <- {"key", "ls"}, Keyboard <- {"key"}, Confirmed <- {},
            Windows <- {"control", "unlisted"}, MaxActions <- 7, MaxStops <- 0

allVars == <<part, lifeVars, cacheVars, rateVars, sVars, pVars, learningVars, bVars,
             frontVars, vars>>

Parts == {"cache", "rate", "migrations", "rules", "learning", "brain", "tui", "stop", "loop"}

\* One run is enough for the loop detector.
Solo == CHOOSE r \in Runs : TRUE

MemoryInit ==
    /\ part \in Parts
    /\ cacheInit /\ rateInit /\ pInit /\ lInit /\ bInit
    /\ fInit /\ front = "tui" /\ tailed = Solo
    /\ sInit /\ (part # "migrations" => disk = {})
    /\ IF part = "loop" THEN Loop!Init
       ELSE Init /\ (part # "stop" => flag = FALSE)

MemoryNext ==
    \/ /\ part = "cache" /\ cacheNext
       /\ UNCHANGED <<part, lifeVars, rateVars, sVars, pVars, learningVars, bVars,
                      frontVars, vars>>
    \/ /\ part = "rate" /\ rateNext
       /\ UNCHANGED <<part, lifeVars, cacheVars, sVars, pVars, learningVars, bVars,
                      frontVars, vars>>
    \/ /\ part = "migrations" /\ sNext
       /\ UNCHANGED <<part, lifeVars, cacheVars, rateVars, pVars, learningVars, bVars,
                      frontVars, vars>>
    \/ /\ part = "rules" /\ pNext
       /\ UNCHANGED <<part, lifeVars, cacheVars, rateVars, sVars, learningVars, bVars,
                      frontVars, vars>>
    \/ /\ part = "learning" /\ lNext
       /\ \A r \in Runs \ {Solo} : life'[r] = "none" /\ status'[r] = "absent"
       /\ UNCHANGED <<part, cacheVars, rateVars, sVars, pVars, bVars,
                      frontVars, vars>>
    \/ /\ part = "brain" /\ bNext
       /\ UNCHANGED <<part, lifeVars, cacheVars, rateVars, sVars, pVars, learningVars,
                      frontVars, vars>>
    \/ /\ part = "tui" /\ fNext
       /\ \A r \in Runs : "errored" \notin {status'[r], verdict'[r], told'[r]}
       /\ UNCHANGED <<part, cacheVars, rateVars, sVars, pVars, learningVars,
                      bVars, vars>>
    \/ /\ part = "stop" /\ Next
       /\ UNCHANGED <<part, lifeVars, cacheVars, rateVars, sVars, pVars, learningVars,
                      bVars, frontVars>>
    \/ /\ part = "loop"
       /\ Loop!RunStep(Solo) \/ \E w \in {"control", "unlisted"} : Loop!Focus(w)
       /\ UNCHANGED <<part, lifeVars, cacheVars, rateVars, sVars, pVars, learningVars,
                      bVars, frontVars>>
    \* The bounds of the other parts end them; the cache and the schema never
    \* wait for ever, which the deadlock check confirms.
    \/ part \notin {"cache", "migrations"} /\ UNCHANGED allVars

MemorySpec == MemoryInit /\ [][MemoryNext]_allVars
=============================================================================
