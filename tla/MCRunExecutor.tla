--------------------------- MODULE MCRunExecutor ---------------------------
(* TLC instances of RunExecutor: run ids are interchangeable model values. *)
(* The run "races" explores two instances, told apart by the variable      *)
(* part: one run with every fault, cancel and crash, and two runs without  *)
(* them that share the store's lock and its thread pool.                   *)
EXTENDS RunExecutor, TLC

VARIABLE part

RunSymmetry == Permutations(Runs)

Two == INSTANCE RunExecutor WITH MaxEvents <- 0, MaxCancels <- 1,
                                 MaxCrashes <- 0, StoreFaults <- FALSE

RacesInit == Init /\ part \in {"one", "two"}

RacesNext ==
    \/ /\ part = "one"
       /\ \/ \E r \in Runs :
               /\ \A s \in Runs \ {r} : pc[s] = "idle"
               /\ StoreStep(r) \/ RunStep(r) \/ ClientStep(r)
          \/ DaemonStep
       /\ UNCHANGED part
    \/ part = "two" /\ Two!Next /\ UNCHANGED part

RacesSpec == RacesInit /\ [][RacesNext]_<<vars, part>>
============================================================================
