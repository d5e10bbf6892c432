SPECIFICATION RacesSpec
CONSTANTS
    Runs = {r1, r2}
    r1 = r1
    r2 = r2
    MaxEvents = 2
    MaxCancels = 2
    MaxCrashes = 1
    StoreFaults = TRUE
SYMMETRY RunSymmetry
INVARIANT TypeOK
INVARIANT StoreLockHeldByOne
INVARIANT StoredEventsHaveNoGap
INVARIANT PublishedEventsAreStored
INVARIANT VerdictIsStored
INVARIANT OneVerdict
INVARIANT FinishedHasOutcome
PROPERTY EndedRunStaysEnded
PROPERTY OutcomeSettled
PROPERTY LifeCycle
