SPECIFICATION ExecutionSpec
CONSTANTS
    Runs = {r1, r2}
    r1 = r1
    r2 = r2
    key = key
    rm = rm
    Actions = {key, rm}
    Keyboard = {key}
    Confirmed = {rm}
    Windows = {"listed"}
    MaxActions = 1
    MaxStops = 1
    Window = 6
    Threshold = 3
    MaxInterrupts = 2
    EntryPoints <- MCEntryPoints
    Jobs = {"j", "k"}
    MaxSignals = 2
CHECK_DEADLOCK FALSE
INVARIANT NothingLeftRunning
INVARIANT TeardownReachesAll
PROPERTY StopEnds
PROPERTY EveryRunEnds
PROPERTY CancelledRunIsRecorded
PROPERTY CommandEnds
PROPERTY LockEndsRuns
