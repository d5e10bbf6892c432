SPECIFICATION MemorySpec
CONSTANTS
    Runs = {r1, r2}
    r1 = r1
    r2 = r2
    Readers = {p, q}
    p = p
    q = q
    Writers = {w}
    w = w
    Capacity = 1
    MaxVersion = 2
    ActionKinds = {"key", "rm"}
    Limit <- MCLimit
    Period = 2
    MaxNow = 5
    Apps = {}
    Triggers = {"app"}
    Patterns = {"p", "q"}
    Clients = {"d", "e"}
    MaxBlocks = 2
    MaxConcurrent = 1
    K = 1
    Rows = {"x", "y"}
    Compatible = {"openai"}
    MaxLoop = 4
    KeepRounds = 2
    MaxCalls = 2
    ListLimit = 1
    MaxOutages = 0
    Actions = {"key", "rm"}
    Keyboard = {"key"}
    Confirmed = {"rm"}
    Windows = {"listed"}
    MaxActions = 2
    MaxStops = 1
    Window = 6
    Threshold = 3
INVARIANT CachedIsCommitted
INVARIANT StaleOnlyAfterRace
INVARIANT GrantsAreSpaced
INVARIANT VersionMeansComplete
INVARIANT RowsSurvive
INVARIANT ApprovedIsInFile
INVARIANT EpisodeTellsTheEnd
INVARIANT CallsAreAnswered
INVARIANT RowsAreRight
INVARIANT StopHonoured
INVARIANT StuckIffRepeated
