SPECIFICATION Spec
CONSTANTS
    Apps = {"app"}
    Triggers = {}
    Patterns = {}
    Clients = {"d", "e"}
    MaxBlocks = 1
    MaxTriggers = 2
    MaxReady = 2
    Enough = 3
CHECK_DEADLOCK FALSE
INVARIANT OneTaskPerTrigger
PROPERTY FinishedRunsAreLearned
PROPERTY DecisionsStay
PROPERTY DeniedIsProposed
PROPERTY MatchedRulesRun
PROPERTY RecordingEnds
PROPERTY TailEnds
PROPERTY OutageShows
