SPECIFICATION bSpec
CONSTANTS
    Compatible = {"openai"}
    MaxLoop = 4
    KeepRounds = 2
    MaxCalls = 2
CHECK_DEADLOCK FALSE
INVARIANT RaisesOnlyOnFailure
