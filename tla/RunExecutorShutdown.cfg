SPECIFICATION Spec
CONSTANTS
    Runs = {r1}
    r1 = r1
    MaxEvents = 1
    MaxCancels = 0
    MaxCrashes = 0
    StoreFaults = FALSE
INVARIANT GracefulShutdown
