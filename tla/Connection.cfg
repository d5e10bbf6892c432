SPECIFICATION FairSpec
CONSTANTS
    QueueCap <- MCQueueCap
    OutCap = 1
    HighWater = 0
    MaxRequests = 2
    MaxEvents = 2
    MaxSubs = 3
CHECK_DEADLOCK FALSE
INVARIANT RequestsConserved
INVARIANT IteratorIsReleased
PROPERTY EventsAreStreamed
PROPERTY GoneClientIsDropped
