SPECIFICATION FairSpec
CONSTANTS
    Jobs = {j1, j2, j3, j4}
    MaxCalls = 2
    Interval = 2
    MaxConcurrent = 1
    MaxQueueLength = 2
    MaxQueueWait = 2
    NoTimer = NoTimer
INVARIANTS
    TypeOK
    RateBound
    InFlightBound
    TimerWhenQueued
PROPERTIES
    StartsAreFresh
    QueuedLeaves
