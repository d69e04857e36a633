CONSTANTS
    e1 = e1
    e2 = e2
    w1 = w1
    Event = {e1, e2}
    Worker = {w1}
    MaxAttempts = 2
    RetryLimit = 1
    ReadCount = 2
    StreamMaxLen = 1
    PauseWorkerConsumption = {TRUE}
    MayThrow = {}
    MayCrash = {}
    MaxEntries = 2
    MaxFaults = 0
SPECIFICATION Spec
CHECK_DEADLOCK FALSE
INVARIANT PausedLosesNothing
