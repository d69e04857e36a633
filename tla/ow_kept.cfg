CONSTANTS
    e1 = e1
    e2 = e2
    w1 = w1
    w2 = w2
    Event = {e1, e2}
    Worker = {w1, w2}
    MaxAttempts = 3
    RetryLimit = 2
    ReadCount = 1
    StreamMaxLen = 9
    PauseWorkerConsumption = {FALSE}
    MayThrow = {"xadd", "mark_processed", "mark_unpublished", "claim", "poll", "list_due", "try_start", "find_event", "dispatch", "mark_succeeded", "mark_failed", "ack", "ack_throw"}
    MayCrash = {"publish", "claim", "poll", "retry"}
    MaxEntries = 2
    MaxFaults = 2
SYMMETRY Symmetry
SPECIFICATION Spec
CHECK_DEADLOCK FALSE
INVARIANT NeverForgotten
INVARIANT EffectsBounded
PROPERTY ImplementsDelivery
