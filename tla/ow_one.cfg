CONSTANTS
    e1 = e1
    e2 = e2
    w1 = w1
    Event = {e1, e2}
    Worker = {w1}
    MaxAttempts = 2
    RetryLimit = 1
    ReadCount = 2
    StreamMaxLen = 9
    PauseWorkerConsumption = {TRUE, FALSE}
    MayThrow = {"xadd", "mark_processed", "mark_unpublished", "claim", "poll", "list_due", "try_start", "find_event", "dispatch", "mark_succeeded", "mark_failed", "ack", "ack_throw"}
    MayCrash = {"publish", "claim", "poll", "retry"}
    MaxEntries = 5
    MaxFaults = 3
SPECIFICATION FairSpec
PROPERTY EventsAreSettled
