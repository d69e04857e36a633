SPECIFICATION Spec
CONSTANTS
    CreateReq = {t1}
    BidReq = {b1}
    SelectReq = {}
    CompleteReq = {c1}
    Sweep = {}
    Worker = {w1}
    Executor = {e1}
    Registered = {e1}
    Amount = {1}
    UseOutbox = TRUE
    SameMillisecond = FALSE
    ReplyLost = TRUE
    MaxAttempts = 2
    MaxInFlight = 1
    MaxFaults = 0
INVARIANT ReleasedOnce
