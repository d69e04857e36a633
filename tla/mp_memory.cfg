SPECIFICATION Spec
CONSTANTS
    CreateReq = {t1}
    BidReq = {b1, b2}
    SelectReq = {s1}
    CompleteReq = {c1}
    Sweep = {x1}
    Worker = {}
    Executor = {e1}
    Registered = {e1}
    Amount = {1, 2}
    UseOutbox = FALSE
    SameMillisecond = FALSE
    ReplyLost = TRUE
    MaxAttempts = 2
    MaxInFlight = 2
    MaxFaults = 1
SYMMETRY Symmetry
INVARIANT SettledWasAnswered
INVARIANT LosersAreBeaten
