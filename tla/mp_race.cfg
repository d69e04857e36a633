SPECIFICATION Spec
CONSTANTS
    CreateReq = {t1}
    BidReq = {b1, b2}
    SelectReq = {}
    CompleteReq = {c1}
    Sweep = {x1}
    Worker = {w1}
    Executor = {e1}
    Registered = {e1}
    Amount = {1}
    UseOutbox = TRUE
    SameMillisecond = FALSE
    ReplyLost = TRUE
    MaxAttempts = 2
    MaxInFlight = 2
    MaxFaults = 1
SYMMETRY Symmetry
INVARIANT SettledWasAnswered
INVARIANT SettlementJustified
INVARIANT ReleasesBounded
INVARIANT LosersAreBeaten
PROPERTY SelectedSurvives
