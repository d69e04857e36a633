SPECIFICATION Spec
CONSTANTS
    Publisher = {p1, p2}
    Worker = {w1, w2}
    Hash = {h1, h2}
    MaxRetries = 2
    MaxAttempts = 2
    MaxFaults = 2
SYMMETRY Symmetry
CHECK_DEADLOCK FALSE
INVARIANT PostsBounded
INVARIANT SucceededWasReceived
INVARIANT LatestAnnounced
