SPECIFICATION Spec
CONSTANTS
    Publisher = {p1, p2}
    Worker = {w1, w2}
    Hash = {h1, h2}
    MaxRetries = 0
    MaxAttempts = 1
    MaxFaults = 0
CHECK_DEADLOCK FALSE
PROPERTY ResultsWhileAssigned
