SPECIFICATION Spec
CONSTANTS
    Request = {q1, q2}
    IdemKey = {k1, k2}
    Credential = {p1}
    Price <- MCPrice
    Network = {"local", "testnet"}
    Instance = {i1, i2}
    Retries = 1
    MaxFailures = 2
    MaxRestarts = 1
    Reader = {}
SYMMETRY MCSymmetry
CHECK_DEADLOCK FALSE
INVARIANT TasksArePaid
INVARIANT ChargedOncePerKey
INVARIANT PaidIsListed
INVARIANT AmountsAreRounded
