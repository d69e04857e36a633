SPECIFICATION Spec
CONSTANTS
    Grant = {g1}
    Request = {r1, r2}
    Signer = {k1, k2}
    Call = {bid, select}
    Signed = {bid}
    IdemKey = {i1}
    NonceLimit = 2
    IpLimit = 1
    PkLimit = 1
    Window = 1
    NonceTtl = 2
    AllowClientNonce = {TRUE, FALSE}
    Stamp = {1}
    MaxTime = 3
    MaxInFlight = 2
    MaxFaults = 1
SYMMETRY Symmetry
CHECK_DEADLOCK FALSE
INVARIANT NonceSpentOnce
INVARIANT ReplayIsFaithful
INVARIANT LimitsLift
PROPERTY NoNewRuns
