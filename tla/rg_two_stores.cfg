SPECIFICATION Spec
CONSTANTS
    Grant = {g1}
    Request = {r1, r2}
    Signer = {k1}
    Call = {bid}
    Signed = {bid}
    IdemKey = {i1}
    NonceLimit = 2
    IpLimit = 1
    PkLimit = 1
    Window = 1
    NonceTtl = 2
    AllowClientNonce = {TRUE}
    Stamp = {0, 1}
    MaxTime = 1
    MaxInFlight = 2
    MaxFaults = 0
SYMMETRY Symmetry
CHECK_DEADLOCK FALSE
INVARIANT NonceOneTime
