CONSTANTS
    a1 = a1
    a2 = a2
    self = self
    usdc = usdc
    eurc = eurc
    Account = {a1, a2}
    Contract = self
    Payee = {a1, a2}
    Token = {usdc, eurc}
    Amount = {7}
    ShareBp = {7000}
    Supply = 14
    MaxI128 = 50000
    LockDuration = 1
    MaxNonce = 2
    MaxLedger = 2
SYMMETRY Symmetry
SPECIFICATION Spec
CHECK_DEADLOCK FALSE
INVARIANT AlwaysClaimable
