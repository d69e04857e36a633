CONSTANTS
    a1 = a1
    a2 = a2
    self = self
    usdc = usdc
    Account = {a1, a2}
    Contract = self
    Payee = {a1, a2}
    Token = {usdc}
    Amount = {0, 7}
    ShareBp = {0, 7000, 9999, 10000, 10001}
    Supply = 14
    MaxI128 = 50000
    LockDuration = 1
    MaxNonce = 3
    MaxLedger = 2
SYMMETRY Symmetry
SPECIFICATION Spec
CHECK_DEADLOCK FALSE
INVARIANT Solvency
PROPERTY SettlementFinal
