SPECIFICATION Spec
CONSTANTS
    k1 = k1
    k2 = k2
    m1 = m1
    Wallet = {1}
    Signer = {k1, k2}
    Market = {m1}
    ScoreInput = {299, 452}
    Shortfall = {0, 1}
    MAX_TTL = 2
    MAX_CLOCK_SKEW = 1
    MaxTime = 3
    MaxNonce = 2
    MaxEpoch = 3
    MaxLiquidations = 1
SYMMETRY MCSymmetry
INVARIANTS NoReplayNoRollback FreshIsVouched
PROPERTIES ImplementsView LiquidationInvalidatesUpToSkew
