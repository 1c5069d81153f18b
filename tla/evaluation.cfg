SPECIFICATION Spec
CONSTANTS
    c1 = c1
    c2 = c2
    c3 = c3
    Chain = {c1, c2, c3}
    Scoreable = {c1, c2}
    FallbackChain = {c1, c2}
    CompoundChain = {c1}
    LoanInput <- MCLoans
    MAX_DRIFT = 1
    ChainScoreInput <- MCChainScoreInput
    NOW = 5
    WINDOW = 10
    MaxLiquidations = 2
INVARIANT ScoredAsTheWorst
PROPERTIES LiquidationNeverHelps OutageNeverHelps
