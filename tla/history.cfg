SPECIFICATION FairSpec
CONSTANTS
    CHAINS <- MCChains
    CompoundChain <- MCCompoundChain
    FallbackChain <- MCFallbackChain
    Wallet = {w1}
    Loans <- MCLoans
    MAX_BLOCK = 3
    MAX_PAGES = 3
    MAX_429_RETRIES = 1
    MIN_INTERVAL = 2
    BACKOFF = 1
INVARIANT AnswersAreHonest
PROPERTIES OneWalletNeverBursts EveryCheckEnds
