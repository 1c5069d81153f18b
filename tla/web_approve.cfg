SPECIFICATION PageSpec
CONSTANTS
    User = b1
    Borrower = {b1}
    Lender = {l1}
    MaxLtv <- TierToMaxLtv
    WalletCap <- MCWalletCap
    RAY = 100
    WAD = 10
    VIRTUAL_SHARES = 10
    SECONDS_PER_YEAR = 1
    maxPriceAge = 1
    AssetInput = {}
    ShareInput = {}
    Donation = {}
    CollateralInput = {7, 50, 99, 100}
    Amount = {}
    PriceInput <- MCPrices
    CapInput = {}
    TierCapInput = {}
    TierInput = {"FLOOR", "A"}
    InitialCap = 1000
    MaxTime = 3
    MaxCollateral = 100
    MaxCash = 100
    MaxEntries = 1
    MaxLoans = 1
    MaxLiquidations = 1
    Typed = {50}
    SLACK = 1
    DUST = 3
    APPROVE_DIV = 4
    Funds <- MCFunds
    Positions <- MCPositions
    MaxSigned = 2
INVARIANT ApprovalCarriesOn
CHECK_DEADLOCK FALSE
