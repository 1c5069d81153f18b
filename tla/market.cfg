SPECIFICATION Spec
CONSTANTS
    b1 = b1
    b2 = b2
    l1 = l1
    l2 = l2
    Borrower = {b1, b2}
    Lender = {l1, l2}
    MaxLtv <- TierToMaxLtv
    WalletCap <- MCWalletCap
    RAY = 10
    WAD = 10
    VIRTUAL_SHARES = 10
    SECONDS_PER_YEAR = 1
    maxPriceAge = 1
    AssetInput = {100}
    ShareInput = {500}
    Donation = {7}
    CollateralInput = {100}
    Amount = {40}
    PriceInput <- MCCollateralFalls
    CapInput = {1000}
    TierCapInput <- MCTierACapped
    TierInput = {"FLOOR", "A"}
    InitialCap = 1000
    MaxTime = 1
    MaxCollateral = 200
    MaxCash = 210
    MaxEntries = 2
    MaxLoans = 2
    MaxLiquidations = 1
INVARIANTS TypeOK TotalsAreSums
PROPERTIES OnlyPriceOrTimeUnwinds RiskPricedToday GrowsWithinCaps
