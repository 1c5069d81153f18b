--------------------------- MODULE MCMarketPage ---------------------------
(* Constants of the model-checking runs of MarketPage. *)
EXTENDS MarketPage

\* Wallet caps on the scale of the amounts of the runs, in the shipped proportions.
MCWalletCap == [t \in Tier |-> TierToWalletCap[t] \div 25]
MCPrices == [a \in Asset |-> {10}]
MCFunds == [a \in Asset |-> IF a = "coll" THEN 100 ELSE 20]
MCPositions ==
    {[collateral |-> 0, debt |-> 0], [collateral |-> 100, debt |-> 0], [collateral |-> 100, debt |-> 30]}
=============================================================================
