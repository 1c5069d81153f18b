--------------------------- MODULE MCTenorMarket ---------------------------
(* Constants of the model-checking runs of TenorMarket. *)
EXTENDS TenorMarket, TLC

CONSTANTS b1, b2, l1, l2

\* Wallet caps on the scale of the amounts of the runs, in the shipped proportions.
MCWalletCap == [t \in Tier |-> TierToWalletCap[t] \div 10]

MCOnePriceEach == [a \in Asset |-> {10}]
MCCollateralFalls == [a \in Asset |-> IF a = "coll" THEN {5, 10} ELSE {10}]

\* The cap of tier A, below the debt a borrower may have elsewhere.
MCTierACapped == {[t \in Tier |-> IF t = "A" THEN 70 ELSE InitialCap]}

MCSymmetry == Permutations(Borrower)
=============================================================================
