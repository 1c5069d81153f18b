----------------------------- MODULE MCIndexer -----------------------------
(* Constants of the model-checking run of Indexer. *)
EXTENDS Indexer

CONSTANTS w1, l1, k1, theMarket

\* At the high price what a liquidation at the low one leaves carries another loan; at the
\* low one a loan is underwater as soon as it bears interest.
MCCollateralFalls == [a \in {"coll", "debt"} |-> IF a = "coll" THEN {5, 1000} ELSE {10}]
=============================================================================
