-------------------------- MODULE MCHistoryClient --------------------------
(* Constants of the model-checking runs of HistoryClient. *)
EXTENDS HistoryClient

\* Ethereum, with both protocols and a fallback; Polygon, with Aave and a fallback;
\* Scroll, with Aave and none.
MCChains == <<"ethereum", "polygon", "scroll">>
MCCompoundChain == {"ethereum"}
MCFallbackChain == {"ethereum", "polygon"}

On(c, k, b) == [chain |-> c, kind |-> k, block |-> b]

\* Of every kind and over the pages, two in a block and one past the first head; and a
\* wallet that Alchemy sees nothing of, on Ethereum and on Polygon.
MCLoans == {{On("ethereum", "variable", 0), On("ethereum", "stable", 2), On("ethereum", "compound", 1),
             On("ethereum", "compound", 3), On("polygon", "variable", 2), On("polygon", "stable", 2),
             On("scroll", "variable", 1), On("scroll", "stable", 3)},
            {On("ethereum", "compound", 2), On("polygon", "stable", 1)}}
=============================================================================
