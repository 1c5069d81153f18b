---------------------------- MODULE Evaluation ----------------------------
(***************************************************************************)
(* One evaluation of one wallet, with no cache: what the service concludes *)
(* from the answers of its sources, as they fail, recover and change their *)
(* answers.  `borrowed` is the truth the history sources report on.  They  *)
(* may be down but do not lie.  The fallback sees less than the primary:   *)
(* it says so of Compound, and says nothing of Aave's stable-rate loans    *)
(* (history.ts).  ChainScore may answer anything.                          *)
(***************************************************************************)
EXTENDS Scoring

CONSTANTS
    FallbackChain,    \* the chains Alchemy offers transfers on
    CompoundChain,    \* the chains with Compound V2 markets
    LoanInput,        \* the loans the wallet may have taken
    ChainScoreInput,  \* the answers ChainScore may give
    NOW,              \* when the evaluation is made
    WINDOW,           \* PENALTY_WINDOW_SECONDS
    MaxLiquidations   \* bound: liquidations on record

\* Of Aave at a variable or at a stable rate, or of Compound by the wallet itself: a
\* loan that it took from Compound through a contract wallet is not on the record.
Loan == (Chain \X {"variable", "stable"}) \cup (CompoundChain \X {"compound"})

ASSUME EvaluationAssumption ==
    /\ FallbackChain \subseteq Chain /\ CompoundChain \subseteq Chain
    /\ LoanInput \subseteq Loan
    /\ ChainScoreInput \subseteq ChainScoreAnswer
    /\ NOW \in Nat /\ WINDOW \in Nat \ {0} /\ MaxLiquidations \in Nat

VARIABLES
    borrowed,  \* the loans of the wallet: chains, with the kind of loan
    down,      \* the sources that cannot be asked, chain by chain
    upstream,  \* what ChainScore answers for each chain it scores
    rec        \* the wallet's Tenor liquidation record

vars == <<borrowed, down, upstream, rec>>

Source == ({"hypersync"} \X Chain) \cup ({"alchemy"} \X FallbackChain)

BorrowedOn(c) == \E l \in borrowed : l[1] = c

----------------------------------------------------------------------------
(* The history check.  An operator named Mutant... is a plausible slip in the *)
(* operator after it; no specification uses it.                               *)

NoAnswer == [ok |-> FALSE, borrows |-> FALSE, gap |-> FALSE]

FromHyperSync(c) == [ok |-> TRUE, borrows |-> BorrowedOn(c), gap |-> FALSE]

\* Alchemy counts the mints of Aave's variable debt tokens.  Compound stays unchecked,
\* and it says so; stable-rate loans stay unseen, and it does not.
MutantGapForgotten(c) == [ok |-> TRUE, borrows |-> <<c, "variable">> \in borrowed, gap |-> FALSE]
FromAlchemy(c) == [ok |-> TRUE, borrows |-> <<c, "variable">> \in borrowed, gap |-> c \in CompoundChain]

\* The primary for each chain, the fallback where it fails.
ChainHistory(c) ==
    CASE <<"hypersync", c>> \notin down -> FromHyperSync(c)
      [] <<"hypersync", c>> \in down /\ c \in FallbackChain /\ <<"alchemy", c>> \notin down -> FromAlchemy(c)
      [] OTHER -> NoAnswer

history == [c \in Chain |-> ChainHistory(c)]

----------------------------------------------------------------------------
(* The evaluation. *)

Only(c) == ChainScoreOnly(history, c)

Counted == {c \in ToScore(history) :
              ~LeftOut(upstream[c], Only(c)) /\ ValidateChain(upstream[c], Only(c), NOW)}

Failed == Unscoreable(history) \cup
          {c \in ToScore(history) :
              ~LeftOut(upstream[c], Only(c)) /\ ~ValidateChain(upstream[c], Only(c), NOW)}

Result == Outcome(history, Counted, Failed)

TenorScore == ApplyTenorPolicy(MinimumRule({upstream[c].score : c \in Counted}), rec, NOW, WINDOW)

----------------------------------------------------------------------------
Init ==
    /\ borrowed \in SUBSET LoanInput
    /\ down = {}
    /\ upstream \in [Scoreable -> ChainScoreInput]
    /\ rec = [lastLiquidatedAt |-> 0, liquidationCount |-> 0, shortfallCount |-> 0]

Fails(s) == s \notin down /\ down' = down \cup {s} /\ UNCHANGED <<borrowed, upstream, rec>>

Recovers(s) == s \in down /\ down' = down \ {s} /\ UNCHANGED <<borrowed, upstream, rec>>

ChainScoreAnswers(c, u) ==
    /\ upstream' = [upstream EXCEPT ![c] = u]
    /\ UNCHANGED <<borrowed, down, rec>>

\* A liquidation in Tenor's market, with or without bad debt.
Liquidated(short) ==
    /\ rec.liquidationCount < MaxLiquidations
    /\ rec' = [lastLiquidatedAt |-> NOW,
               liquidationCount |-> rec.liquidationCount + 1,
               shortfallCount |-> rec.shortfallCount + (IF short THEN 1 ELSE 0)]
    /\ UNCHANGED <<borrowed, down, upstream>>

Next ==
    \/ \E s \in Source : Fails(s) \/ Recovers(s)
    \/ \E c \in Scoreable, u \in ChainScoreInput : ChainScoreAnswers(c, u)
    \/ \E short \in BOOLEAN : Liquidated(short)

Spec == Init /\ [][Next]_vars

----------------------------------------------------------------------------
(* Properties. *)

\* The gap that the fallback does not report (history.ts, "KNOWN GAPS"): it answers in
\* HyperSync's place for a chain without Compound, and every loan there is an Aave loan
\* at a stable rate.  To the service such a chain reads clean.
Overlooked(c) ==
    /\ <<"hypersync", c>> \in down /\ <<"alchemy", c>> \in Source \ down
    /\ BorrowedOn(c) /\ \A l \in borrowed : l[1] = c => l[2] = "stable"
    /\ c \notin CompoundChain

\* A wallet is never scored better than on its worst chain: every chain on which
\* a source found borrowing is in the score, whatever failed on it or elsewhere
\* ("a chain we cannot read might hold the liquidation that would lower the
\* minimum", validate.ts), and so is every chain that no source could clear and
\* ChainScore sees borrowing on.  A chain with a loan on it is cleared in one case
\* only, the fallback's silent gap.
WorstChainRules ==
    /\ Result = "SCORED" =>
         \A c \in Chain :
             /\ BorrowedOn(c) /\ ~Overlooked(c)
             /\ \/ Verified(history, c)
                \/ c \in Scoreable /\ upstream[c].ok /\ SeesBorrowing(upstream[c])
             => c \in Counted /\ (TenorScore <= upstream[c].score \/ TenorScore = MIN_SCORE)
    /\ \A c \in Chain : BorrowedOn(c) => (Excluded(history, c) <=> Overlooked(c))

\* The three outcomes are never collapsed (service.ts): a score rests on borrowing
\* that a source other than ChainScore found, and fits the registry's table; "insufficient
\* history" is said only where nothing failed and nobody who was asked of a chain with a
\* loan on it reported borrowing; of a chain in the silent gap ChainScore is not asked.
OutcomesKeptApart ==
    /\ Result = "SCORED" =>
         /\ TenorScore \in MIN_SCORE .. MAX_SCORE
         /\ \E c \in Chain : BorrowedOn(c) /\ Verified(history, c) /\ upstream[c].borrower
    /\ Result = "INSUFFICIENT_HISTORY" =>
         \A c \in Chain : BorrowedOn(c) /\ ~Overlooked(c) =>
             /\ ~Verified(history, c)
             /\ c \in Scoreable => upstream[c].ok /\ ~SeesBorrowing(upstream[c])

ScoredAsTheWorst == WorstChainRules /\ OutcomesKeptApart

\* A liquidation never makes the next score better, at any score and however many
\* there were before; one that left bad debt brings it down to the floor tier.
LiquidationNeverHelps ==
    [][rec' # rec /\ Result = "SCORED" =>
         /\ TenorScore' <= TenorScore
         /\ Rank[ScoreToTier(TenorScore')] <= Rank["C"]
         /\ rec'.shortfallCount > 0 => ScoreToTier(TenorScore') = FLOOR]_vars

\* An outage of a source never buys a better score: if the wallet is scored with
\* the source and without it, then no better without, as long as ChainScore sees
\* the borrowing there is and the outage drops no chain into the fallback's silent gap.
OutageNeverHelps ==
    [][/\ \E s \in Source \ down : down' = down \cup {s}
       /\ Result = "SCORED" /\ Result' = "SCORED"
       /\ \A c \in Scoreable : BorrowedOn(c) => SeesBorrowing(upstream[c])
       /\ \A c \in Chain : Overlooked(c)' => Overlooked(c)
       => TenorScore' <= TenorScore]_vars
=============================================================================
