------------------------------ MODULE Scoring ------------------------------
(***************************************************************************)
(* How the attestation service turns what it is told about a wallet into a *)
(* score (packages/attestor/src: service.ts evaluateInner, validate.ts,    *)
(* aggregate.ts, policy.ts).  Everything here is a function of the         *)
(* answers; the caches, the awaits and the races are Attestor's.           *)
(*                                                                         *)
(* A history answer says whether a source could check the chain (ok), if   *)
(* it found borrowing (borrows), and if it left a protocol unchecked       *)
(* (gap).  A ChainScore answer keeps the fields that validation reads:     *)
(* which protocols are listed and how long the wallet has been active are  *)
(* kept only as far as the tests on them.                                  *)
(*                                                                         *)
(* An operator named Mutant... is a plausible slip in the operator after   *)
(* it; no specification uses it.                                           *)
(***************************************************************************)
EXTENDS Integers, FiniteSets, RiskParams

CONSTANTS
    Chain,        \* COVERED_CHAINS
    Scoreable,    \* those ChainScore scores
    MAX_DRIFT     \* MAX_UPSTREAM_CLOCK_DRIFT_MS, in the model's unit of time

ASSUME ScoringAssumption == Scoreable \subseteq Chain /\ MAX_DRIFT \in Nat

\* Of a chain that could not be checked nothing else is known.
HistoryAnswer == {h \in [ok : BOOLEAN, borrows : BOOLEAN, gap : BOOLEAN] :
                    ~h.ok => ~h.borrows /\ ~h.gap}

\* borrower is false for newWallet or noBorrowHistory; empty is true for no
\* transactions or no age; protocols tells Aave and Compound from others.
ChainScoreAnswer == [ok : BOOLEAN, score : Int, borrower : BOOLEAN, empty : BOOLEAN,
                     protocols : {"lending", "other", "none"}, degraded : BOOLEAN, timestamp : Nat]

----------------------------------------------------------------------------
(* Which chains must be scored (service.ts, the loop over COVERED_CHAINS).    *)

SourcesOut(h) == \A c \in Chain : ~h[c].ok

Verified(h, c) == h[c].ok /\ h[c].borrows

\* Borrowing was found where ChainScore gives no score: the wallet is refused.
Unscoreable(h) == {c \in Chain \ Scoreable : Verified(h, c)}

\* Checked, and clean.
Excluded(h, c) == h[c].ok /\ ~h[c].borrows /\ ~h[c].gap

ToScore(h) == {c \in Scoreable : ~Excluded(h, c)}

\* What ChainScore alone says is taken for a chain that could not be checked.
ChainScoreOnly(h, c) == ~Verified(h, c)

----------------------------------------------------------------------------
(* One chain's answer (validate.ts, and the exclusion before it).             *)

Distance(a, b) == IF a > b THEN a - b ELSE b - a

SeesBorrowing(u) == u.borrower /\ u.protocols = "lending"

\* ChainScore answered, of a chain that could not be checked, that it sees no
\* borrowing there: the chain is left out, before the answer is validated.
LeftOut(u, only) == only /\ u.ok /\ ~SeesBorrowing(u)

MutantTrustsNewWallet(u, only, nowMs) ==
    /\ u.ok /\ ~u.degraded /\ ~u.empty
    /\ ScoreInRange(u.score)
    /\ ~(u.score = MIN_SCORE /\ u.protocols = "none")
    /\ Distance(nowMs, u.timestamp) <= MAX_DRIFT
ValidateChain(u, only, nowMs) ==
    /\ u.ok
    /\ ~u.degraded
    /\ only \/ u.borrower
    /\ ~u.empty
    /\ ScoreInRange(u.score)
    /\ ~(u.score = MIN_SCORE /\ u.protocols = "none")
    /\ Distance(nowMs, u.timestamp) <= MAX_DRIFT

----------------------------------------------------------------------------
(* The wallet's score, from the chains that counted and those that failed.    *)

Least(S) == CHOOSE s \in S : \A x \in S : s <= x

MutantBestChain(scores) == CHOOSE s \in scores : \A x \in scores : s >= x
\* aggregate.ts: the wallet is as good as its worst chain.
MinimumRule(scores) == Least(scores)

\* The outcome of evaluateInner, but for the comparison with the liquidation record.
Outcome(h, counted, failed) ==
    CASE SourcesOut(h) -> "UNAVAILABLE"
      [] ~SourcesOut(h) /\ failed # {} -> "UNAVAILABLE"
      [] ~SourcesOut(h) /\ failed = {} /\ counted = {} -> "INSUFFICIENT_HISTORY"
      [] ~SourcesOut(h) /\ failed = {} /\ counted # {} /\ (\E c \in counted : Verified(h, c)) -> "SCORED"
      [] ~SourcesOut(h) /\ failed = {} /\ counted # {} /\ (\A c \in counted : ~Verified(h, c)) -> "UNAVAILABLE"

----------------------------------------------------------------------------
(* Tenor policy (policy.ts).                                                  *)

POINTS_PER_DOUBLED_ODDS == 72
MAX_PENALIZED_LIQUIDATIONS == 3
LIQUIDATION_TIER_CAP == 642
SHORTFALL_CAP == 451

Recent(rec, nowSec, window) == rec.liquidationCount > 0 /\ nowSec - rec.lastLiquidatedAt < window

Penalty(rec) ==
    POINTS_PER_DOUBLED_ODDS *
        (IF rec.liquidationCount > MAX_PENALIZED_LIQUIDATIONS THEN MAX_PENALIZED_LIQUIDATIONS
         ELSE rec.liquidationCount)

\* The ceilings a recent liquidation puts on the score.
MutantNoShortfallCap(rec) == {LIQUIDATION_TIER_CAP}
Caps(rec) == {LIQUIDATION_TIER_CAP} \cup (IF rec.shortfallCount > 0 THEN {SHORTFALL_CAP} ELSE {})

MutantNoFloor(score, rec, nowSec, window) ==
    IF Recent(rec, nowSec, window) THEN Least({score - Penalty(rec)} \cup Caps(rec)) ELSE score
\* applyTenorPolicy: the number that is signed.
ApplyTenorPolicy(score, rec, nowSec, window) ==
    LET penalized == Least({score - Penalty(rec)} \cup Caps(rec))
        signed == IF Recent(rec, nowSec, window) THEN penalized ELSE score
    IN  IF signed < MIN_SCORE THEN MIN_SCORE ELSE signed
=============================================================================
