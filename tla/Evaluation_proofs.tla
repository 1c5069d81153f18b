-------------------------- MODULE Evaluation_proofs --------------------------
(***************************************************************************)
(* Proofs about Evaluation, for any chains, any answers of ChainScore, any *)
(* set of sources out of reach and any liquidation record.                 *)
(***************************************************************************)
EXTENDS Evaluation, WellFoundedInduction, TLAPS

Rec == [lastLiquidatedAt : Nat, liquidationCount : Nat, shortfallCount : Nat]

EInv ==
    /\ borrowed \subseteq Loan
    /\ upstream \in [Scoreable -> ChainScoreInput]
    /\ rec \in Rec /\ rec.lastLiquidatedAt <= NOW

----------------------------------------------------------------------------
(* The least of some scores.                                                  *)

LEMMA LeastIs ==
    ASSUME NEW S, \E s \in S : \A x \in S : s <= x
    PROVE  Least(S) \in S /\ \A x \in S : Least(S) <= x
BY Zenon DEF Least

\* Any set of scores has a least one.
LEMMA LeastScore ==
    ASSUME NEW S, S \subseteq MIN_SCORE .. MAX_SCORE, S # {}
    PROVE  Least(S) \in S /\ \A x \in S : Least(S) <= x
<1>1. S \subseteq Nat
  BY DEF MIN_SCORE, MAX_SCORE
<1>2. PICK s \in S : \A x \in S : <<x, s>> \notin OpToRel(<, Nat)
  BY <1>1, NatLessThanWellFounded, WFMin
<1>3. ASSUME NEW x \in S PROVE s <= x
  <2>1. x \in Nat /\ s \in Nat
    BY <1>1
  <2>2. ~(x < s)
    BY <1>2, <2>1 DEF OpToRel
  <2> QED BY <2>1, <2>2
<1> QED BY <1>3, LeastIs

LEMMA LeastOfTwo ==
    ASSUME NEW a \in Int, NEW b \in Int
    PROVE  Least({a} \cup {b}) = IF a <= b THEN a ELSE b
<1>1. \E s \in {a} \cup {b} : \A x \in {a} \cup {b} : s <= x
  BY a <= b \/ b <= a, a <= a, b <= b
<1>2. Least({a} \cup {b}) \in {a} \cup {b} /\ \A x \in {a} \cup {b} : Least({a} \cup {b}) <= x
  BY <1>1, LeastIs
<1> QED BY <1>2

LEMMA LeastOfThree ==
    ASSUME NEW a \in Int, NEW b \in Int, NEW c \in Int, c <= b
    PROVE  Least({a} \cup ({b} \cup {c})) = IF a <= c THEN a ELSE c
<1> DEFINE S == {a} \cup ({b} \cup {c})
<1>1. \E s \in S : \A x \in S : s <= x
  <2>1. CASE a <= c
    <3>1. a \in S /\ \A x \in S : a <= x
      BY <2>1
    <3> QED BY <3>1
  <2>2. CASE ~(a <= c)
    <3>1. c \in S /\ \A x \in S : c <= x
      BY <2>2
    <3> QED BY <3>1
  <2> QED BY <2>1, <2>2
<1>2. Least(S) \in S /\ \A x \in S : Least(S) <= x
  <2> HIDE DEF S
  <2> QED BY <1>1, LeastIs
<1>3. Least(S) = a \/ Least(S) = b \/ Least(S) = c
  BY <1>2
<1>4. Least(S) <= a /\ Least(S) <= b /\ Least(S) <= c
  BY <1>2
<1> HIDE DEF S
<1>5. Least(S) = IF a <= c THEN a ELSE c
  BY <1>3, <1>4
<1> QED BY <1>5 DEF S

----------------------------------------------------------------------------
(* The policy.                                                                *)

Lower(a, b) == IF a <= b THEN a ELSE b
Ceiling(r) == IF r.shortfallCount > 0 THEN SHORTFALL_CAP ELSE LIQUIDATION_TIER_CAP

\* The policy with its least of a set worked out.
LEMMA PolicyIs ==
    ASSUME NEW m \in Int, NEW r \in Rec
    PROVE  /\ Penalty(r) \in Nat
           /\ ApplyTenorPolicy(m, r, NOW, WINDOW) =
                  LET signed == IF Recent(r, NOW, WINDOW) THEN Lower(m - Penalty(r), Ceiling(r)) ELSE m
                  IN  IF signed < MIN_SCORE THEN MIN_SCORE ELSE signed
<1>1. Penalty(r) \in Nat
  BY DEF Rec, Penalty, POINTS_PER_DOUBLED_ODDS, MAX_PENALIZED_LIQUIDATIONS
<1>2. Least({m - Penalty(r)} \cup Caps(r)) = Lower(m - Penalty(r), Ceiling(r))
  <2>1. m - Penalty(r) \in Int
    BY <1>1
  <2>2. CASE r.shortfallCount > 0
    <3>1. Caps(r) = {LIQUIDATION_TIER_CAP} \cup {SHORTFALL_CAP}
      BY <2>2 DEF Caps
    <3> QED BY <2>1, <2>2, <3>1, LeastOfThree DEF Lower, Ceiling, LIQUIDATION_TIER_CAP, SHORTFALL_CAP
  <2>3. CASE ~(r.shortfallCount > 0)
    <3>1. Caps(r) = {LIQUIDATION_TIER_CAP}
      BY <2>3 DEF Caps
    <3> QED BY <2>1, <2>3, <3>1, LeastOfTwo DEF Lower, Ceiling, LIQUIDATION_TIER_CAP
  <2> QED BY <2>2, <2>3
<1> QED BY <1>1, <1>2 DEF ApplyTenorPolicy

\* No policy raises a score, or leaves the registry's table.
LEMMA PolicyLowers ==
    ASSUME NEW m \in MIN_SCORE .. MAX_SCORE, NEW r \in Rec
    PROVE  ApplyTenorPolicy(m, r, NOW, WINDOW) \in MIN_SCORE .. m
<1>1. m \in Int /\ MIN_SCORE <= m /\ MIN_SCORE \in Int
  BY DEF MIN_SCORE, MAX_SCORE
<1>2. Ceiling(r) \in Int
  BY DEF Ceiling, SHORTFALL_CAP, LIQUIDATION_TIER_CAP
<1> QED BY <1>1, <1>2, PolicyIs DEF Lower

\* Nor does it favour the better of two scores.
LEMMA PolicyIsMonotone ==
    ASSUME NEW m \in Int, NEW n \in Int, m <= n, NEW r \in Rec
    PROVE  ApplyTenorPolicy(m, r, NOW, WINDOW) <= ApplyTenorPolicy(n, r, NOW, WINDOW)
<1>1. Ceiling(r) \in Int
  BY DEF Ceiling, SHORTFALL_CAP, LIQUIDATION_TIER_CAP
<1> QED BY <1>1, PolicyIs DEF Lower, MIN_SCORE

----------------------------------------------------------------------------
(* What is known of every evaluation.                                         *)

LEMMA Starts == ASSUME Init PROVE EInv
BY EvaluationAssumption DEF Init, EInv, Rec

LEMMA NextKeeps == ASSUME EInv, [Next]_vars PROVE EInv'
<1>1. CASE UNCHANGED vars
  BY <1>1 DEF EInv, vars
<1>2. ASSUME NEW s \in Source, Fails(s) \/ Recovers(s) PROVE EInv'
  BY <1>2 DEF EInv, Fails, Recovers
<1>3. ASSUME NEW c \in Scoreable, NEW u \in ChainScoreInput, ChainScoreAnswers(c, u) PROVE EInv'
  BY <1>3 DEF EInv, ChainScoreAnswers
<1>4. ASSUME NEW short \in BOOLEAN, Liquidated(short) PROVE EInv'
  <2>1. rec' \in Rec /\ rec'.lastLiquidatedAt = NOW
    BY <1>4, EvaluationAssumption DEF EInv, Liquidated, Rec
  <2>2. UNCHANGED <<borrowed, down, upstream>>
    BY <1>4 DEF Liquidated
  <2> QED BY <2>1, <2>2, EvaluationAssumption DEF EInv
<1> QED BY <1>1, <1>2, <1>3, <1>4 DEF Next

LEMMA Invariant == Spec => []EInv
<1>1. Init => EInv
  BY Starts
<1>2. EInv /\ [Next]_vars => EInv'
  BY NextKeeps
<1> QED BY <1>1, <1>2, PTL DEF Spec

\* The fallback misses, and does not say it misses, exactly the chains without Compound
\* where every loan is one of Aave at a stable rate.
LEMMA SilentGap ==
    ASSUME EInv, NEW c \in Chain
    PROVE  <<c, "variable">> \notin borrowed /\ c \notin CompoundChain
               <=> (\A l \in borrowed : l[1] = c => l[2] = "stable") /\ c \notin CompoundChain
<1>1. ASSUME <<c, "variable">> \notin borrowed, c \notin CompoundChain, NEW l \in borrowed, l[1] = c
      PROVE  l[2] = "stable"
  <2>1. l \in Chain \X {"variable", "stable"}
    BY <1>1 DEF EInv, Loan
  <2>2. l = <<c, l[2]>> /\ l[2] \in {"variable", "stable"}
    BY <1>1, <2>1
  <2> QED BY <1>1, <2>2
<1>2. ASSUME \A l \in borrowed : l[1] = c => l[2] = "stable"
      PROVE  <<c, "variable">> \notin borrowed
  BY <1>2
<1> QED BY <1>1, <1>2

\* What the sources answer of a chain, and what it means.
LEMMA Reports ==
    ASSUME EInv, NEW c \in Chain
    PROVE  /\ history[c] = ChainHistory(c)
           /\ history[c].ok \in BOOLEAN /\ history[c].borrows \in BOOLEAN /\ history[c].gap \in BOOLEAN
           /\ Verified(history, c) => BorrowedOn(c)
           /\ BorrowedOn(c) => (Excluded(history, c) <=> Overlooked(c))
           /\ history[c].borrows => history[c].ok
<1>1. history[c] = ChainHistory(c)
  BY DEF history
<1>2. CASE <<"hypersync", c>> \notin down
  <2>1. history[c] = [ok |-> TRUE, borrows |-> BorrowedOn(c), gap |-> FALSE]
    BY <1>1, <1>2, Zenon DEF ChainHistory, FromHyperSync
  <2>2. BorrowedOn(c) \in BOOLEAN
    BY DEF BorrowedOn
  <2>3. ~Overlooked(c)
    BY <1>2 DEF Overlooked
  <2> HIDE DEF BorrowedOn
  <2> QED BY <1>1, <2>1, <2>2, <2>3 DEF Verified, Excluded
<1>3. CASE <<"hypersync", c>> \in down /\ c \in FallbackChain /\ <<"alchemy", c>> \notin down
  <2>1. history[c] = [ok |-> TRUE, borrows |-> <<c, "variable">> \in borrowed, gap |-> c \in CompoundChain]
    BY <1>1, <1>3, Zenon DEF ChainHistory, FromAlchemy
  <2>2. <<c, "variable">> \in borrowed => BorrowedOn(c)
    BY DEF BorrowedOn
  <2>3. BorrowedOn(c) => (<<c, "variable">> \notin borrowed /\ c \notin CompoundChain <=> Overlooked(c))
    BY <1>3, SilentGap DEF Overlooked, Source
  <2> DEFINE seen == <<c, "variable">> \in borrowed  gap == c \in CompoundChain
  <2>4. seen \in BOOLEAN /\ gap \in BOOLEAN
    OBVIOUS
  <2> HIDE DEF seen, gap
  <2>5. history[c] = [ok |-> TRUE, borrows |-> seen, gap |-> gap]
    BY <2>1 DEF seen, gap
  <2>6. (seen => BorrowedOn(c)) /\ (BorrowedOn(c) => ((~seen /\ ~gap) <=> Overlooked(c)))
    BY <2>2, <2>3 DEF seen, gap
  <2> QED BY <1>1, <2>4, <2>5, <2>6 DEF Verified, Excluded
<1>4. CASE <<"hypersync", c>> \in down /\ ~(c \in FallbackChain /\ <<"alchemy", c>> \notin down)
  <2>1. history[c] = [ok |-> FALSE, borrows |-> FALSE, gap |-> FALSE]
    BY <1>1, <1>4, Zenon DEF ChainHistory, NoAnswer
  <2>2. ~Overlooked(c)
    BY <1>4 DEF Overlooked, Source
  <2> QED BY <1>1, <2>1, <2>2 DEF Verified, Excluded
<1> QED BY <1>2, <1>3, <1>4

LEMMA UpstreamType == ASSUME EInv, NEW c \in Scoreable PROVE upstream[c] \in ChainScoreAnswer /\ c \in Chain
BY EvaluationAssumption, ScoringAssumption DEF EInv

\* Where a wallet is scored, nothing failed, and something was counted.
LEMMA ScoredMeans ==
    ASSUME EInv, Result = "SCORED"
    PROVE  Failed = {} /\ Counted # {} /\ \E c \in Counted : Verified(history, c)
BY Zenon DEF Result, Outcome

\* The score before the policy: the least counted.
Scores == {upstream[c].score : c \in Counted}

LEMMA ScoresLeast ==
    ASSUME EInv, Counted # {}
    PROVE  /\ Scores \subseteq MIN_SCORE .. MAX_SCORE
           /\ MinimumRule(Scores) \in MIN_SCORE .. MAX_SCORE
           /\ MinimumRule(Scores) \in Scores
           /\ \A c \in Counted : MinimumRule(Scores) <= upstream[c].score
<1>1. ASSUME NEW c \in Counted PROVE upstream[c].score \in MIN_SCORE .. MAX_SCORE
  <2>1. c \in Scoreable /\ ScoreInRange(upstream[c].score)
    BY DEF Counted, ToScore, ValidateChain
  <2>2. upstream[c].score \in Int
    BY <2>1, UpstreamType DEF ChainScoreAnswer
  <2> QED BY <2>1, <2>2 DEF ScoreInRange, MIN_SCORE, MAX_SCORE
<1>2. Scores \subseteq MIN_SCORE .. MAX_SCORE /\ Scores # {} /\ \A c \in Counted : upstream[c].score \in Scores
  BY <1>1 DEF Scores
<1>3. Least(Scores) \in Scores /\ \A x \in Scores : Least(Scores) <= x
  BY <1>2, LeastScore
<1> QED BY <1>2, <1>3 DEF MinimumRule

LEMMA TenorScoreIs == TenorScore = ApplyTenorPolicy(MinimumRule(Scores), rec, NOW, WINDOW)
BY DEF TenorScore, Scores

----------------------------------------------------------------------------
(* The worst chain, and the three outcomes.                                   *)

\* A chain with borrowing on it is counted unless nobody who was asked could see it.
LEMMA BorrowedIsCounted ==
    ASSUME EInv, Failed = {}, NEW c \in Chain, BorrowedOn(c), ~Overlooked(c),
           \/ Verified(history, c)
           \/ c \in Scoreable /\ upstream[c].ok /\ SeesBorrowing(upstream[c])
    PROVE  c \in Counted
<1>1. ~Excluded(history, c)
  BY Reports
<1>2. c \in Scoreable
  BY DEF Failed, Unscoreable
<1>3. c \in ToScore(history)
  BY <1>1, <1>2 DEF ToScore
<1>4. ~LeftOut(upstream[c], Only(c))
  BY DEF LeftOut, Only, ChainScoreOnly
<1> QED BY <1>3, <1>4 DEF Failed, Counted

LEMMA WorstChain == ASSUME EInv PROVE WorstChainRules
<1>1. \A c \in Chain : BorrowedOn(c) => (Excluded(history, c) <=> Overlooked(c))
  BY Reports
<1> SUFFICES ASSUME Result = "SCORED", NEW c \in Chain, BorrowedOn(c), ~Overlooked(c),
                    \/ Verified(history, c)
                    \/ c \in Scoreable /\ upstream[c].ok /\ SeesBorrowing(upstream[c])
             PROVE  c \in Counted /\ (TenorScore <= upstream[c].score \/ TenorScore = MIN_SCORE)
  BY <1>1 DEF WorstChainRules
<1>2. c \in Counted /\ Counted # {}
  BY ScoredMeans, BorrowedIsCounted
<1>3. MinimumRule(Scores) \in MIN_SCORE .. MAX_SCORE /\ MinimumRule(Scores) <= upstream[c].score
  BY <1>2, ScoresLeast
<1>4. TenorScore \in MIN_SCORE .. MinimumRule(Scores)
  BY <1>3, TenorScoreIs, PolicyLowers DEF EInv
<1>5. upstream[c].score \in Int
  BY <1>2, UpstreamType DEF Counted, ToScore, ChainScoreAnswer
<1> QED BY <1>2, <1>3, <1>4, <1>5 DEF MIN_SCORE, MAX_SCORE

LEMMA ThreeOutcomes == ASSUME EInv PROVE OutcomesKeptApart
<1>1. ASSUME Result = "SCORED"
      PROVE  /\ TenorScore \in MIN_SCORE .. MAX_SCORE
             /\ \E c \in Chain : BorrowedOn(c) /\ Verified(history, c) /\ upstream[c].borrower
  <2>1. PICK c \in Counted : Verified(history, c)
    BY <1>1, ScoredMeans
  <2>2. c \in Chain /\ BorrowedOn(c) /\ upstream[c].borrower
    BY <2>1, UpstreamType, Reports DEF Counted, ToScore, ValidateChain, Only, ChainScoreOnly
  <2>3. MinimumRule(Scores) \in MIN_SCORE .. MAX_SCORE
    BY <2>1, ScoresLeast
  <2>4. TenorScore \in MIN_SCORE .. MinimumRule(Scores)
    BY <2>3, TenorScoreIs, PolicyLowers DEF EInv
  <2>5. TenorScore \in MIN_SCORE .. MAX_SCORE
    BY <2>3, <2>4 DEF MIN_SCORE, MAX_SCORE
  <2> QED BY <2>1, <2>2, <2>5
<1>2. ASSUME Result = "INSUFFICIENT_HISTORY", NEW c \in Chain, BorrowedOn(c), ~Overlooked(c)
      PROVE  /\ ~Verified(history, c)
             /\ c \in Scoreable => upstream[c].ok /\ ~SeesBorrowing(upstream[c])
  <2>1. Failed = {} /\ Counted = {}
    BY <1>2, Zenon DEF Result, Outcome
  <2>2. ~Verified(history, c)
    BY <1>2, <2>1, BorrowedIsCounted
  <2>3. ASSUME c \in Scoreable PROVE upstream[c].ok /\ ~SeesBorrowing(upstream[c])
    <3>1. c \in ToScore(history)
      BY <1>2, <2>3, Reports DEF ToScore
    <3>2. LeftOut(upstream[c], Only(c))
      BY <2>1, <3>1 DEF Failed, Counted
    <3> QED BY <3>2 DEF LeftOut
  <2> QED BY <2>2, <2>3
<1> QED BY <1>1, <1>2 DEF OutcomesKeptApart

\* A wallet is never scored better than on its worst chain, and the three outcomes stay
\* apart: for any chains, sources out of reach and answers (service.ts, validate.ts).  A
\* chain with a loan reads clean in the fallback's silent gap (history.ts), and only there.
THEOREM WorstChainIsScored == Spec => []ScoredAsTheWorst
<1>1. EInv => ScoredAsTheWorst
  BY WorstChain, ThreeOutcomes DEF ScoredAsTheWorst
<1> QED BY <1>1, Invariant, PTL

----------------------------------------------------------------------------
(* A liquidation.                                                             *)

\* One more liquidation, now, with or without bad debt, never raises a score, brings
\* it below tier B, and one that left bad debt ever brings it down to the floor tier.
LEMMA PenaltyOfOneMore ==
    ASSUME NEW m \in MIN_SCORE .. MAX_SCORE, NEW r \in Rec, NEW q \in Rec,
           q.lastLiquidatedAt = NOW, q.liquidationCount = r.liquidationCount + 1,
           q.shortfallCount >= r.shortfallCount
    PROVE  LET now == ApplyTenorPolicy(m, q, NOW, WINDOW) IN
           /\ now \in Int
           /\ now <= ApplyTenorPolicy(m, r, NOW, WINDOW)
           /\ now < B_MIN
           /\ q.shortfallCount > 0 => now < D_MIN
<1>1. /\ m \in Int /\ MIN_SCORE <= m
      /\ r.liquidationCount \in Nat /\ r.shortfallCount \in Nat /\ q.shortfallCount \in Nat
  BY DEF MIN_SCORE, MAX_SCORE, Rec
<1>2. Recent(q, NOW, WINDOW)
  BY <1>1, EvaluationAssumption DEF Recent
<1>3. Penalty(r) \in Nat /\ Penalty(q) \in Nat /\ Penalty(r) <= Penalty(q)
  BY <1>1 DEF Penalty, POINTS_PER_DOUBLED_ODDS, MAX_PENALIZED_LIQUIDATIONS
<1>4. /\ Ceiling(q) \in Int /\ Ceiling(r) \in Int /\ Ceiling(q) <= Ceiling(r) /\ Ceiling(q) < B_MIN
      /\ q.shortfallCount > 0 => Ceiling(q) < D_MIN
  BY <1>1 DEF Ceiling, SHORTFALL_CAP, LIQUIDATION_TIER_CAP, B_MIN, D_MIN
<1> DEFINE now == ApplyTenorPolicy(m, q, NOW, WINDOW)
           before == ApplyTenorPolicy(m, r, NOW, WINDOW)
<1>5. now = IF Lower(m - Penalty(q), Ceiling(q)) < MIN_SCORE THEN MIN_SCORE ELSE Lower(m - Penalty(q), Ceiling(q))
  BY <1>1, <1>2, PolicyIs
<1>6. before = LET signed == IF Recent(r, NOW, WINDOW) THEN Lower(m - Penalty(r), Ceiling(r)) ELSE m
               IN  IF signed < MIN_SCORE THEN MIN_SCORE ELSE signed
  BY <1>1, PolicyIs
<1> HIDE DEF now, before
<1>7. now \in Int /\ now <= before
  BY <1>1, <1>3, <1>4, <1>5, <1>6 DEF Lower, MIN_SCORE
<1>8. now < B_MIN /\ (q.shortfallCount > 0 => now < D_MIN)
  BY <1>1, <1>3, <1>4, <1>5 DEF Lower, MIN_SCORE, B_MIN, D_MIN
<1> QED BY <1>7, <1>8 DEF now, before

\* A liquidation never makes the next score better (policy.ts), at any score and
\* however many there were before.
THEOREM LiquidationsLower == Spec => LiquidationNeverHelps
<1> DEFINE Lowers == rec' # rec /\ Result = "SCORED" =>
                         /\ TenorScore' <= TenorScore
                         /\ Rank[ScoreToTier(TenorScore')] <= Rank["C"]
                         /\ rec'.shortfallCount > 0 => ScoreToTier(TenorScore') = FLOOR
<1>1. EInv /\ [Next]_vars => Lowers
  <2> SUFFICES ASSUME EInv, [Next]_vars, rec' # rec, Result = "SCORED"
               PROVE  /\ TenorScore' <= TenorScore
                      /\ Rank[ScoreToTier(TenorScore')] <= Rank["C"]
                      /\ rec'.shortfallCount > 0 => ScoreToTier(TenorScore') = FLOOR
    OBVIOUS
  <2>1. PICK short \in BOOLEAN : Liquidated(short)
    BY DEF Next, vars, Fails, Recovers, ChainScoreAnswers
  <2>2. /\ rec' \in Rec /\ rec \in Rec /\ rec'.lastLiquidatedAt = NOW
        /\ rec'.liquidationCount = rec.liquidationCount + 1 /\ rec'.shortfallCount >= rec.shortfallCount
    BY <2>1, EvaluationAssumption DEF EInv, Liquidated, Rec
  <2>3. Scores' = Scores
    BY <2>1 DEF Liquidated, Scores, Counted, Only, history, ChainHistory, FromHyperSync, FromAlchemy, BorrowedOn
  <2>4. MinimumRule(Scores) \in MIN_SCORE .. MAX_SCORE
    BY ScoredMeans, ScoresLeast
  <2> DEFINE m == MinimumRule(Scores)
  <2>5. /\ TenorScore = ApplyTenorPolicy(m, rec, NOW, WINDOW)
        /\ TenorScore' = ApplyTenorPolicy(m, rec', NOW, WINDOW)
    BY <2>3, TenorScoreIs DEF TenorScore, Scores
  <2> HIDE DEF m
  <2>6. /\ TenorScore' \in Int /\ TenorScore' <= TenorScore /\ TenorScore' < B_MIN
        /\ rec'.shortfallCount > 0 => TenorScore' < D_MIN
    BY <2>2, <2>4, <2>5, PenaltyOfOneMore DEF m
  <2> DEFINE score == TenorScore'
  <2>7. score \in Int /\ score < B_MIN /\ (rec'.shortfallCount > 0 => score < D_MIN)
    BY <2>6
  <2> HIDE DEF score
  <2>8. ScoreToTier(score) \in {"C", "D", FLOOR} /\ (score < D_MIN => ScoreToTier(score) = FLOOR)
    BY <2>7 DEF ScoreToTier, A_MIN, B_MIN, C_MIN, D_MIN
  <2>9. Rank[ScoreToTier(score)] <= Rank["C"]
    BY <2>8 DEF Rank, Tier, FLOOR
  <2> QED BY <2>6, <2>7, <2>8, <2>9 DEF score
<1> QED BY <1>1, Invariant, PTL DEF Spec, LiquidationNeverHelps

----------------------------------------------------------------------------
(* An outage.                                                                 *)

\* A chain that is clean by what is left to ask was clean before the outage: the
\* fallback says so only where it missed nothing, or silently missed it before too.
LEMMA CleanBefore ==
    ASSUME EInv, NEW c \in Chain, down \subseteq down', borrowed' = borrowed, Excluded(history', c),
           Overlooked(c)' => Overlooked(c)
    PROVE  Excluded(history, c)
<1>1. history[c] = ChainHistory(c) /\ history'[c] = ChainHistory(c)'
  BY DEF history
<1>2. CASE <<"hypersync", c>> \notin down'
  <2>1. ChainHistory(c)' = FromHyperSync(c)' /\ ChainHistory(c) = FromHyperSync(c)
    BY <1>2, Zenon DEF ChainHistory
  <2>2. FromHyperSync(c)' = FromHyperSync(c)
    BY DEF FromHyperSync, BorrowedOn
  <2> QED BY <1>1, <2>1, <2>2 DEF Excluded
<1>3. CASE <<"hypersync", c>> \in down' /\ c \in FallbackChain /\ <<"alchemy", c>> \notin down'
  <2>1. ChainHistory(c)' = FromAlchemy(c)'
    BY <1>3, Zenon DEF ChainHistory
  <2>2. FromAlchemy(c)' = FromAlchemy(c)
    BY DEF FromAlchemy
  <2>3. ~FromAlchemy(c).borrows /\ ~FromAlchemy(c).gap
    BY <1>1, <2>1, <2>2 DEF Excluded
  <2>4. <<c, "variable">> \notin borrowed /\ c \notin CompoundChain
    BY <2>3 DEF FromAlchemy
  <2>5. CASE BorrowedOn(c)
    <3>1. <<"alchemy", c>> \in Source \ down'
      BY <1>3 DEF Source
    <3>2. Overlooked(c)'
      BY <1>3, <2>4, <2>5, <3>1, SilentGap DEF Overlooked, BorrowedOn, Source
    <3> QED BY <2>5, <3>2, Reports
  <2>6. CASE ~BorrowedOn(c) /\ <<"hypersync", c>> \notin down
    <3>1. history[c] = FromHyperSync(c)
      BY <1>1, <2>6, Zenon DEF ChainHistory
    <3> QED BY <2>6, <3>1 DEF FromHyperSync, Excluded
  <2>7. CASE <<"hypersync", c>> \in down
    <3>1. history[c] = FromAlchemy(c)
      BY <1>1, <1>3, <2>7, Zenon DEF ChainHistory
    <3>2. FromAlchemy(c).ok
      BY DEF FromAlchemy
    <3> QED BY <2>3, <3>1, <3>2 DEF Excluded
  <2> QED BY <2>5, <2>6, <2>7
<1>4. CASE <<"hypersync", c>> \in down' /\ ~(c \in FallbackChain /\ <<"alchemy", c>> \notin down')
  <2>1. ChainHistory(c)' = NoAnswer
    BY <1>4, Zenon DEF ChainHistory, NoAnswer
  <2> QED BY <1>1, <2>1 DEF NoAnswer, Excluded
<1> QED BY <1>2, <1>3, <1>4

\* What was counted before an outage still is: ChainScore is believed where it sees
\* borrowing, whether or not a source confirms it.
LEMMA StillCounted ==
    ASSUME EInv, down \subseteq down', UNCHANGED <<borrowed, upstream>>,
           \A d \in Scoreable : BorrowedOn(d) => SeesBorrowing(upstream[d]),
           \A d \in Chain : Overlooked(d)' => Overlooked(d),
           NEW c \in Counted
    PROVE  c \in Counted'
<1>1. c \in Scoreable /\ c \in Chain /\ ~Excluded(history, c)
  BY UpstreamType DEF Counted, ToScore
<1>2. ~LeftOut(upstream[c], Only(c)) /\ ValidateChain(upstream[c], Only(c), NOW)
  BY DEF Counted
<1>3. SeesBorrowing(upstream[c])
  <2>1. CASE BorrowedOn(c)
    BY <1>1, <2>1
  <2>2. CASE ~BorrowedOn(c)
    <3>1. Only(c)
      BY <1>1, <2>2, Reports DEF Only, ChainScoreOnly
    <3> QED BY <1>2, <3>1 DEF LeftOut, ValidateChain
  <2> QED BY <2>1, <2>2
<1>4. ~Excluded(history', c)
  BY <1>1, CleanBefore
<1>5. ~LeftOut(upstream'[c], Only(c)') /\ ValidateChain(upstream'[c], Only(c)', NOW)
  BY <1>2, <1>3 DEF LeftOut, ValidateChain, SeesBorrowing
<1> QED BY <1>1, <1>4, <1>5 DEF Counted, ToScore

\* The outage of a source never buys a better score, whichever source it is and whatever
\* the others answer (service.ts), unless it drops a chain into the fallback's silent gap
\* for loans at a stable rate (history.ts).
THEOREM OutagesDoNotHelp == Spec => OutageNeverHelps
<1> DEFINE NoBetter == (/\ \E s \in Source \ down : down' = down \cup {s}
                        /\ Result = "SCORED" /\ Result' = "SCORED"
                        /\ \A c \in Scoreable : BorrowedOn(c) => SeesBorrowing(upstream[c])
                        /\ \A c \in Chain : Overlooked(c)' => Overlooked(c))
                       => TenorScore' <= TenorScore
<1>1. EInv /\ [Next]_vars => NoBetter
  <2> SUFFICES ASSUME EInv, [Next]_vars, NEW s \in Source \ down, down' = down \cup {s},
                      Result = "SCORED",
                      \A c \in Scoreable : BorrowedOn(c) => SeesBorrowing(upstream[c]),
                      \A c \in Chain : Overlooked(c)' => Overlooked(c)
               PROVE  TenorScore' <= TenorScore
    OBVIOUS
  <2>1. down \subseteq down' /\ UNCHANGED <<borrowed, upstream, rec>>
    BY DEF Next, vars, Fails, Recovers, ChainScoreAnswers, Liquidated
  <2>2. Counted # {} /\ rec \in Rec
    BY ScoredMeans DEF EInv
  <2>3. \A c \in Counted : c \in Counted'
    BY <2>1, StillCounted
  <2>4. Scores # {} /\ Scores \subseteq Scores'
    BY <2>1, <2>2, <2>3 DEF Scores
  <2>5. ASSUME NEW c \in Counted' PROVE upstream'[c].score \in MIN_SCORE .. MAX_SCORE
    <3>1. c \in Scoreable /\ ScoreInRange(upstream[c].score)
      BY <2>1, <2>5 DEF Counted, ToScore, ValidateChain
    <3>2. upstream[c].score \in Int
      BY <3>1, UpstreamType DEF ChainScoreAnswer
    <3> QED BY <2>1, <3>1, <3>2 DEF ScoreInRange, MIN_SCORE, MAX_SCORE
  <2>6. Scores' \subseteq MIN_SCORE .. MAX_SCORE
    BY <2>5 DEF Scores
  <2> DEFINE all == Scores'  m == MinimumRule(Scores)  n == MinimumRule(all)
  <2>7. all \subseteq MIN_SCORE .. MAX_SCORE /\ all # {} /\ Scores \subseteq all
    BY <2>4, <2>6
  <2> HIDE DEF all
  <2>8. m \in Scores /\ n \in all /\ \A x \in all : n <= x
    BY <2>2, <2>7, ScoresLeast, LeastScore DEF MinimumRule
  <2>9. /\ TenorScore = ApplyTenorPolicy(m, rec, NOW, WINDOW)
         /\ TenorScore' = ApplyTenorPolicy(n, rec, NOW, WINDOW)
    BY <2>1, TenorScoreIs DEF TenorScore, Scores, all
  <2> HIDE DEF m, n
  <2>10. m \in Int /\ n \in Int /\ n <= m
    BY <2>7, <2>8 DEF MIN_SCORE, MAX_SCORE
  <2> QED BY <2>2, <2>9, <2>10, PolicyIsMonotone
<1> QED BY <1>1, Invariant, PTL DEF Spec, OutageNeverHelps
=============================================================================
