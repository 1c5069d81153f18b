------------------------------ MODULE Indexer ------------------------------
(***************************************************************************)
(* indexer/: the history that Envio HyperIndex keeps of the two contracts, *)
(* and the activity page that reads it.                                    *)
(*                                                                         *)
(* A transaction's logs reach the handlers in the order it emitted them,   *)
(* after those of every earlier transaction.  A handler reads the log and  *)
(* the tables, never the chain, so how far behind the chain the index runs *)
(* changes nothing in the tables: they are a function of the logs handled. *)
(* Hence the tables here move in the step of the transaction, and what is  *)
(* said of them holds, in the program, of the block the index has reached. *)
(*                                                                         *)
(* A log carries the kind of the timeline row (WalletEvent) its handler    *)
(* writes, and the row holds the log's fields.                             *)
(***************************************************************************)
EXTENDS Tenor, SequencesExt

CONSTANT MaxRows   \* bound: rows in a wallet's timeline

VARIABLES
    wallets,      \* Wallet
    totals,       \* MarketTotals
    timeline,     \* WalletEvent, by wallet, in the order of block and log index
    settled,      \* LiquidationEvent
    halted        \* a handler has thrown: the index goes no further

tables == <<wallets, totals, timeline, settled, halted>>

\* undefined is 0, which neither a score nor a block timestamp can be.
newWallet ==
    [attestationCount |-> 0, latestScore |-> 0, latestScoreIssuedAt |-> 0,
     latestScoreExpiresAt |-> 0, borrowCount |-> 0, liquidationCount |-> 0,
     shortfallCount |-> 0, totalShortfall |-> 0, lastLiquidatedAt |-> 0]

newTotals ==
    [lenderDeposits |-> 0, lenderWithdrawals |-> 0, borrowVolume |-> 0, repayVolume |-> 0,
     borrowCount |-> 0, liquidationCount |-> 0, liquidationsWithShortfall |-> 0,
     badDebt |-> 0, badDebtFromReserves |-> 0, badDebtSocialized |-> 0,
     interestAccrued |-> 0, toReserves |-> 0, attestationCount |-> 0, lastBorrowIndex |-> 0]

IndexInit ==
    /\ Init
    /\ wallets = [w \in Wallet |-> newWallet]
    /\ totals = newTotals
    /\ timeline = [w \in Wallet |-> <<>>]
    /\ settled = <<>>
    /\ halted = FALSE

----------------------------------------------------------------------------
(* The logs of a transaction, in order.  An operator named Mutant... is a     *)
(* plausible slip in the operator after it; no specification uses it.         *)

\* _accrue says nothing when no interest is due.
Accrued ==
    IF M!Interest = 0 THEN <<>>
    ELSE <<[kind |-> "INTEREST", borrowIndex |-> M!Index, interest |-> M!Interest,
            toReserves |-> M!Reserves - reserves]>>

\* _retier, on a position without debt too.
Retiered(w) ==
    IF R!EffectiveTier(w) = tier[w] THEN <<>>
    ELSE <<[kind |-> "RETIERED", wallet |-> w, tier |-> R!EffectiveTier(w)]>>

Moved(kind, w, amount) == <<[kind |-> kind, wallet |-> w, amount |-> amount]>>

Attested(a) ==
    <<[kind |-> "ATTESTED", wallet |-> a.wallet, score |-> a.score,
       issuedAt |-> a.issuedAt, expiresAt |-> a.expiresAt]>>

Borrowed(w, amount) ==
    <<[kind |-> "BORROWED", wallet |-> w, amount |-> amount, tier |-> R!EffectiveTier(w),
       price |-> M!Price("coll")]>>

BadDebt(w, shortfall) ==
    IF shortfall = 0 THEN <<>>
    ELSE <<[kind |-> "BAD_DEBT", wallet |-> w, amount |-> shortfall,
            fromReserves |-> M!FromReserves(shortfall), socialized |-> M!Socialized(shortfall)]>>

Liquidated(w, maxRepay) ==
    <<[kind |-> "LIQUIDATED", wallet |-> w, amount |-> M!Repaid(w, maxRepay),
       seized |-> M!Seized(w, maxRepay), shortfall |-> M!Shortfall(w, maxRepay)]>>

\* The registry's log carries its record of the wallet as the call has left it.
Recorded(w) == <<[kind |-> "LIQUIDATION_RECORDED", wallet |-> w, record |-> liquidations'[w]]>>

MutantRecordedInside(w, maxRepay) ==
    Accrued \o BadDebt(w, M!Shortfall(w, maxRepay)) \o Recorded(w) \o Liquidated(w, maxRepay)
LiquidationLogs(w, maxRepay) ==
    Accrued \o BadDebt(w, M!Shortfall(w, maxRepay)) \o Liquidated(w, maxRepay) \o Recorded(w)

----------------------------------------------------------------------------
(* The handlers.  They are given the tables `db` and a log; db.row is the row *)
(* that the log just before this one wrote, the one the join looks up.        *)

NoRow == [kind |-> "NONE"]

AsDb == [wallets |-> wallets, totals |-> totals, timeline |-> timeline, settled |-> settled,
         halted |-> halted, row |-> NoRow]

WriteRow(db, e) == [db EXCEPT !.timeline[e.wallet] = Append(@, e), !.row = e]

OnAttested(db, e) ==
    [db EXCEPT !.wallets[e.wallet].attestationCount = @ + 1,
               !.wallets[e.wallet].latestScore = e.score,
               !.wallets[e.wallet].latestScoreIssuedAt = e.issuedAt,
               !.wallets[e.wallet].latestScoreExpiresAt = e.expiresAt,
               !.totals.attestationCount = @ + 1]

MutantCounted(db, e) ==
    [db EXCEPT !.wallets[e.wallet].liquidationCount = @ + 1,
               !.wallets[e.wallet].shortfallCount = @ + 1,
               !.wallets[e.wallet].totalShortfall = @ + e.record.totalShortfall,
               !.wallets[e.wallet].lastLiquidatedAt = e.record.lastLiquidatedAt]
\* The counts come from the log, not from the row before it.
OnLiquidationRecorded(db, e) ==
    [db EXCEPT !.wallets[e.wallet].liquidationCount = e.record.liquidationCount,
               !.wallets[e.wallet].shortfallCount = e.record.shortfallCount,
               !.wallets[e.wallet].totalShortfall = e.record.totalShortfall,
               !.wallets[e.wallet].lastLiquidatedAt = e.record.lastLiquidatedAt]

OnBorrowed(db, e) ==
    [db EXCEPT !.wallets[e.wallet].borrowCount = @ + 1,
               !.totals.borrowVolume = @ + e.amount, !.totals.borrowCount = @ + 1]

OnBadDebt(db, e) ==
    [db EXCEPT !.totals.badDebt = @ + e.amount,
               !.totals.badDebtFromReserves = @ + e.fromReserves,
               !.totals.badDebtSocialized = @ + e.socialized]

OnInterestAccrued(db, e) ==
    [db EXCEPT !.totals.interestAccrued = @ + e.interest,
               !.totals.toReserves = @ + e.toReserves,
               !.totals.lastBorrowIndex = e.borrowIndex]

\* The BadDebtRealized log that must come just before a liquidation with a shortfall.
Joined(db, e) == e.shortfall > 0 => db.row.kind = "BAD_DEBT" /\ db.row.wallet = e.wallet

Settlement(db, e) ==
    [wallet |-> e.wallet, repaid |-> e.amount, seized |-> e.seized, shortfall |-> e.shortfall,
     fromReserves |-> IF e.shortfall > 0 THEN db.row.fromReserves ELSE 0,
     socialized |-> IF e.shortfall > 0 THEN db.row.socialized ELSE 0]

OnLiquidated(db, e) ==
    IF Joined(db, e)
    THEN [db EXCEPT !.settled = Append(@, Settlement(db, e)),
                    !.totals.liquidationCount = @ + 1,
                    !.totals.liquidationsWithShortfall = @ + (IF e.shortfall > 0 THEN 1 ELSE 0)]
    ELSE [db EXCEPT !.halted = TRUE]

Counted(db, e) ==
    CASE e.kind = "ATTESTED" -> OnAttested(db, e)
      [] e.kind = "LIQUIDATION_RECORDED" -> OnLiquidationRecorded(db, e)
      [] e.kind = "BORROWED" -> OnBorrowed(db, e)
      [] e.kind = "BAD_DEBT" -> OnBadDebt(db, e)
      [] e.kind = "LIQUIDATED" -> OnLiquidated(db, e)
      [] e.kind = "REPAID" -> [db EXCEPT !.totals.repayVolume = @ + e.amount]
      [] e.kind = "DEPOSIT" -> [db EXCEPT !.totals.lenderDeposits = @ + e.amount]
      [] e.kind = "WITHDRAW" -> [db EXCEPT !.totals.lenderWithdrawals = @ + e.amount]
      [] e.kind = "INTEREST" -> OnInterestAccrued(db, e)
      [] OTHER -> db

Rowless == {"DEPOSIT", "WITHDRAW", "INTEREST"}

Handle(db, e) ==
    IF db.halted THEN db
    ELSE LET counted == Counted(db, e)
         IN  IF counted.halted THEN counted
             ELSE IF e.kind \in Rowless THEN [counted EXCEPT !.row = NoRow]
             ELSE WriteRow(counted, e)

\* The tables once the logs of this transaction are handled.
Emit(logs) ==
    LET db == FoldLeft(Handle, AsDb, logs)
    IN  /\ \A w \in Wallet : Len(db.timeline[w]) <= MaxRows
        /\ wallets' = db.wallets /\ totals' = db.totals /\ timeline' = db.timeline
        /\ settled' = db.settled /\ halted' = db.halted

----------------------------------------------------------------------------
(* The contracts' transactions, each with its logs.  Administration emits     *)
(* nothing that config.yaml subscribes to.                                    *)

Repriced(w) == IF scaledDebt[w] > 0 THEN Retiered(w) ELSE <<>>

MutantRepaidAsAsked(w, x) == x
RepaidOf(w, x) == M!Lesser(x, M!Debt(w))

OfLenders(l, x) ==
    \/ Deposit(l, x) /\ Emit(Accrued \o <<[kind |-> "DEPOSIT", amount |-> x]>>)
    \/ Withdraw(l, x) /\ Emit(Accrued \o <<[kind |-> "WITHDRAW", amount |-> x]>>)

OfCollateral(w, x) ==
    \/ DepositCollateral(w, x) /\ Emit(Moved("COLLATERAL_IN", w, x))
    \/ WithdrawCollateral(w, x) /\ Emit(Accrued \o Repriced(w) \o Moved("COLLATERAL_OUT", w, x))

OfDebt(w, x) ==
    \/ Repay(w, x) /\ Emit(Accrued \o Moved("REPAID", w, RepaidOf(w, x)))
    \/ Liquidate(w, x) /\ Emit(LiquidationLogs(w, x))

IndexedNext ==
    \/ \E a \in Payload, k \in Signer : SubmitAttestation(a, k) /\ Emit(Attested(a))
    \/ \E l \in Lender, x \in AssetInput : OfLenders(l, x)
    \/ \E w \in Wallet, x \in CollateralInput : OfCollateral(w, x)
    \/ \E w \in Wallet, x \in Amount :
         Borrow(w, x) /\ Emit(Accrued \o Retiered(w) \o Borrowed(w, x))
    \/ \E w \in Wallet : \E x \in M!RepayInput(w) : OfDebt(w, x)
    \/ Administration /\ UNCHANGED tables

IndexedSpec == IndexInit /\ [][IndexedNext]_<<vars, tables>>

----------------------------------------------------------------------------
(* What the activity page works out of a timeline. *)

IndexOfKind(rows, kind) ==
    LET at == {i \in 1 .. Len(rows) : rows[i].kind = kind}
    IN  IF at = {} THEN 0 ELSE CHOOSE i \in at : \A j \in at : i <= j

MutantDepositsOnly(rows) ==
    FoldLeft(LAMBDA n, r : IF r.kind = "COLLATERAL_IN" THEN n + r.amount ELSE n, 0, rows)
netCollateral(rows) ==
    LET signed(r) == IF r.kind = "COLLATERAL_IN" THEN r.amount
                     ELSE IF r.kind = "COLLATERAL_OUT" THEN - r.amount ELSE 0
    IN  FoldLeft(LAMBDA n, r : n + signed(r), 0, rows)

\* The rows before the wallet's first liquidation, and those from it on.
LiqIdx(w) == IndexOfKind(timeline[w], "LIQUIDATED")
RowsBefore(w) == SubSeq(timeline[w], 1, LiqIdx(w) - 1)
RowsFrom(w) == SubSeq(timeline[w], LiqIdx(w), Len(timeline[w]))

\* LoopStrip is shown with the first score after the liquidation, if there is one.
NewScore(w) == IndexOfKind(RowsFrom(w), "ATTESTED")

----------------------------------------------------------------------------
(* Properties. *)

\* The liquidations settled, a wallet's, what each repaid and what each left unpaid.
Settlements == DOMAIN settled
SettledOf(w) == {i \in Settlements : settled[i].wallet = w}
repaidBy == [i \in Settlements |-> settled[i].repaid]
unpaidBy == [i \in Settlements |-> settled[i].fromReserves + settled[i].socialized]

\* The handler's "Liquidated has shortfall but no BadDebtRealized just before it"
\* is never thrown: whatever interest or re-tiering a liquidation logs with it, the
\* two logs stay next to each other (TenorMarket.ts, onEvent Liquidated).
JoinNeverThrows == ~halted

\* The totals are the market's own books, read back from its logs: the losses and
\* who bore them, the reserves and, to the unit, the cash in the pool.  The index they
\* hold is one the market has had: an accrual whose interest rounds to nothing moves the
\* market's and logs nothing (_accrue).
TotalsMatchTheMarket ==
    /\ <<totals.badDebt, totals.badDebtFromReserves, totals.badDebtSocialized>>
         = <<totalBadDebt, totalReserveDrawn, totalSocializedLoss>>
    /\ totals.toReserves - totals.badDebtFromReserves = reserves
    /\ totals.lastBorrowIndex <= borrowIndex
    /\ cash = totals.lenderDeposits - totals.lenderWithdrawals - totals.borrowVolume
              + totals.repayVolume + SumFunctionOnSet(repaidBy, Settlements)

\* Every wallet's row is the registry's record of it, and the liquidations the market
\* logged are those the registry counted, shortfall for shortfall.
WalletsMatchTheRegistry ==
    /\ \A w \in Wallet :
         /\ wallets[w].attestationCount = nonces[w]
         /\ <<wallets[w].latestScore, wallets[w].latestScoreIssuedAt, wallets[w].latestScoreExpiresAt>>
              = <<scores[w].score, scores[w].issuedAt, scores[w].expiresAt>>
         /\ \A f \in DOMAIN liquidations[w] : wallets[w][f] = liquidations[w][f]
    /\ Len(settled) = totals.liquidationCount
    /\ \A w \in Wallet :
         /\ Cardinality(SettledOf(w)) = wallets[w].liquidationCount
         /\ SumFunctionOnSet(unpaidBy, SettledOf(w)) = wallets[w].totalShortfall

\* Registry, market and index keep one set of books, through liquidations that leave
\* bad debt, lapsed scores and a registry that does not know the market.
BooksAgree == JoinNeverThrows /\ TotalsMatchTheMarket /\ WalletsMatchTheRegistry /\ ShortfallsAddUp

\* "The collateral the wallet held going into the liquidation" (activity page) is
\* that, and the score shown as the new one was issued after the liquidation.
LoopIsTrue ==
    [][\A w \in Wallet :
         LiqIdx(w)' > 0 =>
           /\ LiqIdx(w) = 0 => netCollateral(RowsBefore(w)') = collateral[w]
           /\ NewScore(w)' > 0 /\ NewScore(w) = 0 =>
                Last(timeline'[w]).issuedAt > liquidations[w].lastLiquidatedAt]_<<vars, tables>>
=============================================================================
