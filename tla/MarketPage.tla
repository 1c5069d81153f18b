---------------------------- MODULE MarketPage ----------------------------
(***************************************************************************)
(* The web application as a borrower uses it (apps/web/src: the Actions    *)
(* panel of market/page.tsx, TxFlow.tsx, AttestPanel.tsx, useTenorState.ts *)
(* and the arithmetic of compare/page.tsx) over the market it reads and    *)
(* sends to, and over the two test tokens as far as the market moves them. *)
(*                                                                         *)
(* A page computes what it offers from a snapshot of the chain, polled and *)
(* soon out of date; what is signed is simulated, sent, mined and awaited  *)
(* while time passes, the user goes on clicking and the snapshot changes.  *)
(*                                                                         *)
(* One panel is open at a time: on the market page one for each action, or *)
(* that of the Score page.  A panel is left with nothing under way or with *)
(* a transaction sent, and one such flow is followed at a time.  What a    *)
(* review shows changes with the snapshot until it is signed, so a click   *)
(* on it is not told apart from a click on the button that opens it.       *)
(* The page polls every 4 s: it misses at most one change of the chain.     *)
(* Prices go stale but do not change.  An operator named Mutant... is a    *)
(* plausible slip in the operator after it.                                *)
(***************************************************************************)
EXTENDS TenorMarket

CONSTANTS
    User,           \* the connected wallet
    Typed,          \* the amounts the user types
    SLACK,          \* the 10 minutes of headroom
    DUST,           \* 10 ** 12
    APPROVE_DIV,    \* 1000: an approval for a full repayment covers debt / 1000 more
    Funds,          \* what the user holds of each token at the start
    Positions,      \* the positions the user may have at the start
    MaxSigned       \* bound on the transactions signed

ASSUME PageAssumption ==
    /\ User \in Borrower /\ Typed \subseteq Nat \ {0}
    /\ SLACK \in Nat /\ {DUST, APPROVE_DIV} \subseteq Nat \ {0} /\ Funds \in [Asset -> Nat]
    /\ Positions \subseteq [collateral : Nat, debt : 0 .. MaxCash] /\ MaxSigned \in Nat

VARIABLES
    balance, allowance,   \* of the user, per token; allowance to the market
    snap,                 \* TenorState: the chain as of the last poll
    tab,                  \* the action of the market page, or "score"
    input,                \* the amount typed; 0 is an empty or unreadable input
    flow,                 \* the TxFlow (or AttestPanel) of the open panel
    aside,                \* a flow, or only its transaction, that goes on unseen
    granted,              \* history: an approval of this input was mined last, and seen
    spent,                \* history: this input was executed
    unsure,               \* history: the receipt of a transaction of this input timed out
    signed                \* history: the transactions signed so far

tokens == <<balance, allowance>>
past == <<granted, spent, unsure>>
panel == <<tab, input, flow, aside, past, signed>>
pageVars == <<vars, tokens, snap, panel>>

Tab == {"deposit", "borrow", "repay", "withdraw", "score"}
MaxUint == -1                        \* type(uint256).max, to repay all there is
NoSpec == [fn |-> "none", token |-> "coll", amount |-> 0]
Approve(token, x) == [fn |-> "approve", token |-> token, amount |-> x]
Call(fn, token, x) == [fn |-> fn, token |-> token, amount |-> x]
OfInput(s) == s.fn \notin {"approve", "submitAttestation"}

\* stage: "ready" for a click, "request" for the service's answer, "sign" from the
\* simulation to the wallet's answer, or "wait" for a receipt; tx: what became of the
\* transaction; same: the input has not been touched since it was signed; home:
\* the panel's page is still there.
NewFlow == [stage |-> "ready", spec |-> NoSpec, tx |-> "none", same |-> TRUE, home |-> TRUE]
Busy(f) == f.stage # "ready"

----------------------------------------------------------------------------
(* useTenorState: one multicall.  maxBorrow fails on a stale price.            *)

View ==
    [paused |-> paused, rate |-> Rate, collateral |-> collateral[User], debt |-> Debt(User),
     tier |-> effective[User], price |-> Price("coll"), priced |-> PricesFresh,
     max |-> IF PricesFresh THEN MaxBorrow(User) ELSE 0,
     balance |-> balance, allowance |-> allowance]

\* 10 minutes of interest on the debt there is.
MutantNoHeadroom(v) == 0
Headroom(v) ==
    IF v.debt > 0 THEN MulDiv(v.debt, v.rate * SLACK, BPS * SECONDS_PER_YEAR) + DUST ELSE 0

\* What the Max and All buttons type.
MaxInput(v) ==
    LET safeMax == IF v.max > Headroom(v) THEN v.max - Headroom(v) ELSE 0
    IN  (safeMax \div DUST) * DUST
MutantAllOwedNow(v) == (v.debt \div DUST) * DUST
AllInput(v) == ((v.debt + Headroom(v)) \div DUST + 1) * DUST

\* "Health factor as the contract computes it": the debt asset is taken at its par.
ProjectedHf(coll, debt, price, lt) == (MulDiv(coll, price, WAD) * lt * WAD) \div (BPS * debt)

\* compare/page.tsx: what a tier's terms would let the collateral borrow.
MutantCapIgnored(t, coll, price) == MulDiv(MulDiv(coll, price, WAD), MaxLtv[t], BPS)
Terms(t, coll, price) == Lesser(MulDiv(MulDiv(coll, price, WAD), MaxLtv[t], BPS), WalletCap[t])

----------------------------------------------------------------------------
(* What the panel of an action offers for an amount; NoSpec where it tells     *)
(* the user what is in the way.                                               *)

MutantApprovesWhatIsThere(v, x) ==
    IF x > v.balance["coll"] THEN NoSpec
    ELSE IF v.allowance["coll"] < x THEN Approve("coll", v.allowance["coll"])
    ELSE Call("depositCollateral", "coll", x)
OfferDeposit(v, x) ==
    CASE x > v.balance["coll"] -> NoSpec
      [] x <= v.balance["coll"] /\ v.allowance["coll"] < x -> Approve("coll", x)
      [] OTHER -> Call("depositCollateral", "coll", x)

MutantOffersAnyBorrow(v, x) == IF v.paused \/ ~v.priced THEN NoSpec ELSE Call("borrow", "debt", x)
OfferBorrow(v, x) ==
    IF v.paused \/ ~v.priced \/ x > v.max THEN NoSpec ELSE Call("borrow", "debt", x)

OfferRepay(v, x) ==
    LET full == x >= v.debt
        need == IF full THEN v.debt + v.debt \div APPROVE_DIV + 1 ELSE x
    IN  CASE v.debt = 0 \/ v.balance["debt"] < Lesser(x, v.debt) -> NoSpec
          [] v.debt > 0 /\ v.balance["debt"] >= Lesser(x, v.debt) /\ v.allowance["debt"] < need ->
               Approve("debt", need)
          [] OTHER -> Call("repay", "debt", IF full THEN MaxUint ELSE x)

OfferWithdraw(v, x) ==
    IF \/ x > v.collateral
       \/ v.debt > 0 /\ ProjectedHf(v.collateral - x, v.debt, v.price, LiquidationThreshold(MaxLtv)[v.tier]) < WAD
    THEN NoSpec ELSE Call("withdrawCollateral", "coll", x)

Offer(v, t, x) ==
    CASE x = 0 \/ t = "score" -> NoSpec
      [] x # 0 /\ t = "deposit" -> OfferDeposit(v, x)
      [] x # 0 /\ t = "borrow" -> OfferBorrow(v, x)
      [] x # 0 /\ t = "repay" -> OfferRepay(v, x)
      [] x # 0 /\ t = "withdraw" -> OfferWithdraw(v, x)

Offered == Offer(snap, tab, input)

----------------------------------------------------------------------------
(* The chain: what a call would revert on, and what it does.                  *)

Holds(token, x) == balance[token] >= x /\ allowance[token] >= x
Due(x) == IF x = MaxUint THEN Debt(User) ELSE Lesser(x, Debt(User))
Paid(x) == IF x = MaxUint THEN Debt(User) ELSE x

\* simulateContract on the state of now.  The registry's answer to an attestation is
\* not ours to know.
Accepts(s) ==
    \/ s.fn \in {"approve", "submitAttestation"}
    \/ s.fn = "depositCollateral" /\ Holds("coll", s.amount)
    \/ s.fn = "borrow" /\ WhenNotPaused /\ CanBorrow(User, s.amount)
    \/ /\ s.fn = "repay" /\ Debt(User) > 0
       /\ Reduction(User, Paid(s.amount)) > 0 /\ Holds("debt", Due(s.amount))
    \/ /\ s.fn = "withdrawCollateral" /\ s.amount <= collateral[User]
       /\ scaledDebt[User] > 0 =>
            EnforceTerms(collateral[User] - s.amount, Debt(User), effective[User],
                         DebtFromScaled(Rebucketed(User)[effective[User]], Index))

Move(token, x, spends) ==
    /\ balance' = [balance EXCEPT ![token] = @ + x]
    /\ allowance' = IF spends THEN [allowance EXCEPT ![token] = @ + x] ELSE allowance

Execute(s) ==
    \/ /\ s.fn = "approve"
       /\ allowance' = [allowance EXCEPT ![s.token] = s.amount]
       /\ UNCHANGED <<vars, balance>>
    \/ /\ s.fn = "submitAttestation"
       /\ \E t \in TierInput : Rescore(User, t)
       /\ UNCHANGED tokens
    \/ /\ s.fn = "depositCollateral" /\ Holds("coll", s.amount)
       /\ DepositCollateral(User, s.amount) /\ Move("coll", -s.amount, TRUE) /\ UNCHANGED env
    \/ /\ s.fn = "borrow"
       /\ Borrow(User, s.amount) /\ Move("debt", s.amount, FALSE) /\ UNCHANGED env
    \/ /\ s.fn = "repay" /\ Holds("debt", Due(s.amount))
       /\ Repay(User, Paid(s.amount)) /\ Move("debt", -Due(s.amount), TRUE) /\ UNCHANGED env
    \/ /\ s.fn = "withdrawCollateral"
       /\ WithdrawCollateral(User, s.amount) /\ Move("coll", s.amount, FALSE) /\ UNCHANGED env

MutantAnyReceipt(f) == f.stage = "wait" /\ f.tx # "pending"
\* assertSuccess: mined but reverted is a failure.
Succeeded(f) == f.stage = "wait" /\ f.tx = "success"

\* onDone: "After an approval the same amount carries on to the real action."
MutantDoneKeeps(f) == input
Done(f) == IF OfInput(f.spec) THEN 0 ELSE input

\* A transaction is mined, and may have reverted: of the state it met, or out of gas.
Mined(f, g) ==
    /\ f.tx = "pending" /\ snap = View
    /\ \/ g = [f EXCEPT !.tx = "success"] /\ Execute(f.spec)
       \/ g = [f EXCEPT !.tx = "reverted"] /\ UNCHANGED <<vars, tokens>>

MineFlow ==
    /\ Mined(flow, flow')
    /\ IF flow'.tx = "success"
       THEN /\ spent' = (spent \/ (flow.same /\ OfInput(flow.spec)))
            /\ granted' = IF flow.same /\ flow.spec.fn = "approve" THEN "mined" ELSE "no"
       ELSE UNCHANGED <<granted, spent>>
    /\ UNCHANGED <<snap, tab, input, aside, unsure, signed>>

\* Of the one on its own only its end is left, where somebody awaits it.
MineAside ==
    /\ \E f \in {[aside EXCEPT !.tx = "success"], [aside EXCEPT !.tx = "reverted"]} :
         /\ Mined(aside, f)
         /\ aside' = IF Succeeded(f) /\ f.home THEN f ELSE NewFlow
         /\ granted' = IF f.tx = "success" THEN "no" ELSE granted
         /\ spent' = (spent \/ (f.tx = "success" /\ f.same /\ OfInput(f.spec)))
    /\ UNCHANGED <<snap, tab, input, flow, unsure, signed>>

----------------------------------------------------------------------------
(* The user.                                                                  *)

Untouched == UNCHANGED <<vars, tokens, snap, signed>>
Forget == granted' = "no" /\ spent' = FALSE /\ unsure' = FALSE

\* Another tab, or another page: the panel is unmounted, and what it awaits goes on.
Open(t) ==
    /\ t # tab
    /\ flow.stage = "ready" \/ (flow.stage = "wait" /\ aside = NewFlow)
    /\ tab' = t /\ input' = 0 /\ flow' = NewFlow
    /\ LET left == IF flow.stage = "wait" THEN flow ELSE aside
       IN  aside' = IF left = NewFlow THEN NewFlow
                    ELSE [left EXCEPT !.same = FALSE, !.home = @ /\ t # "score" /\ tab # "score"]
    /\ Forget
    /\ Untouched

Type(x) ==
    /\ tab # "score" /\ x # input
    /\ input' = x
    /\ flow' = [flow EXCEPT !.same = FALSE]
    /\ aside' = IF aside = NewFlow THEN aside ELSE [aside EXCEPT !.same = FALSE]
    /\ Forget
    /\ UNCHANGED tab /\ Untouched

PressMax == tab = "borrow" /\ MaxInput(snap) > 0 /\ Type(MaxInput(snap))
PressAll == tab = "repay" /\ snap.debt > 0 /\ Type(AllInput(snap))

\* TxFlow: what is signed is what the review shows, of the last snapshot.
Sign ==
    /\ tab # "score" /\ flow.stage = "ready" /\ Offered # NoSpec
    /\ flow' = [NewFlow EXCEPT !.stage = "sign", !.spec = Offered]
    /\ UNCHANGED <<tab, input, aside, past>> /\ Untouched

\* AttestPanel: ask the service for an attestation.
Request ==
    /\ tab = "score" /\ flow = NewFlow
    /\ flow' = [NewFlow EXCEPT !.stage = "request"]
    /\ UNCHANGED <<tab, input, aside, past>> /\ Untouched

\* It signed one, or refused, or holds that score on-chain already.
Answered ==
    /\ flow.stage = "request"
    /\ \/ flow' = [NewFlow EXCEPT !.spec = Call("submitAttestation", "coll", 0)]
       \/ flow' = NewFlow
    /\ UNCHANGED <<tab, input, aside, past>> /\ Untouched

Submit ==
    /\ tab = "score" /\ flow.stage = "ready" /\ flow.spec # NoSpec
    /\ flow' = [flow EXCEPT !.stage = "sign"]
    /\ UNCHANGED <<tab, input, aside, past>> /\ Untouched

----------------------------------------------------------------------------
(* The awaits of a send.                                                      *)

\* Simulate, estimate the gas and ask the wallet: the transaction is sent, or the
\* panel says why not and offers it again.
Sent ==
    /\ flow.stage = "sign"
    /\ \/ /\ Accepts(flow.spec) /\ signed < MaxSigned
          /\ flow' = [flow EXCEPT !.stage = "wait", !.tx = "pending"] /\ signed' = signed + 1
       \/ flow' = [flow EXCEPT !.stage = "ready"] /\ UNCHANGED signed
    /\ UNCHANGED <<vars, tokens, snap, tab, input, aside, past>>

Receive ==
    /\ flow.stage = "wait" /\ flow.tx # "pending"
    /\ IF Succeeded(flow)
       THEN flow' = NewFlow /\ input' = Done(flow)
       ELSE flow' = [flow EXCEPT !.stage = "ready", !.tx = "none"] /\ UNCHANGED input
    /\ UNCHANGED <<tab, aside, past>> /\ Untouched

\* The flow left behind ends: its onDone is that of the panel on screen.
ReceiveAside ==
    /\ aside.tx = "success"
    /\ aside' = NewFlow /\ input' = Done(aside)
    /\ UNCHANGED <<tab, flow, past>> /\ Untouched

\* waitForTransactionReceipt gives up; the transaction may still be mined.
TimeOut ==
    /\ flow.stage = "wait" /\ flow.tx = "pending" /\ aside = NewFlow
    /\ aside' = [flow EXCEPT !.stage = "ready", !.home = FALSE]
    /\ flow' = [flow EXCEPT !.stage = "ready", !.tx = "none"]
    /\ unsure' = TRUE
    /\ UNCHANGED <<tab, input, granted, spent>> /\ Untouched

----------------------------------------------------------------------------
(* The world.                                                                 *)

Poll ==
    /\ snap' = View
    /\ granted' = IF granted = "mined" THEN "seen" ELSE granted
    /\ UNCHANGED <<vars, tokens, tab, input, flow, aside, spent, unsure, signed>>

Elsewhere ==
    /\ snap = View
    /\ \/ \E W \in SUBSET {User} : Tick(W)
       \/ \E b \in BOOLEAN : SetPaused(b) /\ UNCHANGED env
    /\ UNCHANGED <<tokens, snap, panel>>

\* A lender's pool, prices of the day and a user with test tokens, and perhaps with a
\* position opened before.
PageInit ==
    /\ \E p \in Positions :
        /\ collateral = [w \in Borrower |-> IF w = User THEN p.collateral ELSE 0]
        /\ scaledDebt = [w \in Borrower |-> IF w = User THEN p.debt ELSE 0]
        /\ cash = MaxCash - p.debt
    /\ totalCollateral = collateral[User] /\ tier = [w \in Borrower |-> FLOOR]
    /\ totalScaledDebt = scaledDebt[User]
    /\ scaledDebtByTier = [t \in Tier |-> IF t = FLOOR THEN totalScaledDebt ELSE 0]
    /\ borrowIndex = RAY /\ lastAccrual = 1 /\ reserves = 0
    /\ totalBadDebt = 0 /\ totalReserveDrawn = 0 /\ totalSocializedLoss = 0
    /\ globalDebtCap = InitialCap /\ tierDebtCap = [t \in Tier |-> InitialCap]
    /\ shares = [l \in Lender |-> MaxCash * VIRTUAL_SHARES] /\ totalSupply = MaxCash * VIRTUAL_SHARES
    /\ paused = FALSE /\ now = 1
    /\ oracle \in [Asset -> {[price |-> WAD, updatedAt |-> 1]}]
    /\ effective = [w \in Borrower |-> FLOOR]
    /\ recorded = [w \in Borrower |-> [count |-> 0, shortfall |-> 0]]
    /\ entries = 1 /\ loans = 0
    /\ balance = Funds /\ allowance = [a \in Asset |-> 0]
    /\ snap = View
    /\ tab = "borrow" /\ input = 0 /\ flow = NewFlow /\ aside = NewFlow
    /\ granted = "no" /\ spent = FALSE /\ unsure = FALSE /\ signed = 0

PageNext ==
    \/ \E t \in Tab : Open(t)
    \/ \E x \in Typed : Type(x)
    \/ PressMax \/ PressAll \/ Sign \/ Request \/ Answered \/ Submit
    \/ Sent \/ MineFlow \/ Receive \/ TimeOut \/ MineAside \/ ReceiveAside
    \/ Poll \/ Elsewhere

PageSpec == PageInit /\ [][PageNext]_pageVars

----------------------------------------------------------------------------
(* Properties. *)

Later(k) == INSTANCE TenorMarket WITH now <- now + k

\* Nothing is offered that the contract refuses: on a snapshot of now, each deposit,
\* borrow, repayment and approval the page offers would go through.  (A withdrawal is
\* offered down to the liquidation threshold, and refused above the max LTV; and a
\* repayment in part is offered, and refused, where it takes off no unit of scaled debt.)
TakesNothingOff(x) == x < Debt(User) /\ x * RAY < Index
OfferedGoesThrough ==
    \A t \in Tab \ {"withdraw"}, x \in Typed \cup {1, MaxInput(View), AllInput(View)} :
        LET s == Offer(View, t, x)
        IN  s # NoSpec /\ ~(s.fn = "repay" /\ TakesNothingOff(x)) => Accepts(s)

\* "So it still fits when the transaction lands" (market/page.tsx): what Max types can
\* be borrowed for as long as the headroom lasts, while prices are fresh; and what All
\* types still covers the debt.
MaxStillFits ==
    \A k \in 0 .. SLACK :
        ~paused /\ Later(k)!PricesFresh /\ PricesFresh /\ MaxInput(View) > 0
            => Later(k)!CanBorrow(User, MaxInput(View))
AllStaysFull ==
    \A k \in 0 .. SLACK : Debt(User) > 0 => AllInput(View) >= Later(k)!Debt(User)
HeadroomLasts == MaxStillFits /\ AllStaysFull

\* "Same arithmetic as TenorMarket" (compare/page.tsx), with the debt asset at par: a
\* position of that much debt keeps the tier's terms, and one of a unit more does not.
ComparesAsTheMarket ==
    PricesFresh => \A t \in Tier, coll \in CollateralInput :
        LET most == Terms(t, coll, Price("coll")) IN
        EnforceTerms(coll, most, t, 0) /\ ~EnforceTerms(coll, most + 1, t, 0)

\* The page reckons as the contract does, in what it offers and in what it compares.
ReckonsAsTheMarket == OfferedGoesThrough /\ ComparesAsTheMarket

\* "After an approval the same amount carries on to the real action" (market/page.tsx):
\* of a deposit and of a repayment in part, whatever else is polled meanwhile.
PartCarriesOn ==
    granted = "seen" /\ Offered.fn = "approve" => tab = "repay" /\ input >= snap.debt
\* And of any amount.
ApprovalCarriesOn == granted = "seen" => Offered.fn # "approve"

\* "A mined-but-reverted transaction is a failure, never a success" (gas.ts): the panel
\* clears an amount only once it was executed.  (A flow that ends after the input was
\* changed, or the tab, clears what is there by then.)
ClearedOnceExecuted ==
    [][input # 0 /\ input' = 0 /\ tab' = tab /\ aside' = aside /\ flow.same => spent]_pageVars

\* No amount typed once is signed again after it was executed, unless its receipt had
\* timed out and the page could not know.
NothingSignedTwice ==
    [][tab # "score" /\ flow.stage = "ready" /\ flow'.stage = "sign" /\ spent => unsure]_pageVars

\* An amount is executed once for each time it is asked for: never cleared without it,
\* never offered again after it.
ExecutedOnce == ClearedOnceExecuted /\ NothingSignedTwice
=============================================================================
