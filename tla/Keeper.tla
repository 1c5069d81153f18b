------------------------------ MODULE Keeper ------------------------------
(***************************************************************************)
(* The keeper of the attestation service (packages/attestor/src/keeper.ts):*)
(* the loop that re-stamps the mock oracle's prices, queries the indexer   *)
(* and relays the demo wallets' scores, the record it keeps in the store,  *)
(* and the two health checks that watch it.                                *)
(*                                                                         *)
(* Every action is one await of a run.  Time is kept as ages and           *)
(* countdowns, so behaviours never end: an age stops at AGE_CAP, which is  *)
(* past every threshold.  A run lasts at most RUN_MAX, the sum of the      *)
(* timeouts of its calls, and a due timer fires before the clock moves on. *)
(* An operator named Mutant... is a plausible slip in the operator after   *)
(* it.                                                                     *)
(***************************************************************************)
EXTENDS Integers, Sequences

CONSTANTS
    ASSETS,          \* the assets of the oracle, in the order they are stamped
    RELAY_WALLETS,   \* relayWallets, in order
    Price,           \* the prices the owner sets
    INTERVAL,        \* intervalMs
    GRACE,           \* GRACE_MS
    RESTAMP_AFTER,   \* restampAfterSec
    MAX_AGE,         \* the market's maxPriceAge
    TTL,             \* scoreTtlSeconds
    SCORE_AGE,       \* how old the data of a live evaluation can be
    RUN_MAX, AGE_CAP

MutantRefreshBelow == INTERVAL
\* Relay once less than this is left.
REFRESH_BELOW == INTERVAL * 2
WARN_AFTER == RESTAMP_AFTER + INTERVAL + GRACE

Asset == {ASSETS[i] : i \in DOMAIN ASSETS}
RelayWallet == {RELAY_WALLETS[i] : i \in DOMAIN RELAY_WALLETS}

ASSUME KeeperAssumption ==
    /\ ASSETS \in Seq(Asset) /\ RELAY_WALLETS \in Seq(RelayWallet) /\ Price # {}
    /\ {INTERVAL, GRACE, RESTAMP_AFTER, MAX_AGE, TTL, RUN_MAX, AGE_CAP} \subseteq Nat \ {0}
    /\ SCORE_AGE \in 0 .. TTL
    /\ AGE_CAP > MAX_AGE /\ AGE_CAP > WARN_AFTER + RUN_MAX

VARIABLES
    pc,        \* what the process is awaiting; "down" without a process
    steps,     \* the steps it was configured with
    timer,     \* the time left before the timer fires
    lastRun,   \* the stored record of the last run, its age and outcome
    run,       \* what the run under way holds
    oracle,    \* per asset, the price on-chain and its age
    pending,   \* transactions sent to the oracle and not mined
    left,      \* per relay wallet, the time its score on-chain has left
    sinceRun   \* history: the time since a run ended, recorded or not

world == <<oracle, pending, left>>
keeperVars == <<pc, steps, timer, lastRun, run, world, sinceRun>>

NoRun == [age |-> AGE_CAP, ok |-> FALSE]   \* as due as a run that failed
Idle == [step |-> 0, item |-> 1, seen |-> CHOOSE p \in Price : TRUE,
         ok |-> TRUE, stepOk |-> TRUE, took |-> 0, clock |-> 0]
Up == pc \notin {"down", "boot"}
Running == Up /\ pc # "wait"
Older(age) == IF age < AGE_CAP THEN age + 1 ELSE age

----------------------------------------------------------------------------
(* The process: start(), the timer, a run's record, a crash. *)

Start == pc = "down" /\ pc' = "boot" /\ UNCHANGED <<steps, timer, lastRun, run, world, sinceRun>>

MutantDelayUnclamped == IF ~lastRun.ok THEN 0 ELSE INTERVAL - lastRun.age
MutantDelayWhole == INTERVAL
MutantDelayNone == 0
\* The first run waits for what is left of the interval, after a run that succeeded.
FirstDelay == IF lastRun.age >= INTERVAL \/ ~lastRun.ok THEN 0 ELSE INTERVAL - lastRun.age

Schedule ==
    /\ pc = "boot"
    /\ pc' = "wait" /\ timer' = FirstDelay
    /\ UNCHANGED <<steps, lastRun, run, world, sinceRun>>

Place(step) == CASE step = "oracle-restamp" -> "owner" [] step = "indexer-ping" -> "ping" [] OTHER -> "relay"
\* runOnce() comes to its i-th step, or to its end.
Enter(i, ok) ==
    IF i > Len(steps)
    THEN pc' = "record" /\ run' = [run EXCEPT !.ok = ok]
    ELSE /\ pc' = Place(steps[i])
         /\ run' = [run EXCEPT !.step = i, !.item = 1, !.ok = ok, !.stepOk = TRUE]

Begin ==
    /\ pc = "wait" /\ timer = 0
    /\ Enter(1, TRUE)
    /\ UNCHANGED <<steps, timer, lastRun, world, sinceRun>>

\* A step returns or throws, and the next one runs either way.
Finish(ok) == Enter(run.step + 1, run.ok /\ ok) /\ UNCHANGED <<steps, timer, lastRun, sinceRun>>

MutantRearm(stored) == IF stored THEN "wait" ELSE "stopped"
\* tick sets the next timer whether runOnce() resolved or threw.
Rearm(stored) == "wait"

\* The record carries the time of the run's end; when the store throws there is none.
Record(stored) ==
    /\ pc = "record"
    /\ lastRun' = IF stored THEN [age |-> 0, ok |-> run.ok] ELSE lastRun
    /\ pc' = Rearm(stored) /\ timer' = INTERVAL /\ run' = Idle /\ sinceRun' = 0
    /\ UNCHANGED <<steps, world>>

\* The process dies, or its start does on a store that throws; the record stays.
Crash ==
    /\ pc # "down"
    /\ pc' = "down" /\ timer' = 0 /\ run' = Idle
    /\ UNCHANGED <<steps, lastRun, world, sinceRun>>

----------------------------------------------------------------------------
(* The steps.  A call on the chain can throw: the node does not answer, the*)
(* key does not own the oracle, no receipt comes in time, or it says       *)
(* "reverted".                                                             *)

\* What the step goes through, one item after the other.
Items == IF pc \in {"price", "send", "receipt"} THEN ASSETS ELSE RELAY_WALLETS
Item == Items[run.item]
More == run.item <= Len(Items)

Goes(place) == pc' = place /\ UNCHANGED <<steps, timer, lastRun, sinceRun>>
Done(place) == Goes(place) /\ run' = [run EXCEPT !.item = @ + 1]

MutantOracleThrows == pc \in {"owner", "price", "send", "receipt"} /\ Finish(TRUE) /\ UNCHANGED world
OracleThrows == pc \in {"owner", "price", "send", "receipt"} /\ Finish(FALSE) /\ UNCHANGED world
RelayThrows == pc \in {"relay", "attest", "submit"} /\ Finish(FALSE) /\ UNCHANGED world

\* restampStep: the owner is checked and the clock read once for all the assets.
CheckOwner ==
    /\ pc = "owner"
    /\ Goes("price") /\ run' = [run EXCEPT !.clock = 0]
    /\ UNCHANGED world

Young(asset) == oracle[asset].age - run.clock < RESTAMP_AFTER

ReadPrice ==
    /\ pc = "price"
    /\ \/ ~More /\ Finish(TRUE)
       \/ More /\ Young(Item) /\ Done("price")
       \/ More /\ ~Young(Item) /\ Goes("send") /\ run' = [run EXCEPT !.seen = oracle[Item].price]
    /\ UNCHANGED world

\* The price sent is the one read before.
Tx == [asset |-> Item, price |-> run.seen]

SendPrice ==
    /\ pc = "send"
    /\ pending' = pending \cup {Tx}
    /\ Goes("receipt")
    /\ UNCHANGED <<run, oracle, left>>

AwaitReceipt ==
    /\ pc = "receipt" /\ Tx \notin pending
    /\ Done("price")
    /\ UNCHANGED world

\* indexerPingStep.
Ping(answered) == pc = "ping" /\ Finish(answered) /\ UNCHANGED world

\* relayStep: a score that is fresh for long enough is left alone.
ReadScore ==
    /\ pc = "relay"
    /\ \/ ~More /\ Finish(run.stepOk)
       \/ More /\ left[Item] > REFRESH_BELOW /\ Done("relay")
       \/ More /\ left[Item] <= REFRESH_BELOW /\ Goes("attest") /\ UNCHANGED run
    /\ UNCHANGED world

\* Without an attestation to submit, the wallet is noted: as refused, which fails
\* the step in the end, or as current already.
Attest == pc = "attest" /\ Goes("submit") /\ UNCHANGED <<run, world>>

NotAttested ==
    /\ pc = "attest"
    /\ \E refused \in BOOLEAN :
         run' = [run EXCEPT !.item = @ + 1, !.stepOk = @ /\ ~refused]
    /\ Goes("relay")
    /\ UNCHANGED world

Submit(age) ==
    /\ pc = "submit"
    /\ left' = [left EXCEPT ![Item] = TTL - age]
    /\ Done("relay")
    /\ UNCHANGED <<oracle, pending>>

----------------------------------------------------------------------------
(* The chain, its clock, and what fails around the keeper. *)

ProcessAndRecord == <<pc, steps, timer, lastRun, run, sinceRun>>

SetPrice(asset, price) == oracle' = [oracle EXCEPT ![asset] = [price |-> price, age |-> 0]]

Mine(tx) ==
    /\ tx \in pending
    /\ SetPrice(tx.asset, tx.price) /\ pending' = pending \ {tx}
    /\ UNCHANGED <<left, ProcessAndRecord>>

\* A transaction the keeper gave up on may also never be mined.
Lose(tx) ==
    /\ tx \in pending /\ pc # "receipt"
    /\ pending' = pending \ {tx}
    /\ UNCHANGED <<oracle, left, ProcessAndRecord>>

\* The owner moves a price with the keeper's own key, after what that key sent before.
OwnerSetsPrice(asset, price) ==
    /\ pending = {}
    /\ SetPrice(asset, price)
    /\ UNCHANGED <<pending, left, ProcessAndRecord>>

Liquidation(w) ==
    /\ left[w] > 0
    /\ left' = [left EXCEPT ![w] = 0]
    /\ UNCHANGED <<oracle, pending, ProcessAndRecord>>

Tick ==
    /\ pc = "wait" => timer > 0
    /\ Running => run.took < RUN_MAX
    /\ oracle' = [a \in Asset |-> [oracle[a] EXCEPT !.age = Older(@)]]
    /\ left' = [w \in RelayWallet |-> IF left[w] > 0 THEN left[w] - 1 ELSE 0]
    /\ lastRun' = [lastRun EXCEPT !.age = Older(@)]
    /\ sinceRun' = Older(sinceRun)
    /\ timer' = IF pc = "wait" THEN timer - 1 ELSE timer
    /\ run' = IF Running THEN [run EXCEPT !.took = @ + 1, !.clock = @ + 1] ELSE run
    /\ UNCHANGED <<pc, steps, pending>>

Step ==
    \/ Schedule \/ Begin \/ OracleThrows \/ RelayThrows
    \/ CheckOwner \/ ReadPrice \/ SendPrice \/ AwaitReceipt
    \/ \E answered \in BOOLEAN : Ping(answered)
    \/ ReadScore \/ Attest \/ NotAttested
    \/ \E age \in 0 .. SCORE_AGE : Submit(age)
    \/ \E stored \in BOOLEAN : Record(stored)

OracleMoves ==
    \/ \E tx \in pending : Mine(tx) \/ Lose(tx)
    \/ \E a \in Asset, p \in Price : OwnerSetsPrice(a, p)

KeeperInit(ss) ==
    /\ pc = "down" /\ steps = ss /\ timer = 0 /\ run = Idle
    /\ lastRun = NoRun /\ sinceRun = AGE_CAP
    /\ oracle = [a \in Asset |-> [price |-> Idle.seen, age |-> 0]]
    /\ pending = {} /\ left = [w \in RelayWallet |-> 0]

----------------------------------------------------------------------------
(* The health checks. *)

\* keeper: the last run, if any, was good and is not overdue.

MutantNeverOverdue == lastRun.ok
KeeperOk == lastRun.ok /\ lastRun.age <= INTERVAL + GRACE

PriceState(asset) ==
    CASE oracle[asset].age >= MAX_AGE -> "STALE"
      [] oracle[asset].age < MAX_AGE /\ oracle[asset].age > WARN_AFTER -> "DEGRADED"
      [] OTHER -> "fresh"

OracleOk == \A a \in Asset : PriceState(a) = "fresh"
=============================================================================
