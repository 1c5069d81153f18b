--------------------------- MODULE Server_proofs ---------------------------
(***************************************************************************)
(* Proofs about Server, the keeper and the rate limit in it, for every     *)
(* configuration, every number of assets and of relayed wallets, every     *)
(* interval, grace and age limit, and any window, limits and number of     *)
(* requests under way.                                                     *)
(***************************************************************************)
EXTENDS Server, Sums_proofs

----------------------------------------------------------------------------
(* The inductive invariant.                                                   *)

Restamp == "oracle-restamp"
InRestamp == pc \in {"owner", "price", "send", "receipt"}
AfterRestamp == pc \in {"ping", "relay", "attest", "submit", "record"}

\* The process runs the steps of its configuration, which it did not refuse.
Wired ==
    /\ steps = StepsOf(cfg)
    /\ server \in {"starting", "serving"} => Refusals(cfg) = {}

\* The types a run goes through, and where its item is one.
Run == [step : Nat, item : Nat \ {0}, seen : Price, ok : BOOLEAN, stepOk : BOOLEAN,
        took : Nat, clock : Nat]
Counted ==
    /\ pc \in {"down", "boot", "wait", "record"} \cup {"owner", "price", "send", "receipt"}
             \cup {"ping", "relay", "attest", "submit"}
    /\ run \in Run /\ run.clock <= run.took
    /\ sinceRun \in 0 .. AGE_CAP
    /\ pc \in {"send", "receipt"} => run.item <= Len(ASSETS)
    /\ pc \in {"attest", "submit"} => run.item <= Len(RELAY_WALLETS)

\* The timer never reaches past what is left of the interval, nor falls short of it.
Timed ==
    /\ sinceRun <= lastRun.age
    /\ pc = "wait" /\ lastRun.ok => lastRun.age + timer >= INTERVAL

\* Of a run under way: the prices it has been through are as young as the re-stamp
\* leaves them, give or take the time since it read the clock.
Stamped ==
    /\ InRestamp /\ Has(steps, Restamp) => run.step = 1
    /\ pc = "owner" => run.item = 1
    /\ AfterRestamp /\ pc # "record" /\ Has(steps, Restamp) => run.step > 1
    /\ pc \in {"price", "send", "receipt"} =>
         \A i \in 1 .. Len(ASSETS) : i < run.item => oracle[ASSETS[i]].age < RESTAMP_AFTER + run.clock
    /\ pc = "receipt" /\ Tx \notin pending => oracle[Item].age <= run.clock
    /\ AfterRestamp /\ Has(steps, Restamp) /\ run.ok =>
         \A a \in Asset : oracle[a].age < RESTAMP_AFTER + run.clock

\* And of the run on record.
Recorded ==
    lastRun.ok /\ Has(steps, Restamp) =>
        \A a \in Asset : oracle[a].age < RESTAMP_AFTER + RUN_MAX + lastRun.age

SInv == TypeOK /\ Wired /\ Counted /\ Timed /\ NoRunSkipped /\ Stamped /\ Recorded

----------------------------------------------------------------------------
(* What the configuration makes of the steps.                                 *)

\* Three steps at most, and the prices first.
LEMMA StepsShape ==
    ASSUME steps = StepsOf(cfg)
    PROVE  /\ Len(steps) \in Nat
           /\ \A i \in 1 .. Len(steps) : steps[i] \in {Restamp, "indexer-ping", "demo-relay"}
           /\ \A i \in 2 .. Len(steps) : steps[i] # Restamp
           /\ DOMAIN steps = 1 .. Len(steps)
           /\ Has(steps, Restamp) <=> cfg.keeperKey /\ cfg.oracle
<1>1. CASE cfg.keeperKey /\ cfg.oracle
  <2>1. CASE cfg.indexer /\ cfg.relay BY <1>1, <2>1 DEF StepsOf, Restamp, Has
  <2>2. CASE cfg.indexer /\ ~cfg.relay BY <1>1, <2>2 DEF StepsOf, Restamp, Has
  <2>3. CASE ~cfg.indexer /\ cfg.relay BY <1>1, <2>3 DEF StepsOf, Restamp, Has
  <2>4. CASE ~cfg.indexer /\ ~cfg.relay BY <1>1, <2>4 DEF StepsOf, Restamp, Has
  <2> QED BY <2>1, <2>2, <2>3, <2>4
<1>2. CASE ~(cfg.keeperKey /\ cfg.oracle)
  <2>1. CASE cfg.indexer /\ cfg.keeperKey /\ cfg.relay BY <1>2, <2>1 DEF StepsOf, Restamp, Has
  <2>2. CASE cfg.indexer /\ ~(cfg.keeperKey /\ cfg.relay) BY <1>2, <2>2 DEF StepsOf, Restamp, Has
  <2>3. CASE ~cfg.indexer /\ cfg.keeperKey /\ cfg.relay BY <1>2, <2>3 DEF StepsOf, Restamp, Has
  <2>4. CASE ~cfg.indexer /\ ~(cfg.keeperKey /\ cfg.relay) BY <1>2, <2>4 DEF StepsOf, Restamp, Has
  <2> QED BY <2>1, <2>2, <2>3, <2>4
<1> QED BY <1>1, <1>2

\* Where runOnce() goes next.
LEMMA Entered ==
    ASSUME SInv, NEW i \in Nat \ {0}, NEW ok, ok \in BOOLEAN, Enter(i, ok)
    PROVE  /\ pc' \in {"record", "owner", "ping", "relay"}
           /\ run' \in Run /\ run'.clock = run.clock /\ run'.took = run.took /\ run'.ok = ok
           /\ pc' # "record" => run'.step = i /\ run'.item = 1
           /\ pc' = "owner" => i = 1
           /\ pc' # "owner" /\ Has(steps, Restamp) => i > 1
<1> USE DEF SInv, Wired, Counted
<1>1. run \in Run /\ steps = StepsOf(cfg)
  OBVIOUS
<1>2. CASE i > Len(steps)
  <2>1. Has(steps, Restamp) => i > 1
    BY <1>1, <1>2, StepsShape DEF Has
  <2> QED BY <1>1, <1>2, <2>1 DEF Enter, Run
<1>3. CASE ~(i > Len(steps))
  <2>1. /\ steps[i] \in {Restamp, "indexer-ping", "demo-relay"}
        /\ i > 1 => steps[i] # Restamp
        /\ i = 1 /\ Has(steps, Restamp) => steps[i] = Restamp
    BY <1>1, <1>3, StepsShape DEF Has
  <2>2. pc' = Place(steps[i]) /\ run' = [run EXCEPT !.step = i, !.item = 1, !.ok = ok, !.stepOk = TRUE]
    BY <1>3 DEF Enter
  <2>3. run' \in Run
    <3>1. run' = [step |-> i, item |-> 1, seen |-> run.seen, ok |-> ok, stepOk |-> TRUE,
                  took |-> run.took, clock |-> run.clock]
      BY <1>1, <2>2 DEF Run
    <3>2. run.seen \in Price /\ run.took \in Nat /\ run.clock \in Nat
      BY <1>1 DEF Run
    <3> QED BY <3>1, <3>2 DEF Run
  <2>4. run'.clock = run.clock /\ run'.took = run.took /\ run'.step = i /\ run'.item = 1
    BY <1>1, <2>2 DEF Run
  <2>5. run'.ok = ok
    BY <1>1, <2>2 DEF Run
  <2> QED BY <2>1, <2>2, <2>3, <2>4, <2>5 DEF Place, Restamp
<1> QED BY <1>2, <1>3

\* Going on to another step, or to the record, keeps the invariant if the prices are
\* stamped by the time the first step is done.
LEMMA EnterKeeps ==
    ASSUME SInv, NEW i \in Nat \ {0}, NEW ok, ok \in BOOLEAN, Enter(i, ok),
           UNCHANGED <<cfg, server, steps, timer, lastRun, world, sinceRun>>,
           Has(steps, Restamp) /\ i > 1 /\ ok =>
               \A a \in Asset : oracle[a].age < RESTAMP_AFTER + run.clock
    PROVE  SInv'
<1>1. /\ pc' \in {"record", "owner", "ping", "relay"}
      /\ run' \in Run /\ run'.clock = run.clock /\ run'.took = run.took /\ run'.ok = ok
      /\ pc' # "record" => run'.step = i /\ run'.item = 1
      /\ pc' = "owner" => i = 1
      /\ pc' # "owner" /\ Has(steps, Restamp) => i > 1
  BY Entered
<1>2. TypeOK' /\ Wired'
  BY <1>1 DEF SInv, TypeOK, Wired, world
<1>3. Counted'
  BY <1>1 DEF SInv, Counted
<1>4. Timed' /\ NoRunSkipped'
  BY <1>1 DEF SInv, Timed, NoRunSkipped
<1>5. Stamped'
  BY <1>1 DEF SInv, Stamped, InRestamp, AfterRestamp, Has, world
<1>6. Recorded'
  BY DEF SInv, Recorded, Has, world
<1> QED BY <1>2, <1>3, <1>4, <1>5, <1>6 DEF SInv

\* A step of the run ends: its outcome is that of the run so far.
LEMMA FinishKeeps ==
    ASSUME SInv, pc \notin {"down", "boot", "wait", "record"}, NEW ok, ok \in BOOLEAN, Finish(ok),
           UNCHANGED <<cfg, server, world>>,
           Has(steps, Restamp) /\ InRestamp /\ ok =>
               \A a \in Asset : oracle[a].age < RESTAMP_AFTER + run.clock
    PROVE  SInv'
<1>1. run.step + 1 \in Nat \ {0} /\ run.ok \in BOOLEAN
  BY DEF SInv, Counted, Run
<1>2. (run.ok /\ ok) \in BOOLEAN /\ Enter(run.step + 1, run.ok /\ ok)
      /\ UNCHANGED <<steps, timer, lastRun, sinceRun>>
  BY <1>1 DEF Finish
<1>3. ASSUME Has(steps, Restamp), run.ok /\ ok
      PROVE  \A a \in Asset : oracle[a].age < RESTAMP_AFTER + run.clock
  <2>1. InRestamp \/ AfterRestamp
    BY DEF SInv, Counted, InRestamp, AfterRestamp
  <2> QED BY <1>3, <2>1 DEF SInv, Stamped
<1> QED BY <1>1, <1>2, <1>3, EnterKeeps

LEMMA BeginKeeps == ASSUME SInv, Begin, UNCHANGED <<cfg, server>> PROVE SInv'
<1>1. 1 \in Nat \ {0} /\ TRUE \in BOOLEAN /\ ~(1 > 1)
  OBVIOUS
<1>2. Enter(1, TRUE) /\ UNCHANGED <<steps, timer, lastRun, world, sinceRun>>
  BY DEF Begin
<1> QED BY <1>1, <1>2, EnterKeeps

LEMMA OracleThrowsKeeps == ASSUME SInv, OracleThrows, UNCHANGED <<cfg, server>> PROVE SInv'
BY FinishKeeps DEF OracleThrows

LEMMA RelayThrowsKeeps == ASSUME SInv, RelayThrows, UNCHANGED <<cfg, server>> PROVE SInv'
BY FinishKeeps DEF RelayThrows, InRestamp

LEMMA PingKeeps ==
    ASSUME SInv, NEW answered, answered \in BOOLEAN, Ping(answered), UNCHANGED <<cfg, server>>
    PROVE  SInv'
BY FinishKeeps DEF Ping, InRestamp

----------------------------------------------------------------------------
(* The re-stamp.                                                              *)

\* What the invariant says of the place the run is at.
LEMMA AtItem ==
    ASSUME SInv, pc \in {"send", "receipt"}
    PROVE  Items = ASSETS /\ Item = ASSETS[run.item] /\ run.item \in DOMAIN ASSETS /\ Item \in Asset
<1>1. ASSETS \in Seq(Asset) /\ run.item \in 1 .. Len(ASSETS)
  BY KeeperAssumption DEF SInv, Counted, Run
<1> QED BY <1>1 DEF Items, Item, Asset

LEMMA CheckOwnerKeeps == ASSUME SInv, CheckOwner, UNCHANGED <<cfg, server>> PROVE SInv'
<1>1. /\ pc = "owner" /\ pc' = "price" /\ run' = [run EXCEPT !.clock = 0]
      /\ UNCHANGED <<steps, timer, lastRun, sinceRun, oracle, pending, left>>
  BY DEF CheckOwner, Goes, world
<1>2. /\ run' \in Run /\ run'.clock = 0 /\ run'.took = run.took /\ run'.step = run.step
      /\ run'.item = run.item
  BY <1>1 DEF SInv, Counted, Run
<1>3. TypeOK' /\ Wired' /\ Counted'
  BY <1>1, <1>2 DEF SInv, TypeOK, Wired, Counted, Run
<1>4. Timed' /\ NoRunSkipped'
  BY <1>1 DEF SInv, Timed, NoRunSkipped
<1>5. Stamped'
  <2>1. \A i \in 1 .. Len(ASSETS) : ~(i < 1)
    OBVIOUS
  <2> QED BY <1>1, <1>2, <2>1 DEF SInv, Stamped, InRestamp, AfterRestamp, Has
<1>6. Recorded'
  BY <1>1 DEF SInv, Recorded, Has
<1> QED BY <1>3, <1>4, <1>5, <1>6 DEF SInv

\* Steps of the re-stamp that stay in it leave all but the place and the item alone.
LEMMA RestampGoes ==
    ASSUME SInv, InRestamp, pc' \in {"price", "send", "receipt"},
           UNCHANGED <<cfg, server, steps, timer, lastRun, sinceRun, oracle, left>>,
           pending' \subseteq [asset : Asset, price : Price],
           run' \in Run, run'.took = run.took, run'.clock = run.clock, run'.step = run.step,
           pc' \in {"send", "receipt"} => run'.item <= Len(ASSETS),
           \A i \in 1 .. Len(ASSETS) : i < run'.item => oracle[ASSETS[i]].age < RESTAMP_AFTER + run.clock,
           (pc = "receipt" /\ Tx \notin pending => oracle[Item].age <= run.clock)'
    PROVE  SInv'
<1>1. TypeOK' /\ Wired'
  BY DEF SInv, TypeOK, Wired
<1>2. Counted'
  BY DEF SInv, Counted, Run
<1>3. Timed' /\ NoRunSkipped'
  BY DEF SInv, Timed, NoRunSkipped
<1>4. Stamped'
  BY DEF SInv, Stamped, InRestamp, AfterRestamp, Has
<1>5. Recorded'
  BY DEF SInv, Recorded, Has
<1> QED BY <1>1, <1>2, <1>3, <1>4, <1>5 DEF SInv

LEMMA ReadPriceKeeps == ASSUME SInv, ReadPrice, UNCHANGED <<cfg, server>> PROVE SInv'
<1>1. pc = "price" /\ UNCHANGED world /\ Items = ASSETS
  BY DEF ReadPrice, Items
<1>2. run \in Run /\ ASSETS \in Seq(Asset) /\ run.item \in Nat \ {0} /\ Len(ASSETS) \in Nat
  BY KeeperAssumption DEF SInv, Counted, Run
<1>3. CASE ~More /\ Finish(TRUE)
  <2>1. run.item > Len(ASSETS)
    BY <1>1, <1>2, <1>3 DEF More
  <2>2. \A i \in 1 .. Len(ASSETS) : oracle[ASSETS[i]].age < RESTAMP_AFTER + run.clock
    BY <1>1, <1>2, <2>1 DEF SInv, Stamped
  <2>3. \A a \in Asset : oracle[a].age < RESTAMP_AFTER + run.clock
    BY <1>2, <2>2 DEF Asset
  <2> QED BY <1>1, <1>3, <2>3, FinishKeeps
<1>4. CASE More /\ Young(Item) /\ Done("price")
  <2>1. /\ pc' = "price" /\ run' = [run EXCEPT !.item = @ + 1]
        /\ UNCHANGED <<steps, timer, lastRun, sinceRun, oracle, pending, left>>
    BY <1>1, <1>4 DEF Done, Goes, world
  <2>2. run' \in Run /\ run'.item = run.item + 1 /\ run'.took = run.took /\ run'.clock = run.clock
        /\ run'.step = run.step
    BY <1>2, <2>1 DEF Run
  <2>3. Item = ASSETS[run.item] /\ Item \in Asset
    BY <1>1, <1>2, <1>4 DEF Item, More, Asset
  <2>4. oracle[Item].age < RESTAMP_AFTER + run.clock
    <3>1. oracle[Item].age \in Nat /\ run.clock \in Nat /\ RESTAMP_AFTER \in Nat
      BY <2>3, KeeperAssumption DEF SInv, TypeOK, Counted, Run
    <3> QED BY <3>1, <1>4 DEF Young
  <2>5. \A i \in 1 .. Len(ASSETS) : i < run'.item => oracle[ASSETS[i]].age < RESTAMP_AFTER + run.clock
    <3> SUFFICES ASSUME NEW i \in 1 .. Len(ASSETS), i < run.item + 1
                 PROVE  oracle[ASSETS[i]].age < RESTAMP_AFTER + run.clock
      BY <2>2
    <3>1. i < run.item \/ i = run.item
      BY <1>2
    <3> QED BY <3>1, <1>1, <2>3, <2>4 DEF SInv, Stamped
  <2>6. pending' \subseteq [asset : Asset, price : Price] /\ InRestamp
    BY <1>1, <2>1 DEF SInv, TypeOK, InRestamp
  <2> QED BY <2>1, <2>2, <2>5, <2>6, RestampGoes
<1>5. CASE More /\ ~Young(Item) /\ Goes("send") /\ run' = [run EXCEPT !.seen = oracle[Item].price]
  <2>1. pc' = "send" /\ UNCHANGED <<steps, timer, lastRun, sinceRun, oracle, pending, left>>
    BY <1>1, <1>5 DEF Goes, world
  <2>2. Item \in Asset /\ run.item <= Len(ASSETS)
    BY <1>1, <1>2, <1>5 DEF Item, More, Asset
  <2>3. oracle[Item].price \in Price
    BY <2>2 DEF SInv, TypeOK
  <2>4. run' \in Run /\ run'.item = run.item /\ run'.took = run.took /\ run'.clock = run.clock
        /\ run'.step = run.step
    BY <1>2, <1>5, <2>3 DEF Run
  <2>5. \A i \in 1 .. Len(ASSETS) : i < run'.item => oracle[ASSETS[i]].age < RESTAMP_AFTER + run.clock
    BY <1>1, <2>4 DEF SInv, Stamped
  <2>6. pending' \subseteq [asset : Asset, price : Price] /\ InRestamp
    BY <1>1, <2>1 DEF SInv, TypeOK, InRestamp
  <2> QED BY <2>1, <2>2, <2>4, <2>5, <2>6, RestampGoes
<1> QED BY <1>3, <1>4, <1>5 DEF ReadPrice

LEMMA SendPriceKeeps == ASSUME SInv, SendPrice, UNCHANGED <<cfg, server>> PROVE SInv'
<1>1. /\ pc = "send" /\ pc' = "receipt" /\ pending' = pending \cup {Tx}
      /\ UNCHANGED <<steps, timer, lastRun, sinceRun, run, oracle, left>>
  BY DEF SendPrice, Goes
<1>2. Item \in Asset /\ Items = ASSETS /\ Items' = ASSETS
  BY <1>1, AtItem DEF Items
<1>3. Tx' = Tx /\ Tx \in [asset : Asset, price : Price]
  BY <1>1, <1>2 DEF Tx, Item, SInv, Counted, Run
<1>4. pending' \subseteq [asset : Asset, price : Price] /\ (Tx \in pending)' /\ InRestamp
  BY <1>1, <1>3 DEF SInv, TypeOK, InRestamp
<1>5. /\ run \in Run /\ run.item <= Len(ASSETS)
      /\ \A i \in 1 .. Len(ASSETS) : i < run.item => oracle[ASSETS[i]].age < RESTAMP_AFTER + run.clock
  BY <1>1 DEF SInv, Counted, Stamped
<1> QED BY <1>1, <1>4, <1>5, RestampGoes

LEMMA AwaitReceiptKeeps == ASSUME SInv, AwaitReceipt, UNCHANGED <<cfg, server>> PROVE SInv'
<1>1. /\ pc = "receipt" /\ Tx \notin pending /\ pc' = "price" /\ run' = [run EXCEPT !.item = @ + 1]
      /\ UNCHANGED <<steps, timer, lastRun, sinceRun, oracle, pending, left>>
  BY DEF AwaitReceipt, Done, Goes, world
<1>2. run \in Run /\ run.item \in Nat /\ run.clock \in Nat /\ RESTAMP_AFTER \in Nat \ {0}
  BY KeeperAssumption DEF SInv, Counted, Run
<1>3. run' \in Run /\ run'.item = run.item + 1 /\ run'.took = run.took /\ run'.clock = run.clock
      /\ run'.step = run.step
  BY <1>1, <1>2 DEF Run
<1>4. Item = ASSETS[run.item] /\ Item \in Asset
  BY <1>1, AtItem
<1>5. oracle[Item].age < RESTAMP_AFTER + run.clock
  <2>1. oracle[Item].age \in Nat /\ oracle[Item].age <= run.clock
    BY <1>1, <1>4 DEF SInv, TypeOK, Stamped
  <2> QED BY <1>2, <2>1
<1>6. \A i \in 1 .. Len(ASSETS) : i < run'.item => oracle[ASSETS[i]].age < RESTAMP_AFTER + run.clock
  <2> SUFFICES ASSUME NEW i \in 1 .. Len(ASSETS), i < run.item + 1
               PROVE  oracle[ASSETS[i]].age < RESTAMP_AFTER + run.clock
    BY <1>3
  <2>1. i < run.item \/ i = run.item
    BY <1>2
  <2> QED BY <2>1, <1>1, <1>4, <1>5 DEF SInv, Stamped
<1>7. pending' \subseteq [asset : Asset, price : Price] /\ InRestamp
  BY <1>1 DEF SInv, TypeOK, InRestamp
<1> QED BY <1>1, <1>3, <1>6, <1>7, RestampGoes

----------------------------------------------------------------------------
(* The relay.                                                                 *)

\* Steps of the relay that stay in it.
LEMMA RelayGoes ==
    ASSUME SInv, pc \in {"relay", "attest", "submit"}, pc' \in {"relay", "attest", "submit"},
           UNCHANGED <<cfg, server, steps, timer, lastRun, sinceRun, oracle, pending>>,
           left' \in [RelayWallet -> 0 .. TTL],
           run' \in Run, run'.took = run.took, run'.clock = run.clock, run'.step = run.step,
           run'.ok = run.ok,
           pc' \in {"attest", "submit"} => run'.item <= Len(RELAY_WALLETS)
    PROVE  SInv'
<1>1. TypeOK' /\ Wired'
  BY DEF SInv, TypeOK, Wired
<1>2. Counted'
  BY DEF SInv, Counted, Run
<1>3. Timed' /\ NoRunSkipped'
  BY DEF SInv, Timed, NoRunSkipped
<1>4. Stamped'
  BY DEF SInv, Stamped, InRestamp, AfterRestamp, Has
<1>5. Recorded'
  BY DEF SInv, Recorded, Has
<1> QED BY <1>1, <1>2, <1>3, <1>4, <1>5 DEF SInv

\* A wallet is done with.
LEMMA NextWallet ==
    ASSUME SInv, run' = [run EXCEPT !.item = @ + 1]
    PROVE  /\ run' \in Run /\ run'.took = run.took /\ run'.clock = run.clock
           /\ run'.step = run.step /\ run'.ok = run.ok
BY DEF SInv, Counted, Run

LEMMA ReadScoreKeeps == ASSUME SInv, ReadScore, UNCHANGED <<cfg, server>> PROVE SInv'
<1>1. pc = "relay" /\ UNCHANGED world /\ Items = RELAY_WALLETS /\ left \in [RelayWallet -> 0 .. TTL]
  BY DEF ReadScore, Items, SInv, TypeOK
<1>2. CASE ~More /\ Finish(run.stepOk)
  <2>1. run.stepOk \in BOOLEAN /\ ~InRestamp
    BY <1>1 DEF SInv, Counted, Run, InRestamp
  <2> QED BY <1>1, <1>2, <2>1, FinishKeeps
<1>3. CASE Done("relay")
  BY <1>1, <1>3, NextWallet, RelayGoes DEF Done, Goes, world
<1>4. CASE More /\ Goes("attest") /\ UNCHANGED run
  <2>1. run.item <= Len(RELAY_WALLETS) /\ run \in Run
    BY <1>1, <1>4 DEF More, SInv, Counted
  <2> QED BY <1>1, <1>4, <2>1, RelayGoes DEF Goes, world
<1> QED BY <1>2, <1>3, <1>4 DEF ReadScore

LEMMA AttestKeeps == ASSUME SInv, Attest, UNCHANGED <<cfg, server>> PROVE SInv'
<1>1. run \in Run /\ run.item <= Len(RELAY_WALLETS) /\ left \in [RelayWallet -> 0 .. TTL]
  BY DEF Attest, SInv, Counted, TypeOK
<1> QED BY <1>1, RelayGoes DEF Attest, Goes, world

LEMMA NotAttestedKeeps == ASSUME SInv, NotAttested, UNCHANGED <<cfg, server>> PROVE SInv'
<1>1. PICK refused \in BOOLEAN : run' = [run EXCEPT !.item = @ + 1, !.stepOk = @ /\ ~refused]
  BY DEF NotAttested
<1>2. run' = [step |-> run.step, item |-> run.item + 1, seen |-> run.seen, ok |-> run.ok,
              stepOk |-> run.stepOk /\ ~refused, took |-> run.took, clock |-> run.clock]
  BY <1>1 DEF SInv, Counted, Run
<1>3. run.item + 1 \in Nat \ {0}
  BY DEF SInv, Counted, Run
<1>4. run' \in Run /\ run'.took = run.took /\ run'.clock = run.clock
      /\ run'.step = run.step /\ run'.ok = run.ok
  BY <1>2, <1>3 DEF SInv, Counted, Run
<1>5. left \in [RelayWallet -> 0 .. TTL]
  BY DEF SInv, TypeOK
<1> QED BY <1>4, <1>5, RelayGoes DEF NotAttested, Goes, world

LEMMA SubmitKeeps ==
    ASSUME SInv, NEW age \in 0 .. SCORE_AGE, Submit(age), UNCHANGED <<cfg, server>>
    PROVE  SInv'
<1>1. TTL - age \in 0 .. TTL
  BY KeeperAssumption
<1>2. left' \in [RelayWallet -> 0 .. TTL]
  BY <1>1 DEF Submit, SInv, TypeOK
<1> QED BY <1>2, NextWallet, RelayGoes DEF Submit, Done, Goes

----------------------------------------------------------------------------
(* The process.                                                               *)

LEMMA IdleType == Idle \in Run /\ Idle.took = 0 /\ Idle.clock = 0
<1>1. (CHOOSE p \in Price : TRUE) \in Price
  BY KeeperAssumption
<1> QED BY <1>1 DEF Idle, Run

LEMMA RecordKeeps ==
    ASSUME SInv, NEW stored \in BOOLEAN, Record(stored), UNCHANGED <<cfg, server>>
    PROVE  SInv'
<1>1. /\ pc = "record" /\ pc' = "wait" /\ timer' = INTERVAL /\ run' = Idle /\ sinceRun' = 0
      /\ UNCHANGED <<steps, oracle, pending, left>>
      /\ lastRun' = IF stored THEN [age |-> 0, ok |-> run.ok] ELSE lastRun
  BY DEF Record, Rearm, world
<1>2. INTERVAL \in Nat \ {0} /\ AGE_CAP \in Nat /\ RUN_MAX \in Nat /\ RESTAMP_AFTER \in Nat
  BY KeeperAssumption
<1>3. lastRun' \in [age : 0 .. AGE_CAP, ok : BOOLEAN]
  BY <1>1, <1>2 DEF SInv, TypeOK, Counted, Run
<1>4. TypeOK' /\ Wired' /\ Counted'
  BY <1>1, <1>2, <1>3, IdleType DEF SInv, TypeOK, Wired, Counted
<1>5. Timed' /\ NoRunSkipped'
  BY <1>1, <1>2, <1>3 DEF SInv, Timed, NoRunSkipped
<1>6. Stamped'
  BY <1>1 DEF Stamped, InRestamp, AfterRestamp
<1>7. Recorded'
  <2>1. CASE ~stored
    BY <1>1, <2>1 DEF SInv, Recorded, Has
  <2>2. CASE stored
    <3> SUFFICES ASSUME run.ok, Has(steps, Restamp), NEW a \in Asset
                 PROVE  oracle[a].age < RESTAMP_AFTER + RUN_MAX + 0
      BY <1>1, <2>2 DEF Recorded, Has
    <3>1. oracle[a].age < RESTAMP_AFTER + run.clock
      BY <1>1 DEF SInv, Stamped, AfterRestamp
    <3>2. run.clock \in Nat /\ run.clock <= RUN_MAX /\ oracle[a].age \in Nat
      BY <1>2 DEF SInv, Counted, Run, TypeOK
    <3> QED BY <1>2, <3>1, <3>2
  <2> QED BY <2>1, <2>2
<1> QED BY <1>4, <1>5, <1>6, <1>7 DEF SInv

LEMMA ScheduleKeeps == ASSUME SInv, Schedule, UNCHANGED <<cfg, server>> PROVE SInv'
<1>1. /\ pc = "boot" /\ pc' = "wait" /\ timer' = FirstDelay
      /\ UNCHANGED <<steps, lastRun, run, oracle, pending, left, sinceRun>>
  BY DEF Schedule, world
<1>2. INTERVAL \in Nat \ {0} /\ lastRun.age \in Nat /\ sinceRun \in Nat /\ sinceRun <= lastRun.age
  BY KeeperAssumption DEF SInv, TypeOK, Counted, Timed
<1>3. /\ timer' \in 0 .. INTERVAL
      /\ timer' = 0 \/ timer' + sinceRun <= INTERVAL
      /\ lastRun.ok => lastRun.age + timer' >= INTERVAL
  BY <1>1, <1>2 DEF FirstDelay
<1>4. TypeOK' /\ Wired' /\ Counted'
  BY <1>1, <1>3 DEF SInv, TypeOK, Wired, Counted
<1>5. Timed' /\ NoRunSkipped'
  BY <1>1, <1>3 DEF SInv, Timed, NoRunSkipped
<1>6. Stamped' /\ Recorded'
  BY <1>1 DEF SInv, Stamped, Recorded, InRestamp, AfterRestamp, Has
<1> QED BY <1>4, <1>5, <1>6 DEF SInv

LEMMA BootKeeps == ASSUME SInv, Boot PROVE SInv'
<1>1. /\ server' = "starting" /\ Refusals(cfg) = {} /\ pc' \in {pc, "boot"}
      /\ UNCHANGED <<cfg, steps, timer, lastRun, run, oracle, pending, left, sinceRun>>
  BY DEF Boot, Start, keeperVars, world
<1>2. TypeOK' /\ Wired' /\ Counted'
  BY <1>1 DEF SInv, TypeOK, Wired, Counted
<1>3. Timed' /\ NoRunSkipped'
  BY <1>1 DEF SInv, Timed, NoRunSkipped
<1>4. Stamped'
  <2>1. CASE pc' = pc
    BY <1>1, <2>1 DEF SInv, Stamped, InRestamp, AfterRestamp, Has, Tx, Item, Items
  <2>2. CASE pc' = "boot"
    BY <2>2 DEF Stamped, InRestamp, AfterRestamp
  <2> QED BY <1>1, <2>1, <2>2
<1>5. Recorded'
  BY <1>1 DEF SInv, Recorded, Has
<1> QED BY <1>2, <1>3, <1>4, <1>5 DEF SInv

LEMMA DieKeeps == ASSUME SInv, Die PROVE SInv'
<1>1. /\ server' = "down" /\ pc' = "down" /\ timer' \in {timer, 0} /\ run' \in {run, Idle}
      /\ UNCHANGED <<cfg, steps, lastRun, oracle, pending, left, sinceRun>>
  BY DEF Die, Crash, keeperVars, world
<1>2. TypeOK' /\ Wired' /\ Counted'
  BY <1>1, IdleType, KeeperAssumption DEF SInv, TypeOK, Wired, Counted
<1>3. Timed' /\ NoRunSkipped'
  BY <1>1 DEF SInv, Timed, NoRunSkipped
<1>4. Stamped' /\ Recorded'
  BY <1>1 DEF SInv, Stamped, Recorded, InRestamp, AfterRestamp, Has
<1> QED BY <1>2, <1>3, <1>4 DEF SInv

\* The server is up, or gives up, with the keeper as it was.
LEMMA ServerKeeps ==
    ASSUME SInv, UNCHANGED <<cfg, keeperVars>>, server' \in {server, "serving", "exited"},
           server' = "serving" => Refusals(cfg) = {}
    PROVE  SInv'
<1>1. UNCHANGED <<pc, steps, timer, lastRun, run, oracle, pending, left, sinceRun>>
  BY DEF keeperVars, world
<1>2. TypeOK' /\ Wired' /\ Counted'
  BY <1>1 DEF SInv, TypeOK, Wired, Counted
<1>3. Timed' /\ NoRunSkipped' /\ Recorded'
  BY <1>1 DEF SInv, Timed, NoRunSkipped, Recorded, Has
<1>4. Stamped'
  BY <1>1 DEF SInv, Stamped, InRestamp, AfterRestamp, Has, Tx, Item, Items
<1> QED BY <1>2, <1>3, <1>4 DEF SInv

----------------------------------------------------------------------------
(* The chain and the clock.                                                   *)

\* Prices only grow younger when they are set, and a receipt is awaited for as long as
\* its transaction is pending.
LEMMA ChainKeeps ==
    ASSUME SInv, UNCHANGED <<cfg, server, ProcessAndRecord>>,
           oracle' \in [Asset -> [price : Price, age : 0 .. AGE_CAP]],
           \A a \in Asset : oracle'[a].age <= oracle[a].age,
           pending' \subseteq [asset : Asset, price : Price],
           left' \in [RelayWallet -> 0 .. TTL],
           pc = "receipt" /\ Tx \notin pending' => Tx \notin pending \/ oracle'[Item].age = 0
    PROVE  SInv'
<1>1. UNCHANGED <<pc, steps, timer, lastRun, run, sinceRun>> /\ UNCHANGED <<Items, Item, Tx>>
  BY DEF ProcessAndRecord, Items, Item, Tx
<1>2. \A a \in Asset : oracle[a].age \in Nat /\ oracle'[a].age \in Nat
  BY DEF SInv, TypeOK
<1>3. run.clock \in Nat /\ RESTAMP_AFTER \in Nat /\ RUN_MAX \in Nat /\ lastRun.age \in Nat
  BY KeeperAssumption DEF SInv, Counted, Run, TypeOK
<1>4. TypeOK' /\ Wired' /\ Counted'
  BY <1>1 DEF SInv, TypeOK, Wired, Counted
<1>5. Timed' /\ NoRunSkipped'
  BY <1>1 DEF SInv, Timed, NoRunSkipped
<1>6. Stamped'
  <2>1. \A i \in 1 .. Len(ASSETS) : ASSETS[i] \in Asset
    BY KeeperAssumption
  <2>2. pc \in {"price", "send", "receipt"} =>
          \A i \in 1 .. Len(ASSETS) : i < run.item => oracle'[ASSETS[i]].age < RESTAMP_AFTER + run.clock
    BY <1>2, <1>3, <2>1 DEF SInv, Stamped
  <2>3. pc = "receipt" /\ Tx \notin pending' => oracle'[Item].age <= run.clock
    BY <1>2, <1>3, AtItem DEF SInv, Stamped
  <2>4. AfterRestamp /\ Has(steps, Restamp) /\ run.ok =>
          \A a \in Asset : oracle'[a].age < RESTAMP_AFTER + run.clock
    BY <1>2, <1>3 DEF SInv, Stamped
  <2> QED BY <1>1, <2>2, <2>3, <2>4 DEF SInv, Stamped, InRestamp, AfterRestamp, Has
<1>7. Recorded'
  BY <1>1, <1>2, <1>3 DEF SInv, Recorded, Has
<1> QED BY <1>4, <1>5, <1>6, <1>7 DEF SInv

\* setPrice.
LEMMA PriceSet ==
    ASSUME SInv, NEW a \in Asset, NEW p \in Price, SetPrice(a, p)
    PROVE  /\ oracle' \in [Asset -> [price : Price, age : 0 .. AGE_CAP]]
           /\ \A b \in Asset : oracle'[b].age <= oracle[b].age
           /\ oracle'[a].age = 0
<1>1. AGE_CAP \in Nat
  BY KeeperAssumption
<1> QED BY <1>1 DEF SetPrice, SInv, TypeOK

LEMMA MineKeeps == ASSUME SInv, NEW tx \in pending, Mine(tx), UNCHANGED <<cfg, server>> PROVE SInv'
<1>1. tx.asset \in Asset /\ tx.price \in Price
  BY DEF SInv, TypeOK
<1>2. /\ oracle' \in [Asset -> [price : Price, age : 0 .. AGE_CAP]]
      /\ \A a \in Asset : oracle'[a].age <= oracle[a].age
      /\ oracle'[tx.asset].age = 0
  BY <1>1, PriceSet DEF Mine
<1>3. pc = "receipt" /\ Tx \notin pending' => Tx \notin pending \/ oracle'[Item].age = 0
  BY <1>2 DEF Mine, Tx
<1>4. pending' \subseteq [asset : Asset, price : Price] /\ left' \in [RelayWallet -> 0 .. TTL]
  BY DEF Mine, SInv, TypeOK
<1> QED BY <1>2, <1>3, <1>4, ChainKeeps DEF Mine

LEMMA OwnerKeeps ==
    ASSUME SInv, NEW a \in Asset, NEW p \in Price, OwnerSetsPrice(a, p), UNCHANGED <<cfg, server>>
    PROVE  SInv'
<1>1. /\ oracle' \in [Asset -> [price : Price, age : 0 .. AGE_CAP]]
      /\ \A b \in Asset : oracle'[b].age <= oracle[b].age
  BY PriceSet DEF OwnerSetsPrice
<1>2. pending' \subseteq [asset : Asset, price : Price] /\ left' \in [RelayWallet -> 0 .. TTL]
      /\ pending' = pending
  BY DEF OwnerSetsPrice, SInv, TypeOK
<1> QED BY <1>1, <1>2, ChainKeeps DEF OwnerSetsPrice

\* What only loses a transaction or a score leaves the prices as they are.
LEMMA LossKeeps ==
    ASSUME SInv, UNCHANGED <<cfg, server>>,
           \/ \E tx \in pending : Lose(tx)
           \/ \E w \in RelayWallet : Liquidation(w)
    PROVE  SInv'
<1>1. /\ oracle' = oracle /\ UNCHANGED ProcessAndRecord
      /\ pending' \subseteq pending /\ (pc = "receipt" => pending' = pending)
  BY DEF Lose, Liquidation
<1>2. TTL \in Nat
  BY KeeperAssumption
<1>3. left' \in [RelayWallet -> 0 .. TTL]
  BY <1>2 DEF Lose, Liquidation, SInv, TypeOK
<1>4. /\ oracle' \in [Asset -> [price : Price, age : 0 .. AGE_CAP]]
      /\ \A a \in Asset : oracle'[a].age <= oracle[a].age
      /\ pending' \subseteq [asset : Asset, price : Price]
  BY <1>1 DEF SInv, TypeOK
<1> QED BY <1>1, <1>3, <1>4, ChainKeeps

LEMMA Ageing ==
    ASSUME NEW x \in 0 .. AGE_CAP
    PROVE  /\ Older(x) \in 0 .. AGE_CAP /\ Older(x) \in Nat /\ Older(x) <= x + 1
           /\ Older(x) = x + 1 \/ Older(x) = AGE_CAP
<1>1. AGE_CAP \in Nat
  BY KeeperAssumption
<1> QED BY <1>1 DEF Older

\* Everything ages together: a price, the run's clock, the record, and the time since
\* a run ended.
LEMMA TickKeeps == ASSUME SInv, Tick, UNCHANGED <<cfg, server>> PROVE SInv'
<1>1. /\ AGE_CAP \in Nat \ {0} /\ INTERVAL \in Nat \ {0} /\ RUN_MAX \in Nat \ {0}
      /\ RESTAMP_AFTER \in Nat \ {0} /\ TTL \in Nat /\ AGE_CAP > INTERVAL
  BY KeeperAssumption DEF WARN_AFTER
<1>2. /\ UNCHANGED <<pc, steps, pending>>
      /\ oracle' = [a \in Asset |-> [oracle[a] EXCEPT !.age = Older(@)]]
      /\ lastRun' = [lastRun EXCEPT !.age = Older(@)] /\ sinceRun' = Older(sinceRun)
      /\ timer' = IF pc = "wait" THEN timer - 1 ELSE timer
      /\ run' = IF Running THEN [run EXCEPT !.took = @ + 1, !.clock = @ + 1] ELSE run
      /\ pc = "wait" => timer > 0
      /\ Running => run.took < RUN_MAX
  BY DEF Tick
<1>3. \A x \in 0 .. AGE_CAP : Older(x) \in 0 .. AGE_CAP
  BY Ageing
<1>4. /\ \A a \in Asset : /\ oracle[a].age \in 0 .. AGE_CAP /\ oracle'[a].age = Older(oracle[a].age)
                         /\ oracle'[a] \in [price : Price, age : 0 .. AGE_CAP]
      /\ lastRun'.age = Older(lastRun.age) /\ lastRun'.ok = lastRun.ok
      /\ lastRun' \in [age : 0 .. AGE_CAP, ok : BOOLEAN] /\ lastRun.age \in 0 .. AGE_CAP
  <2>1. oracle \in [Asset -> [price : Price, age : 0 .. AGE_CAP]] /\ lastRun \in [age : 0 .. AGE_CAP, ok : BOOLEAN]
    BY DEF SInv, TypeOK
  <2>2. ASSUME NEW a \in Asset
        PROVE  /\ oracle[a].age \in 0 .. AGE_CAP /\ oracle'[a].age = Older(oracle[a].age)
               /\ oracle'[a] \in [price : Price, age : 0 .. AGE_CAP]
    <3>1. oracle[a] \in [price : Price, age : 0 .. AGE_CAP] /\ oracle'[a] = [oracle[a] EXCEPT !.age = Older(@)]
      BY <1>2, <2>1
    <3>2. oracle'[a] = [price |-> oracle[a].price, age |-> Older(oracle[a].age)]
      BY <3>1
    <3> QED BY <1>3, <3>1, <3>2
  <2>3. lastRun' = [age |-> Older(lastRun.age), ok |-> lastRun.ok]
    BY <1>2, <2>1
  <2> QED BY <1>3, <2>1, <2>2, <2>3
<1>5. run \in Run /\ run.took \in 0 .. RUN_MAX /\ run.clock \in Nat /\ run.clock <= run.took
  BY DEF SInv, TypeOK, Counted, Run
<1>6. /\ run' \in Run /\ run'.took \in 0 .. RUN_MAX /\ run'.clock <= run'.took
      /\ run'.step = run.step /\ run'.item = run.item /\ run'.ok = run.ok /\ run'.seen = run.seen
      /\ run'.clock = IF Running THEN run.clock + 1 ELSE run.clock
  <2>1. CASE Running
    <3>1. run' = [run EXCEPT !.took = @ + 1, !.clock = @ + 1] /\ run.took < RUN_MAX
      BY <1>2, <2>1
    <3>2. run' = [step |-> run.step, item |-> run.item, seen |-> run.seen, ok |-> run.ok,
                  stepOk |-> run.stepOk, took |-> run.took + 1, clock |-> run.clock + 1]
      BY <1>5, <3>1 DEF Run
    <3>3. run.took + 1 \in 0 .. RUN_MAX /\ run.clock + 1 <= run.took + 1 /\ run.clock + 1 \in Nat
          /\ run.took + 1 \in Nat
      BY <1>1, <1>5, <3>1
    <3>4. run' \in Run
      BY <1>5, <3>2, <3>3 DEF Run
    <3> QED BY <2>1, <3>2, <3>3, <3>4
  <2>2. CASE ~Running
    BY <1>2, <1>5, <2>2
  <2> QED BY <2>1, <2>2
<1>7. left' \in [RelayWallet -> 0 .. TTL]
  BY <1>1 DEF Tick, SInv, TypeOK
<1>8. TypeOK' /\ Wired' /\ Counted'
  <2>1. oracle' \in [Asset -> [price : Price, age : 0 .. AGE_CAP]]
    BY <1>2, <1>4
  <2>2. timer' \in 0 .. INTERVAL
    BY <1>1, <1>2 DEF SInv, TypeOK
  <2>3. TypeOK'
    BY <1>2, <1>4, <1>6, <1>7, <2>1, <2>2 DEF SInv, TypeOK
  <2>4. Wired' /\ Counted'
    <3>1. sinceRun' \in 0 .. AGE_CAP
      BY <1>2, <1>3 DEF SInv, Counted
    <3> QED BY <1>2, <1>6, <3>1 DEF SInv, Wired, Counted
  <2> QED BY <2>3, <2>4
<1>9. Timed' /\ NoRunSkipped'
  <2>1. sinceRun \in 0 .. AGE_CAP /\ sinceRun <= lastRun.age /\ timer \in 0 .. INTERVAL
    BY DEF SInv, Counted, Timed, TypeOK
  <2>2. Older(sinceRun) <= Older(lastRun.age)
    BY <1>1, <1>4, <2>1 DEF Older
  <2>3. ASSUME pc = "wait" PROVE timer - 1 + Older(sinceRun) <= INTERVAL
    <3>1. timer > 0 /\ timer + sinceRun <= INTERVAL
      BY <1>1, <1>2, <2>1, <2>3 DEF SInv, NoRunSkipped
    <3>2. Older(sinceRun) <= sinceRun + 1 /\ Older(sinceRun) \in Nat
      BY <2>1, Ageing
    <3> QED BY <1>1, <2>1, <3>1, <3>2
  <2>4. ASSUME pc = "wait", lastRun.ok PROVE Older(lastRun.age) + (timer - 1) >= INTERVAL
    <3>1. lastRun.age + timer >= INTERVAL /\ timer > 0
      BY <1>2, <2>4 DEF SInv, Timed
    <3>2. Older(lastRun.age) = lastRun.age + 1 \/ Older(lastRun.age) = AGE_CAP
      BY <1>4, Ageing
    <3> QED BY <1>1, <1>4, <2>1, <3>1, <3>2
  <2>5. Timed'
    BY <1>2, <1>4, <2>2, <2>4 DEF Timed
  <2>6. NoRunSkipped'
    BY <1>2, <2>3 DEF NoRunSkipped
  <2> QED BY <2>5, <2>6
<1>10. Stamped'
  <2>1. UNCHANGED <<Items, Item, Tx, InRestamp, AfterRestamp>>
    BY <1>2, <1>6 DEF Items, Item, Tx, InRestamp, AfterRestamp
  <2>2. InRestamp \/ AfterRestamp => run'.clock = run.clock + 1
    BY <1>6 DEF InRestamp, AfterRestamp, Running, Up
  <2>3. ASSUME NEW a \in Asset, oracle[a].age < RESTAMP_AFTER + run.clock
        PROVE  oracle'[a].age < RESTAMP_AFTER + run.clock + 1
    <3>1. Older(oracle[a].age) <= oracle[a].age + 1 /\ Older(oracle[a].age) \in Nat
      BY <1>4, Ageing
    <3> QED BY <1>1, <1>4, <1>5, <2>3, <3>1
  <2>4. ASSUME pc \in {"price", "send", "receipt"}
        PROVE  \A i \in 1 .. Len(ASSETS) :
                 i < run'.item => oracle'[ASSETS[i]].age < RESTAMP_AFTER + run'.clock
    <3> SUFFICES ASSUME NEW i \in 1 .. Len(ASSETS), i < run.item
                 PROVE  oracle'[ASSETS[i]].age < RESTAMP_AFTER + run'.clock
      BY <1>6
    <3>1. ASSETS[i] \in Asset
      BY KeeperAssumption
    <3>2. oracle[ASSETS[i]].age < RESTAMP_AFTER + run.clock
      BY <2>4 DEF SInv, Stamped
    <3>3. run'.clock = run.clock + 1
      BY <2>2, <2>4 DEF InRestamp
    <3>4. oracle'[ASSETS[i]].age < RESTAMP_AFTER + run.clock + 1
      BY <3>1, <3>2, <2>3
    <3> QED BY <1>1, <1>5, <3>3, <3>4
  <2>5. ASSUME pc = "receipt", Tx \notin pending PROVE oracle'[Item].age <= run'.clock
    <3>1. Item \in Asset /\ oracle[Item].age <= run.clock
      BY <2>5, AtItem DEF SInv, Stamped
    <3>2. Older(oracle[Item].age) <= oracle[Item].age + 1 /\ Older(oracle[Item].age) \in Nat
      BY <1>4, <3>1, Ageing
    <3>3. run'.clock = run.clock + 1
      BY <2>2, <2>5 DEF InRestamp
    <3> QED BY <1>4, <1>5, <3>1, <3>2, <3>3
  <2>6. ASSUME AfterRestamp, Has(steps, Restamp), run.ok, NEW a \in Asset
        PROVE  oracle'[a].age < RESTAMP_AFTER + run'.clock
    <3>1. oracle[a].age < RESTAMP_AFTER + run.clock
      BY <2>6 DEF SInv, Stamped
    <3>2. oracle'[a].age < RESTAMP_AFTER + run.clock + 1
      BY <2>3, <3>1
    <3> QED BY <1>1, <1>5, <2>2, <2>6, <3>2
  <2> QED BY <1>2, <1>6, <2>1, <2>4, <2>5, <2>6 DEF SInv, Stamped, Has
<1>11. Recorded'
  <2> SUFFICES ASSUME lastRun.ok, Has(steps, Restamp), NEW a \in Asset
               PROVE  oracle'[a].age < RESTAMP_AFTER + RUN_MAX + lastRun'.age
    BY <1>2, <1>4 DEF Recorded, Has
  <2>1. oracle[a].age < RESTAMP_AFTER + RUN_MAX + lastRun.age
    BY DEF SInv, Recorded
  <2>2. /\ Older(oracle[a].age) <= oracle[a].age + 1 /\ Older(oracle[a].age) \in 0 .. AGE_CAP
        /\ Older(lastRun.age) = lastRun.age + 1 \/ Older(lastRun.age) = AGE_CAP
    BY <1>4, Ageing
  <2> QED BY <1>1, <1>4, <2>1, <2>2
<1> QED BY <1>8, <1>9, <1>10, <1>11 DEF SInv

----------------------------------------------------------------------------
(* The invariant holds.                                                       *)

LEMMA SInvInit == ServerInit => SInv
<1> SUFFICES ASSUME ServerInit PROVE SInv
  OBVIOUS
<1>1. /\ cfg \in Config /\ server = "down" /\ steps = StepsOf(cfg)
      /\ pc = "down" /\ timer = 0 /\ run = Idle /\ lastRun = NoRun /\ sinceRun = AGE_CAP
      /\ oracle = [a \in Asset |-> [price |-> Idle.seen, age |-> 0]]
      /\ pending = {} /\ left = [w \in RelayWallet |-> 0]
  BY DEF ServerInit, KeeperInit
<1>2. {AGE_CAP, INTERVAL, RUN_MAX, TTL} \subseteq Nat
  BY KeeperAssumption
<1>3. Idle \in Run /\ Idle.took = 0 /\ Idle.clock = 0 /\ Idle.seen \in Price
  BY IdleType DEF Run
<1>4. TypeOK
  BY <1>1, <1>2, <1>3 DEF TypeOK, NoRun
<1>5. Wired /\ Counted /\ Timed /\ NoRunSkipped
  BY <1>1, <1>2, <1>3 DEF Wired, Counted, Timed, NoRunSkipped, NoRun
<1>6. Stamped /\ Recorded
  BY <1>1 DEF Stamped, Recorded, InRestamp, AfterRestamp, NoRun
<1> QED BY <1>4, <1>5, <1>6 DEF SInv

LEMMA StepKeeps == ASSUME SInv, Step, UNCHANGED <<cfg, server>> PROVE SInv'
<1>1. \/ Schedule \/ Begin \/ OracleThrows \/ RelayThrows \/ CheckOwner \/ ReadPrice \/ SendPrice
      \/ AwaitReceipt \/ (\E answered \in BOOLEAN : Ping(answered)) \/ ReadScore \/ Attest \/ NotAttested
      \/ (\E age \in 0 .. SCORE_AGE : Submit(age)) \/ (\E stored \in BOOLEAN : Record(stored))
  BY DEF Step
<1> QED BY <1>1, ScheduleKeeps, BeginKeeps, OracleThrowsKeeps, RelayThrowsKeeps, CheckOwnerKeeps,
           ReadPriceKeeps, SendPriceKeeps, AwaitReceiptKeeps, PingKeeps, ReadScoreKeeps, AttestKeeps,
           NotAttestedKeeps, SubmitKeeps, RecordKeeps

LEMMA SInvStep == SInv /\ [ServerNext]_serverVars => SInv'
<1> SUFFICES ASSUME SInv, [ServerNext]_serverVars PROVE SInv'
  OBVIOUS
<1>1. CASE Exit
  BY <1>1, ServerKeeps DEF Exit
<1>2. CASE Boot
  BY <1>2, BootKeeps
<1>3. CASE Serve
  BY <1>3, ServerKeeps DEF Serve, SInv, Wired
<1>4. CASE Die
  BY <1>4, DieKeeps
<1>5. CASE KeeperMoves
  <2>1. UNCHANGED <<cfg, server>>
    BY <1>5 DEF KeeperMoves
  <2>2. CASE Step
    BY <2>1, <2>2, StepKeeps
  <2>3. CASE Tick
    BY <2>1, <2>3, TickKeeps
  <2>4. CASE OracleMoves
    BY <2>1, <2>4, MineKeeps, LossKeeps, OwnerKeeps DEF OracleMoves
  <2>5. CASE \E w \in RelayWallet : Liquidation(w)
    BY <2>1, <2>5, LossKeeps
  <2> QED BY <1>5, <2>2, <2>3, <2>4, <2>5 DEF KeeperMoves
<1>6. CASE RequestsMove
  BY <1>6, ServerKeeps DEF RequestsMove, SInv, Wired
<1>7. CASE UNCHANGED serverVars
  BY <1>7, ServerKeeps DEF serverVars, SInv, Wired
<1> QED BY <1>1, <1>2, <1>3, <1>4, <1>5, <1>6, <1>7 DEF ServerNext

LEMMA ServerInvariance == Spec => []SInv
BY SInvInit, SInvStep, PTL DEF Spec

----------------------------------------------------------------------------
(* The rate limit.  With a database the hits are counted in two rows, that of *)
(* the fixed window the clock is in and the one before: what passed in the    *)
(* last WINDOW ticks is split at the edge between them.                       *)

Keys == Ip \cup Wallet
Ages == 0 .. WINDOW - 1
LimitOf(k) == IF k \in Ip THEN RATE_PER_IP ELSE RATE_PER_ADDRESS
Sum(f, S) == SumFunctionOnSet(f, S)

\* A request between its two hits has an age the database is allowed, none in memory.
Waiting(sl, rq) ==
    /\ DOMAIN rq = Request
    /\ \A r \in Request :
         rq[r] # RL!Idle => rq[r] \in [wallet : Wallet, age : 0 .. (IF sl THEN 0 ELSE DELAY)]

\* The hits in memory are what was let through, and none is older than the last.
InMemory(k, h, ps, q) ==
    /\ h = ps
    /\ Sum(ps, Ages) <= LimitOf(k)
    /\ \A a \in Ages : ps[a] > 0 => q <= a

\* Each row counts at least what was let through on its side of the edge.
InDatabase(k, off, rw, ps, q) ==
    /\ rw \in [this : 0 .. LimitOf(k), last : 0 .. LimitOf(k)]
    /\ Sum(ps, 0 .. off) <= rw.this
    /\ Sum(ps, off + 1 .. WINDOW - 1) <= rw.last
    /\ rw.this > 0 => q <= off

CountOK(k, sl, off, h, rw, ps, q) ==
    /\ ps \in [Ages -> Nat] /\ q \in 0 .. WINDOW
    /\ IF sl THEN InMemory(k, h, ps, q) ELSE InDatabase(k, off, rw, ps, q)

RateOK(sl, off, h, rw, rq, ps, q) ==
    /\ sl \in BOOLEAN /\ off \in Ages
    /\ Waiting(sl, rq)
    /\ DOMAIN h = Keys /\ DOMAIN rw = Keys /\ DOMAIN ps = Keys /\ DOMAIN q = Keys
    /\ \A k \in Keys : CountOK(k, sl, off, h[k], rw[k], ps[k], q[k])

RInv == RateOK(sliding, offset, hits, rows, request, passed, quiet)

LEMMA Sizes ==
    /\ RATE_PER_IP \in Nat \ {0} /\ RATE_PER_ADDRESS \in Nat \ {0} /\ WINDOW \in Nat \ {0}
    /\ DELAY \in 0 .. WINDOW - 1 /\ Ip \cap Wallet = {}
    /\ \A k : LimitOf(k) \in Nat \ {0}
    /\ \A m, n \in Int : IsFiniteSet(m .. n)
<1>1. \A m, n \in Int : IsFiniteSet(m .. n)
  BY FS_Interval
<1> QED BY <1>1, ServerAssumption DEF LimitOf

LEMMA RateNames ==
    RL!Key = Keys /\ RL!Age = Ages /\ \A k : RL!Limit(k) = LimitOf(k)
BY DEF RL!Key, RL!Age, RL!Limit, Keys, Ages, LimitOf

LEMMA SumOfAll == ASSUME NEW f \in [Ages -> Nat] PROVE RL!SumFunction(f) = Sum(f, Ages)
BY DEF RL!SumFunction, RL!SumFunctionOnSet, RL!FoldFunctionOnSet, RL!MapThenFoldSet,
       Sum, SumFunctionOnSet, FoldFunctionOnSet, MapThenFoldSet

\* A stretch of the ages.
LEMMA SumOfPart ==
    ASSUME NEW f \in [Ages -> Nat], NEW m \in Nat, NEW n \in Int, n <= WINDOW - 1
    PROVE  Sum(f, m .. n) \in Nat /\ Sum(f, m .. n) <= Sum(f, Ages)
<1>1. m .. n \subseteq Ages /\ IsFiniteSet(m .. n) /\ IsFiniteSet(Ages)
  BY Sizes DEF Ages
<1> DEFINE S == m .. n  h == [y \in S |-> y]
<1>2. h \in [S -> Ages] /\ (\A y, z \in S : h[y] = h[z] => y = z) /\ \A y \in S : f[y] <= f[h[y]] /\ f[y] \in Nat
  BY <1>1
<1>3. (\A y \in S : f[y] \in Nat) /\ \A z \in Ages : f[z] \in Nat
  BY <1>1
<1> HIDE DEF S, h
<1>4. Sum(f, S) <= Sum(f, Ages)
  BY <1>1, <1>2, <1>3, SumInto DEF Sum, S
<1>5. Sum(f, S) \in Nat
  BY <1>1, <1>3, SumType DEF Sum, S
<1> QED BY <1>4, <1>5 DEF S

LEMMA SumIsNat ==
    ASSUME NEW f \in [Ages -> Nat]
    PROVE  \A m \in Nat, n \in Int : n <= WINDOW - 1 => Sum(f, m .. n) \in Nat
BY SumOfPart

LEMMA SumOfAges == ASSUME NEW f \in [Ages -> Nat] PROVE Sum(f, Ages) \in Nat
<1>1. IsFiniteSet(Ages) /\ \A y \in Ages : f[y] \in Nat
  BY Sizes DEF Ages
<1> QED BY <1>1, SumType DEF Sum

\* A shorter stretch holds no more.
LEMMA SumOfLess ==
    ASSUME NEW f \in [Ages -> Nat], NEW m \in Nat, NEW l \in Int, NEW n \in Int, l <= n, n <= WINDOW - 1
    PROVE  Sum(f, m .. l) <= Sum(f, m .. n)
<1> DEFINE S == m .. l  T == m .. n  h == [y \in S |-> y]
<1>1. S \subseteq T /\ T \subseteq Ages /\ IsFiniteSet(S) /\ IsFiniteSet(T)
  BY Sizes DEF Ages
<1>2. h \in [S -> T] /\ (\A y, z \in S : h[y] = h[z] => y = z) /\ \A y \in S : f[y] <= f[h[y]] /\ f[y] \in Nat
  BY <1>1
<1>3. (\A y \in S : f[y] \in Nat) /\ \A z \in T : f[z] \in Nat
  BY <1>1
<1> HIDE DEF S, T, h
<1>4. Sum(f, S) <= Sum(f, T)
  BY <1>1, <1>2, <1>3, SumInto DEF Sum
<1> QED BY <1>4 DEF S, T

LEMMA SumOfTwo ==
    ASSUME NEW f \in [Ages -> Nat], NEW n \in Ages
    PROVE  Sum(f, Ages) = Sum(f, 0 .. n) + Sum(f, n + 1 .. WINDOW - 1)
<1> DEFINE S == 0 .. n  T == n + 1 .. WINDOW - 1
<1>1. n \in 0 .. WINDOW - 1 /\ WINDOW \in Nat
  BY Sizes DEF Ages
<1>2. S \cup T = Ages /\ S \cap T = {}
  BY <1>1 DEF Ages
<1>3. IsFiniteSet(S) /\ IsFiniteSet(T)
  BY <1>1, Sizes
<1> HIDE DEF S, T
<1>4. \A y \in S \cup T : f[y] \in Nat
  BY <1>2
<1>5. SumFunctionOnSet(f, S \cup T) = SumFunctionOnSet(f, S) + SumFunctionOnSet(f, T)
  BY <1>2, <1>3, <1>4, SumJoin
<1> QED BY <1>2, <1>5 DEF S, T, Sum

\* A unit of time later, no stretch holds more than it held a unit younger.
LEMMA SumAged ==
    ASSUME NEW f \in [Ages -> Nat], NEW m \in Nat, m > 0, NEW n \in Int, n <= WINDOW - 1
    PROVE  /\ RL!Aged(f) \in [Ages -> Nat]
           /\ Sum(RL!Aged(f), m .. n) <= Sum(f, m - 1 .. n - 1)
           /\ Sum(RL!Aged(f), 0 .. n) <= Sum(f, 0 .. n - 1)
<1> DEFINE g == RL!Aged(f)
<1>0. WINDOW \in Nat /\ WINDOW > 0
  BY Sizes
<1>1. g \in [Ages -> Nat] /\ g[0] = 0 /\ \A a \in Ages : a > 0 => g[a] = f[a - 1] /\ a - 1 \in Ages
  BY <1>0 DEF RL!Aged, RL!Age, Ages
<1> HIDE DEF g
<1>2. ASSUME NEW l \in Nat, l > 0 PROVE Sum(g, l .. n) <= Sum(f, l - 1 .. n - 1)
  <2> DEFINE S == l .. n  T == l - 1 .. n - 1  h == [y \in S |-> y - 1]
  <2>1. S \subseteq Ages /\ T \subseteq Ages /\ IsFiniteSet(S) /\ IsFiniteSet(T)
    BY <1>0, <1>2, Sizes DEF Ages
  <2>2. h \in [S -> T] /\ \A y, z \in S : h[y] = h[z] => y = z
    BY <1>2
  <2>3. ASSUME NEW y \in S PROVE g[y] \in Nat /\ g[y] <= f[h[y]]
    <3>1. y \in Ages /\ y > 0 /\ h[y] = y - 1
      BY <1>2, <2>1
    <3> QED BY <1>1, <3>1
  <2>4. \A z \in T : f[z] \in Nat
    BY <2>1
  <2> HIDE DEF S, T, h
  <2>5. SumFunctionOnSet(g, S) <= SumFunctionOnSet(f, T)
    BY <2>1, <2>2, <2>3, <2>4, SumInto
  <2> QED BY <2>5 DEF S, T, Sum
<1>3. Sum(g, 0 .. n) <= Sum(f, 0 .. n - 1)
  <2>1. CASE n < 0
    <3>1. 0 .. n = {} /\ 0 .. n - 1 = {}
      BY <2>1
    <3>2. Sum(g, {}) = 0 /\ Sum(f, {}) = 0
      BY FS_EmptySet, SumZero DEF Sum
    <3> QED BY <3>1, <3>2
  <2>2. CASE n >= 0
    <3> DEFINE S == 0 .. n
    <3>1. S \ {0} = 1 .. n /\ 0 \in S /\ IsFiniteSet(S) /\ S \subseteq Ages
      BY <2>2, <1>0, Sizes DEF Ages
    <3>2. Sum(g, 1 .. n) <= Sum(f, 0 .. n - 1)
      BY <1>2
    <3>3. \A y \in S : g[y] \in Nat
      BY <1>1, <3>1
    <3> HIDE DEF S
    <3>4. SumFunctionOnSet(g, S) = g[0] + SumFunctionOnSet(g, S \ {0}) /\ SumFunctionOnSet(g, S \ {0}) \in Nat
      BY <3>1, <3>3, SumAdd
    <3>5. SumFunctionOnSet(g, S) = SumFunctionOnSet(g, S \ {0})
      BY <1>1, <3>4
    <3>6. SumFunctionOnSet(g, S) = SumFunctionOnSet(g, 1 .. n)
      BY <3>1, <3>5
    <3> QED BY <3>2, <3>6 DEF S, Sum
  <2> QED BY <2>1, <2>2
<1> QED BY <1>1, <1>2, <1>3 DEF g

\* A hit let through is one more at its age.
LEMMA SumHit ==
    ASSUME NEW f \in [Ages -> Nat], NEW a \in Ages, NEW g, g = [f EXCEPT ![a] = f[a] + 1],
           NEW m \in Nat, NEW n \in Int, n <= WINDOW - 1
    PROVE  /\ g \in [Ages -> Nat]
           /\ Sum(g, m .. n) = Sum(f, m .. n) + (IF a \in m .. n THEN 1 ELSE 0)
<1> DEFINE S == m .. n
<1>1. g \in [Ages -> Nat] /\ g[a] = f[a] + 1 /\ \A y \in Ages : y # a => g[y] = f[y]
  OBVIOUS
<1>2. S \subseteq Ages /\ IsFiniteSet(S)
  BY Sizes DEF Ages
<1> HIDE DEF S
<1>3. (\A y \in S : g[y] \in Nat) /\ (\A y \in S : f[y] \in Nat) /\ f[a] \in Nat
  BY <1>1, <1>2
<1>4. CASE a \notin S
  <2>1. \A y \in S : g[y] \in Nat /\ g[y] = f[y]
    BY <1>1, <1>2, <1>4
  <2>2. SumFunctionOnSet(g, S) = SumFunctionOnSet(f, S)
    BY <1>2, <2>1, SumSame
  <2>3. Sum(f, S) \in Nat
    BY <1>2, <1>3, SumType DEF Sum
  <2> QED BY <1>1, <1>4, <2>2, <2>3 DEF Sum, S
<1>5. CASE a \in S
  <2> DEFINE T == S \ {a}
  <2>1. T \subseteq Ages /\ IsFiniteSet(T) /\ \A y \in T : g[y] \in Nat /\ g[y] = f[y]
    BY <1>1, <1>2, FS_Subset
  <2>2. SumFunctionOnSet(f, S) = f[a] + SumFunctionOnSet(f, T) /\ SumFunctionOnSet(f, T) \in Nat
    BY <1>2, <1>3, <1>5, SumAdd
  <2>3. SumFunctionOnSet(g, S) = g[a] + SumFunctionOnSet(g, T)
    BY <1>2, <1>3, <1>5, SumAdd
  <2> HIDE DEF T
  <2>4. SumFunctionOnSet(g, T) = SumFunctionOnSet(f, T)
    BY <2>1, SumSame
  <2>5. Sum(g, S) = Sum(f, S) + 1
    BY <1>1, <1>3, <2>2, <2>3, <2>4 DEF Sum
  <2> QED BY <1>1, <1>5, <2>5 DEF S
<1> QED BY <1>4, <1>5

\* What Free says, in terms of the invariant.
LEMMA FreeIs ==
    ASSUME RInv, NEW k \in Keys, NEW age
    PROVE  RL!Free(k, age) <=>
             IF sliding THEN Sum(passed[k], Ages) < LimitOf(k)
                        ELSE rows[k][IF age <= offset THEN "this" ELSE "last"] + 1 <= LimitOf(k)
<1>1. CountOK(k, sliding, offset, hits[k], rows[k], passed[k], quiet[k])
  BY DEF RInv, RateOK
<1>2. sliding => RL!SumFunction(hits[k]) = Sum(passed[k], Ages)
  BY <1>1, SumOfAll DEF CountOK, InMemory
<1> QED BY <1>2, RateNames DEF RL!Free, RL!Row

\* A hit, on a key of either kind.
LEMMA HitKeeps ==
    ASSUME RInv, NEW k \in Keys, NEW age \in Ages, sliding => age = 0, RL!Hit(k, age),
           Waiting(sliding, request')
    PROVE  RInv'
<1> DEFINE f == passed[k]  g == [f EXCEPT ![age] = @ + 1]
<1>1. /\ CountOK(k, sliding, offset, hits[k], rows[k], f, quiet[k])
      /\ DOMAIN hits = Keys /\ DOMAIN rows = Keys /\ DOMAIN passed = Keys /\ DOMAIN quiet = Keys
      /\ offset \in Ages /\ sliding \in BOOLEAN
  BY DEF RInv, RateOK
<1>2. /\ DOMAIN hits' = Keys /\ DOMAIN rows' = Keys /\ DOMAIN passed' = Keys /\ DOMAIN quiet' = Keys
      /\ offset' = offset /\ sliding' = sliding /\ quiet'[k] = 0
      /\ \A j \in Keys : j # k => hits'[j] = hits[j] /\ rows'[j] = rows[j]
                                  /\ passed'[j] = passed[j] /\ quiet'[j] = quiet[j]
  BY <1>1 DEF RL!Hit
<1>3. f \in [Ages -> Nat] /\ LimitOf(k) \in Nat \ {0} /\ WINDOW \in Nat \ {0} /\ offset \in 0 .. WINDOW - 1
  BY <1>1, Sizes DEF CountOK, Ages
<1>4. CASE ~RL!Free(k, age)
  <2>1. hits'[k] = hits[k] /\ rows'[k] = rows[k] /\ passed'[k] = f
    BY <1>1, <1>4 DEF RL!Hit
  <2>2. CountOK(k, sliding, offset, hits[k], rows[k], f, 0)
    BY <1>1, <1>3 DEF CountOK, InMemory, InDatabase, Ages
  <2> QED BY <1>1, <1>2, <2>1, <2>2 DEF RInv, RateOK
<1>5. CASE RL!Free(k, age)
  <2>1. passed'[k] = g
    BY <1>1, <1>3, <1>5 DEF RL!Hit
  <2>2. CASE sliding
    <3>1. hits'[k] = g
      <4>1. hits[k] = f
        BY <1>1, <2>2 DEF CountOK, InMemory
      <4> QED BY <1>1, <1>5, <2>2, <4>1 DEF RL!Hit
    <3>2. Sum(f, Ages) < LimitOf(k)
      BY <1>5, <2>2, FreeIs
    <3>3. g \in [Ages -> Nat] /\ Sum(g, Ages) = Sum(f, Ages) + 1
      <4>1. WINDOW - 1 \in Int /\ WINDOW - 1 <= WINDOW - 1 /\ 0 \in Nat
        BY <1>3
      <4>2. /\ Sum(g, 0 .. WINDOW - 1) = Sum(f, 0 .. WINDOW - 1) + (IF age \in 0 .. WINDOW - 1 THEN 1 ELSE 0)
            /\ g \in [Ages -> Nat]
        BY <1>3, <4>1, SumHit
      <4> HIDE DEF f, g
      <4> QED BY <4>2 DEF Ages
    <3>4. Sum(f, Ages) \in Nat
      BY <1>3, SumOfPart DEF Ages
    <3>5. Sum(g, Ages) <= LimitOf(k)
      BY <1>3, <3>2, <3>3, <3>4
    <3>6. \A a \in Ages : 0 <= a
      BY DEF Ages
    <3> HIDE DEF f, g
    <3>7. CountOK(k, sliding, offset, g, rows'[k], g, 0)
      BY <1>3, <2>2, <3>3, <3>5, <3>6 DEF CountOK, InMemory
    <3> QED BY <1>1, <1>2, <2>1, <3>1, <3>7 DEF RInv, RateOK
  <2>3. CASE ~sliding
    <3> DEFINE R == rows[k]  side == IF age <= offset THEN "this" ELSE "last"
               Q == [R EXCEPT ![side] = @ + 1]
    <3>1. rows'[k] = Q
      BY <1>1, <1>5, <2>3 DEF RL!Hit, RL!Row
    <3>2. R[side] + 1 <= LimitOf(k)
      BY <1>5, <2>3, FreeIs
    <3>3. /\ g \in [Ages -> Nat]
          /\ Sum(g, 0 .. offset) = Sum(f, 0 .. offset) + (IF age <= offset THEN 1 ELSE 0)
          /\ Sum(g, offset + 1 .. WINDOW - 1) = Sum(f, offset + 1 .. WINDOW - 1) + (IF age <= offset THEN 0 ELSE 1)
      <4>1. age \in 0 .. offset <=> age <= offset
        BY <1>3 DEF Ages
      <4>2. age \in offset + 1 .. WINDOW - 1 <=> ~(age <= offset)
        BY <1>3 DEF Ages
      <4>3. /\ Sum(g, 0 .. offset) = Sum(f, 0 .. offset) + (IF age \in 0 .. offset THEN 1 ELSE 0)
            /\ g \in [Ages -> Nat]
        BY <1>3, SumHit
      <4>4. Sum(g, offset + 1 .. WINDOW - 1)
              = Sum(f, offset + 1 .. WINDOW - 1) + (IF age \in offset + 1 .. WINDOW - 1 THEN 1 ELSE 0)
        BY <1>3, SumHit
      <4> HIDE DEF f, g
      <4> QED BY <4>1, <4>2, <4>3, <4>4
    <3>4. Sum(f, 0 .. offset) \in Nat /\ Sum(f, offset + 1 .. WINDOW - 1) \in Nat
      <4>1. offset + 1 \in Nat /\ 0 \in Nat /\ offset \in Int /\ offset <= WINDOW - 1
            /\ WINDOW - 1 \in Int /\ WINDOW - 1 <= WINDOW - 1
        BY <1>3
      <4>2. Sum(f, 0 .. offset) \in Nat
        BY <1>3, <4>1, SumOfPart
      <4>3. Sum(f, offset + 1 .. WINDOW - 1) \in Nat
        BY <1>3, <4>1, SumOfPart
      <4> QED BY <4>2, <4>3
    <3>5. /\ R.this \in 0 .. LimitOf(k) /\ R.last \in 0 .. LimitOf(k)
          /\ Sum(f, 0 .. offset) <= R.this /\ Sum(f, offset + 1 .. WINDOW - 1) <= R.last
      BY <1>1, <2>3 DEF CountOK, InDatabase
    <3>6. R \in [this : 0 .. LimitOf(k), last : 0 .. LimitOf(k)]
      BY <1>1, <2>3 DEF CountOK, InDatabase
    <3>7. ASSUME age <= offset
          PROVE  Q \in [this : 0 .. LimitOf(k), last : 0 .. LimitOf(k)]
          /\ Sum(g, 0 .. offset) <= Q.this /\ Sum(g, offset + 1 .. WINDOW - 1) <= Q.last
      <4>1. Q.this = R.this + 1 /\ Q.last = R.last /\ R.this + 1 <= LimitOf(k)
        BY <3>2, <3>6, <3>7
      <4>2. Q \in [this : 0 .. LimitOf(k), last : 0 .. LimitOf(k)]
        BY <1>3, <3>2, <3>6, <3>7
      <4> HIDE DEF f, g, Q, R
      <4>3. Sum(g, 0 .. offset) <= Q.this /\ Sum(g, offset + 1 .. WINDOW - 1) <= Q.last
        BY <1>3, <3>3, <3>4, <3>5, <3>7, <4>1
      <4> QED BY <4>2, <4>3
    <3>8. ASSUME ~(age <= offset)
          PROVE  Q \in [this : 0 .. LimitOf(k), last : 0 .. LimitOf(k)]
          /\ Sum(g, 0 .. offset) <= Q.this /\ Sum(g, offset + 1 .. WINDOW - 1) <= Q.last
      <4>1. Q.this = R.this /\ Q.last = R.last + 1 /\ R.last + 1 <= LimitOf(k)
        BY <3>2, <3>6, <3>8
      <4>2. Q \in [this : 0 .. LimitOf(k), last : 0 .. LimitOf(k)]
        BY <1>3, <3>2, <3>6, <3>8
      <4> HIDE DEF f, g, Q, R
      <4>3. Sum(g, 0 .. offset) <= Q.this /\ Sum(g, offset + 1 .. WINDOW - 1) <= Q.last
        BY <1>3, <3>3, <3>4, <3>5, <3>8, <4>1
      <4> QED BY <4>2, <4>3
    <3>9. 0 <= offset
      BY <1>3
    <3> HIDE DEF f, g, Q
    <3>10. CountOK(k, sliding, offset, hits'[k], Q, g, 0)
      BY <1>3, <2>3, <3>3, <3>7, <3>8, <3>9 DEF CountOK, InDatabase
    <3> QED BY <1>1, <1>2, <2>1, <3>1, <3>10 DEF RInv, RateOK
  <2> QED BY <1>1, <2>2, <2>3
<1> QED BY <1>4, <1>5

LEMMA HitIpKeeps ==
    ASSUME RInv, NEW r \in Request, NEW ip \in Ip, NEW w \in Wallet, RL!HitIp(r, ip, w)
    PROVE  RInv'
<1>1. ip \in Keys /\ 0 \in Ages
  BY Sizes DEF Keys, Ages
<1>2. RL!Hit(ip, 0)
  BY DEF RL!HitIp
<1>3. Waiting(sliding, request')
  BY Sizes DEF RInv, RateOK, Waiting, RL!HitIp
<1> QED BY <1>1, <1>2, <1>3, HitKeeps

LEMMA HitAddressKeeps == ASSUME RInv, NEW r \in Request, RL!HitAddress(r) PROVE RInv'
<1>1. /\ request[r].wallet \in Keys /\ request[r].age \in Ages
      /\ sliding => request[r].age = 0
  BY Sizes DEF RInv, RateOK, Waiting, RL!HitAddress, Keys, Ages
<1>2. RL!Hit(request[r].wallet, request[r].age)
  BY DEF RL!HitAddress
<1>3. Waiting(sliding, request')
  BY DEF RInv, RateOK, Waiting, RL!HitAddress
<1> QED BY <1>1, <1>2, <1>3, HitKeeps

\* The clock at the next unit of the fixed window, or at the start of another.
LEMMA NextOffset ==
    ASSUME offset \in Ages
    PROVE  IF offset + 1 < WINDOW THEN (offset + 1) % WINDOW = offset + 1
                                  ELSE offset + 1 = WINDOW /\ (offset + 1) % WINDOW = 0
<1>1. offset \in Nat /\ WINDOW \in Nat \ {0} /\ offset + 1 <= WINDOW
  BY Sizes DEF Ages
<1> QED BY <1>1, SMTT(30)

LEMMA RateTickKeeps == ASSUME RInv, RL!RateTick PROVE RInv'
<1>1. /\ offset \in Ages /\ sliding \in BOOLEAN /\ sliding' = sliding
      /\ offset' = (offset + 1) % WINDOW
      /\ WINDOW \in Nat \ {0} /\ DELAY \in 0 .. WINDOW - 1 /\ offset \in 0 .. WINDOW - 1
  BY Sizes DEF RInv, RateOK, RL!RateTick, Ages
<1>2. /\ DOMAIN hits' = Keys /\ DOMAIN passed' = Keys /\ DOMAIN quiet' = Keys /\ DOMAIN rows' = Keys
      /\ \A k \in Keys :
           /\ hits'[k] = RL!Aged(hits[k]) /\ passed'[k] = RL!Aged(passed[k])
           /\ quiet'[k] = IF quiet[k] < WINDOW THEN quiet[k] + 1 ELSE WINDOW
           /\ rows'[k] = IF offset' = 0 THEN [this |-> 0, last |-> rows[k].this] ELSE rows[k]
  BY RateNames DEF RInv, RateOK, RL!RateTick, RL!NextRows
<1>3. Waiting(sliding', request')
  <2>0. request' = [r \in Request |-> IF request[r] = RL!Idle THEN RL!Idle ELSE [request[r] EXCEPT !.age = @ + 1]]
    BY DEF RL!RateTick
  <2> SUFFICES ASSUME NEW r \in Request, request'[r] # RL!Idle
               PROVE  request'[r] \in [wallet : Wallet, age : 0 .. (IF sliding THEN 0 ELSE DELAY)]
    BY <1>1, <2>0 DEF Waiting
  <2>1. request[r] # RL!Idle /\ ~sliding /\ request[r].age < DELAY
        /\ request'[r] = [request[r] EXCEPT !.age = @ + 1]
    BY DEF RL!RateTick
  <2>2. request[r] \in [wallet : Wallet, age : 0 .. DELAY]
    BY <2>1 DEF RInv, RateOK, Waiting
  <2> QED BY <1>1, <2>1, <2>2
<1>4. offset' \in Ages
  BY <1>1, NextOffset DEF Ages
<1>5. ASSUME NEW k \in Keys PROVE CountOK(k, sliding, offset', hits'[k], rows'[k], passed'[k], quiet'[k])
  <2> DEFINE f == passed[k]  g == RL!Aged(f)  q == quiet[k]  R == rows[k]
  <2>1. CountOK(k, sliding, offset, hits[k], R, f, q)
    BY DEF RInv, RateOK
  <2>2. f \in [Ages -> Nat] /\ q \in 0 .. WINDOW /\ LimitOf(k) \in Nat \ {0}
    BY <2>1, Sizes DEF CountOK
  <2>3. /\ passed'[k] = g /\ hits'[k] = RL!Aged(hits[k])
        /\ quiet'[k] = IF q < WINDOW THEN q + 1 ELSE WINDOW
        /\ quiet'[k] \in 0 .. WINDOW
    BY <1>1, <1>2, <2>2
  <2>4. ASSUME NEW n \in Nat, n <= WINDOW - 1
        PROVE  /\ g \in [Ages -> Nat]
               /\ Sum(g, 0 .. n) <= Sum(f, 0 .. n - 1)
               /\ Sum(g, n + 1 .. WINDOW - 1) <= Sum(f, n .. WINDOW - 2)
    <3>1. n + 1 \in Nat /\ n + 1 > 0 /\ (n + 1) - 1 = n /\ (WINDOW - 1) - 1 = WINDOW - 2
          /\ WINDOW - 1 \in Int /\ WINDOW - 1 <= WINDOW - 1 /\ n \in Int
      BY <1>1, <2>4
    <3>2. Sum(g, n + 1 .. WINDOW - 1) <= Sum(f, (n + 1) - 1 .. (WINDOW - 1) - 1)
      BY <2>2, <3>1, SumAged
    <3>3. g \in [Ages -> Nat] /\ Sum(g, 0 .. n) <= Sum(f, 0 .. n - 1)
      BY <2>2, <2>4, <3>1, SumAged
    <3> QED BY <3>1, <3>2, <3>3
  <2>5. CASE sliding
    <3>1. f = hits[k] /\ Sum(f, Ages) <= LimitOf(k) /\ \A a \in Ages : f[a] > 0 => q <= a
      BY <2>1, <2>5 DEF CountOK, InMemory
    <3>2. Sum(g, Ages) <= Sum(f, Ages) /\ g \in [Ages -> Nat]
      <4>1. WINDOW - 1 \in Nat /\ WINDOW - 2 \in Int /\ WINDOW - 2 <= WINDOW - 1 /\ (WINDOW - 1) - 1 = WINDOW - 2
        BY <1>1
      <4>2. Sum(g, 0 .. WINDOW - 1) <= Sum(f, 0 .. (WINDOW - 1) - 1) /\ g \in [Ages -> Nat]
        BY <2>4, <4>1
      <4>3. Sum(f, 0 .. WINDOW - 2) <= Sum(f, Ages) /\ Sum(f, 0 .. WINDOW - 2) \in Nat
        BY <2>2, <4>1, SumOfPart
      <4>4. Sum(f, Ages) \in Nat /\ Sum(g, Ages) \in Nat
        BY <2>2, <4>2, SumOfAges
      <4> HIDE DEF f, g
      <4> QED BY <4>1, <4>2, <4>3, <4>4 DEF Ages
    <3>3. ASSUME NEW a \in Ages, g[a] > 0 PROVE quiet'[k] <= a
      <4>1. a > 0 /\ g[a] = f[a - 1] /\ a - 1 \in Ages /\ a \in 0 .. WINDOW - 1
        BY <1>1, <3>3 DEF RL!Aged, RL!Age, Ages
      <4>2. q <= a - 1
        BY <3>1, <3>3, <4>1
      <4> QED BY <1>1, <2>2, <2>3, <4>1, <4>2
    <3>4. Sum(g, Ages) <= LimitOf(k)
      <4>1. Sum(f, Ages) \in Nat /\ Sum(g, Ages) \in Nat
        BY <2>2, <3>2, SumOfAges
      <4> QED BY <2>2, <3>1, <3>2, <4>1
    <3>5. hits'[k] = g
      BY <2>3, <3>1
    <3> HIDE DEF f, g, q
    <3> QED BY <2>3, <2>5, <3>2, <3>3, <3>4, <3>5 DEF CountOK, InMemory
  <2>6. CASE ~sliding
    <3>1. /\ R \in [this : 0 .. LimitOf(k), last : 0 .. LimitOf(k)]
          /\ Sum(f, 0 .. offset) <= R.this /\ Sum(f, offset + 1 .. WINDOW - 1) <= R.last
          /\ R.this > 0 => q <= offset
      BY <2>1, <2>6 DEF CountOK, InDatabase
    <3>2. CASE offset + 1 < WINDOW
      <4>1. offset' = offset + 1 /\ rows'[k] = R
        BY <1>1, <1>2, <3>2, NextOffset
      <4>2. offset + 1 \in Nat /\ offset + 1 <= WINDOW - 1 /\ (offset + 1) - 1 = offset
            /\ WINDOW - 2 \in Int /\ WINDOW - 2 <= WINDOW - 1 /\ WINDOW - 1 \in Int
        BY <1>1, <3>2
      <4>3. /\ g \in [Ages -> Nat]
            /\ Sum(g, 0 .. offset + 1) <= Sum(f, 0 .. (offset + 1) - 1)
            /\ Sum(g, (offset + 1) + 1 .. WINDOW - 1) <= Sum(f, offset + 1 .. WINDOW - 2)
        BY <2>4, <4>2
      <4>4. Sum(f, offset + 1 .. WINDOW - 2) <= Sum(f, offset + 1 .. WINDOW - 1)
        BY <2>2, <4>2, SumOfLess
      <4>5. /\ Sum(g, 0 .. offset + 1) <= R.this
            /\ Sum(g, (offset + 1) + 1 .. WINDOW - 1) <= R.last
        <5>1. /\ Sum(g, 0 .. offset + 1) \in Nat /\ Sum(f, 0 .. offset) \in Nat
              /\ Sum(g, (offset + 1) + 1 .. WINDOW - 1) \in Nat
              /\ Sum(f, offset + 1 .. WINDOW - 2) \in Nat /\ Sum(f, offset + 1 .. WINDOW - 1) \in Nat
          <6>1. /\ \A m \in Nat, n \in Int : n <= WINDOW - 1 => Sum(f, m .. n) \in Nat
                /\ \A m \in Nat, n \in Int : n <= WINDOW - 1 => Sum(g, m .. n) \in Nat
            BY <2>2, <4>3, SumIsNat
          <6>2. 0 \in Nat /\ (offset + 1) + 1 \in Nat /\ offset \in Int /\ offset <= WINDOW - 1
                /\ WINDOW - 1 <= WINDOW - 1 /\ offset + 1 \in Int
            BY <1>1
          <6> HIDE DEF f, g
          <6>3. Sum(g, 0 .. offset + 1) \in Nat
            BY <4>2, <6>1, <6>2
          <6>4. Sum(f, 0 .. offset) \in Nat
            BY <4>2, <6>1, <6>2
          <6>5. Sum(g, (offset + 1) + 1 .. WINDOW - 1) \in Nat
            BY <4>2, <6>1, <6>2
          <6>6. Sum(f, offset + 1 .. WINDOW - 2) \in Nat
            BY <4>2, <6>1, <6>2
          <6>7. Sum(f, offset + 1 .. WINDOW - 1) \in Nat
            BY <4>2, <6>1, <6>2
          <6> QED BY <6>3, <6>4, <6>5, <6>6, <6>7
        <5>2. R.this \in Nat /\ R.last \in Nat
          BY <2>2, <3>1
        <5> HIDE DEF f, g, R
        <5> QED BY <3>1, <4>2, <4>3, <4>4, <5>1, <5>2
      <4>6. R.this > 0 => quiet'[k] <= offset + 1
        BY <1>1, <2>2, <2>3, <3>1
      <4> HIDE DEF f, g, q, R
      <4> QED BY <2>3, <2>6, <3>1, <4>1, <4>3, <4>5, <4>6 DEF CountOK, InDatabase
    <3>3. CASE offset + 1 = WINDOW
      <4>1. offset' = 0 /\ rows'[k] = [this |-> 0, last |-> R.this]
        BY <1>1, <1>2, <3>3, NextOffset
      <4>2. 0 \in Nat /\ 0 <= WINDOW - 1 /\ WINDOW - 2 = offset - 1 /\ WINDOW - 1 = offset
            /\ offset \in Int /\ offset - 1 \in Int /\ offset - 1 <= offset /\ offset <= WINDOW - 1
        BY <1>1, <3>3
      <4>3. /\ g \in [Ages -> Nat]
            /\ Sum(g, 0 .. 0) <= Sum(f, 0 .. 0 - 1)
            /\ Sum(g, 0 + 1 .. WINDOW - 1) <= Sum(f, 0 .. WINDOW - 2)
        BY <2>4, <4>2
      <4>4. Sum(f, 0 .. offset - 1) <= Sum(f, 0 .. offset)
        BY <2>2, <4>2, SumOfLess
      <4>5. Sum(f, 0 .. 0 - 1) = 0
        <5>1. 0 .. 0 - 1 = {}
          OBVIOUS
        <5> QED BY <5>1, SumZero, FS_EmptySet DEF Sum
      <4>6. Sum(g, 0 .. 0) <= 0 /\ Sum(g, 0 + 1 .. WINDOW - 1) <= R.this
        <5>1. /\ Sum(f, 0 .. offset) \in Nat /\ Sum(f, 0 .. offset - 1) \in Nat
              /\ Sum(g, 0 + 1 .. WINDOW - 1) \in Nat
          <6>1. /\ \A m \in Nat, n \in Int : n <= WINDOW - 1 => Sum(f, m .. n) \in Nat
                /\ \A m \in Nat, n \in Int : n <= WINDOW - 1 => Sum(g, m .. n) \in Nat
            BY <2>2, <4>3, SumIsNat
          <6>2. 0 + 1 \in Nat /\ WINDOW - 1 \in Int /\ WINDOW - 1 <= WINDOW - 1 /\ offset - 1 <= WINDOW - 1
            BY <1>1
          <6> HIDE DEF f, g
          <6> QED BY <4>2, <6>1, <6>2
        <5>2. R.this \in Nat
          BY <2>2, <3>1
        <5>3. Sum(g, 0 + 1 .. WINDOW - 1) <= Sum(f, 0 .. offset - 1)
          BY <4>2, <4>3
        <5> HIDE DEF f, g, R
        <5> QED BY <3>1, <4>3, <4>4, <4>5, <5>1, <5>2, <5>3
      <4>7. [this |-> 0, last |-> R.this] \in [this : 0 .. LimitOf(k), last : 0 .. LimitOf(k)]
        BY <2>2, <3>1
      <4> HIDE DEF f, g, q, R
      <4> QED BY <2>3, <2>6, <4>1, <4>3, <4>6, <4>7 DEF CountOK, InDatabase
    <3> QED BY <1>1, <3>2, <3>3
  <2> QED BY <1>1, <2>5, <2>6
<1> QED BY <1>1, <1>2, <1>3, <1>4, <1>5 DEF RInv, RateOK

LEMMA RateRestartKeeps == ASSUME RInv, RL!RateRestart PROVE RInv'
<1>1. ASSUME NEW k \in Keys PROVE CountOK(k, sliding, offset, hits'[k], rows[k], passed'[k], quiet[k])
  <2>1. CountOK(k, sliding, offset, hits[k], rows[k], passed[k], quiet[k])
    BY DEF RInv, RateOK
  <2>2. CASE sliding
    <3> DEFINE zero == [a \in Ages |-> 0]
    <3>1. hits'[k] = zero /\ passed'[k] = zero
      BY <2>2, RateNames DEF RL!RateRestart, RL!NoHits
    <3>2. Sum(zero, Ages) = 0
      BY Sizes, SumZero DEF Sum, Ages
    <3>3. zero \in [Ages -> Nat] /\ \A a \in Ages : ~(zero[a] > 0)
      OBVIOUS
    <3>4. 0 <= LimitOf(k)
      BY Sizes
    <3> HIDE DEF zero
    <3> QED BY <2>1, <2>2, <3>1, <3>2, <3>3, <3>4 DEF CountOK, InMemory
  <2>3. CASE ~sliding
    BY <2>1, <2>3 DEF CountOK, RL!RateRestart
  <2> QED BY <2>2, <2>3
<1>2. /\ DOMAIN hits' = Keys /\ DOMAIN passed' = Keys
      /\ sliding' = sliding /\ offset' = offset /\ rows' = rows /\ quiet' = quiet
  BY RateNames DEF RL!RateRestart, RL!NoHits, RInv, RateOK
<1>3. Waiting(sliding, request')
  BY DEF RL!RateRestart, Waiting
<1> QED BY <1>1, <1>2, <1>3 DEF RInv, RateOK

LEMMA RateInitKeeps == ServerInit => RInv
<1> SUFFICES ASSUME ServerInit PROVE RInv
  OBVIOUS
<1>1. RL!RateInit(~cfg.database)
  BY DEF ServerInit
<1>2. sliding \in BOOLEAN /\ offset = 0 /\ offset \in Ages /\ Waiting(sliding, request)
  BY <1>1, Sizes DEF RL!RateInit, Ages, Waiting
<1>3. ASSUME NEW k \in Keys PROVE CountOK(k, sliding, offset, hits[k], rows[k], passed[k], quiet[k])
  <2> DEFINE zero == [a \in Ages |-> 0]
  <2>1. hits[k] = zero /\ passed[k] = zero /\ rows[k] = [this |-> 0, last |-> 0] /\ quiet[k] = WINDOW
    BY <1>1, RateNames DEF RL!RateInit, RL!NoHits
  <2>2. Sum(zero, Ages) = 0 /\ Sum(zero, 0 .. 0) = 0 /\ Sum(zero, 0 + 1 .. WINDOW - 1) = 0
    <3>1. ASSUME NEW S, S \subseteq Ages, IsFiniteSet(S) PROVE Sum(zero, S) = 0
      <4>1. \A y \in S : zero[y] = 0
        BY <3>1
      <4> HIDE DEF zero
      <4> QED BY <3>1, <4>1, SumZero DEF Sum
    <3>2. IsFiniteSet(Ages) /\ IsFiniteSet(0 .. 0) /\ IsFiniteSet(0 + 1 .. WINDOW - 1)
      <4>1. 0 \in Int /\ 0 + 1 \in Int /\ WINDOW - 1 \in Int
        BY Sizes
      <4> HIDE DEF zero
      <4>2. \A m, n \in Int : IsFiniteSet(m .. n)
        BY Sizes
      <4> QED BY <4>1, <4>2 DEF Ages
    <3>3. 0 .. 0 \subseteq Ages /\ 0 + 1 .. WINDOW - 1 \subseteq Ages
      BY Sizes DEF Ages
    <3> QED BY <3>1, <3>2, <3>3
  <2>3. zero \in [Ages -> Nat] /\ (\A a \in Ages : ~(zero[a] > 0)) /\ WINDOW \in 0 .. WINDOW
        /\ LimitOf(k) \in Nat /\ 0 <= LimitOf(k)
        /\ [this |-> 0, last |-> 0] \in [this : 0 .. LimitOf(k), last : 0 .. LimitOf(k)]
    BY Sizes
  <2> HIDE DEF zero
  <2> QED BY <1>2, <2>1, <2>2, <2>3 DEF CountOK, InMemory, InDatabase
<1>4. DOMAIN hits = Keys /\ DOMAIN rows = Keys /\ DOMAIN passed = Keys /\ DOMAIN quiet = Keys
  BY <1>1, RateNames DEF RL!RateInit, RL!NoHits
<1> QED BY <1>2, <1>3, <1>4 DEF RInv, RateOK

LEMMA RateStep == RInv /\ [ServerNext]_serverVars => RInv'
<1> SUFFICES ASSUME RInv, [ServerNext]_serverVars PROVE RInv'
  OBVIOUS
<1>1. CASE UNCHANGED rateVars
  BY <1>1 DEF RInv, rateVars
<1>2. CASE Die
  BY <1>2, RateRestartKeeps DEF Die
<1>3. CASE RequestsMove
  BY <1>3, HitIpKeeps, HitAddressKeeps, RateTickKeeps DEF RequestsMove, RL!RateNext
<1> QED BY <1>1, <1>2, <1>3 DEF ServerNext, serverVars, Exit, Boot, Serve, KeeperMoves

LEMMA RateInvariance == Spec => []RInv
BY RateInitKeeps, RateStep, PTL DEF Spec

----------------------------------------------------------------------------
(* Theorems. *)

\* The process runs only in a configuration in which signatures are accepted, and off
\* the local chain only with a database and a re-stamped oracle (server.ts, config.ts).
THEOREM StartsAsPromised == Spec => []StartsOnlyAsPromised
<1>1. SInv => StartsOnlyAsPromised
  <2> SUFFICES ASSUME SInv, server \in {"starting", "serving"}
               PROVE  /\ cfg.signer /\ cfg.deployment = cfg.chain
                      /\ ~Local(cfg) => cfg.database /\ Restamps /\ ~Has(Sources(cfg), "fixture")
                      /\ cfg.primaryOff /\ cfg.alchemy => ~Has(Sources(cfg), "hypersync")
    BY DEF StartsOnlyAsPromised
  <2>1. "other chain" \notin Refusals(cfg) /\ "signer" \notin Refusals(cfg)
        /\ "fixture" \notin Refusals(cfg) /\ "production config" \notin Refusals(cfg)
    BY DEF SInv, Wired
  <2>2. /\ cfg.deployment = cfg.chain /\ cfg.signer /\ (cfg.fixture => Local(cfg))
        /\ ~Local(cfg) => cfg.database /\ cfg.keeperKey /\ cfg.oracle
    BY <2>1 DEF Refusals
  <2>3. ~Local(cfg) => Restamps
    BY <2>2, StepsShape DEF SInv, Wired, Restamps, Restamp
  <2>4. ~cfg.fixture => ~Has(Sources(cfg), "fixture")
    BY DEF Sources, Has
  <2>5. cfg.primaryOff /\ cfg.alchemy => ~Has(Sources(cfg), "hypersync")
    BY DEF Sources, Has
  <2> QED BY <2>2, <2>3, <2>4, <2>5
<1> QED BY <1>1, ServerInvariance, PTL

\* Through crashes and failures of the store, a run is neither skipped nor repeated
\* (start and tick of keeper.ts).
THEOREM RunsAreOnTime == Spec => RunsOnTime
<1>1. SInv => TypeOK /\ NoRunSkipped
  BY DEF SInv
<1>2. SInv /\ [ServerNext]_serverVars
        => [pc = "wait" /\ pc' # "wait" /\ server' # "down" => lastRun.age >= INTERVAL \/ ~lastRun.ok]_serverVars
  <2> SUFFICES ASSUME SInv, ServerNext, pc = "wait", pc' # "wait", server' # "down", lastRun.ok
               PROVE  lastRun.age >= INTERVAL
    BY DEF serverVars, keeperVars
  <2>1. KeeperMoves
    BY DEF ServerNext, Exit, Boot, Serve, Die, RequestsMove, keeperVars, Start
  <2>2. Step
    BY <2>1 DEF KeeperMoves, Tick, OracleMoves, Mine, Lose, OwnerSetsPrice, Liquidation, ProcessAndRecord
  <2>3. timer = 0
    BY <2>2 DEF Step, Schedule, Begin, OracleThrows, RelayThrows, CheckOwner, ReadPrice, SendPrice,
                AwaitReceipt, Ping, ReadScore, Attest, NotAttested, Submit, Record
  <2>4. lastRun.age + timer >= INTERVAL /\ lastRun.age \in Nat
    BY DEF SInv, Timed, TypeOK
  <2> QED BY <2>3, <2>4
<1> QED BY <1>1, <1>2, ServerInvariance, PTL DEF Spec, RunsOnTime, NoRunRepeated

\* While the keeper's record is good no price is older than the alarm allows for, and
\* while /health is green the keeper runs and the market takes every price.
THEOREM HealthReportIsTrue == Spec => []HealthIsTrue
<1>1. SInv => AlarmHasACause
  <2> SUFFICES ASSUME SInv, Restamps, KeeperOk, NEW a \in Asset
               PROVE  oracle[a].age < WARN_AFTER + RUN_MAX
    BY DEF AlarmHasACause
  <2>1. oracle[a].age < RESTAMP_AFTER + RUN_MAX + lastRun.age
    BY DEF SInv, Recorded, KeeperOk, Restamps, Restamp
  <2>2. lastRun.age \in Nat /\ oracle[a].age \in Nat /\ lastRun.age <= INTERVAL + GRACE
    BY DEF SInv, TypeOK, KeeperOk
  <2>3. {RESTAMP_AFTER, RUN_MAX, INTERVAL, GRACE} \subseteq Nat
    BY KeeperAssumption
  <2> QED BY <2>1, <2>2, <2>3 DEF WARN_AFTER
<1>2. SInv => GreenMeansKept
  <2> SUFFICES ASSUME SInv, HealthOk({}), Restamps
               PROVE  sinceRun <= INTERVAL + GRACE /\ \A a \in Asset : oracle[a].age < MAX_AGE
    BY DEF GreenMeansKept
  <2>1. StepsOf(cfg) # <<>> /\ cfg.oracle
    BY StepsShape DEF SInv, Wired, Restamps, Restamp, Has
  <2>2. lastRun.age <= INTERVAL + GRACE /\ OracleOk
    BY <2>1 DEF HealthOk, KeeperOk
  <2>3. sinceRun <= lastRun.age /\ sinceRun \in Nat /\ lastRun.age \in Nat
    BY DEF SInv, Timed, Counted, TypeOK
  <2>4. INTERVAL + GRACE \in Nat /\ MAX_AGE \in Nat
    BY KeeperAssumption
  <2>5. ASSUME NEW a \in Asset PROVE oracle[a].age < MAX_AGE
    <3>1. oracle[a].age \in Nat
      BY DEF SInv, TypeOK
    <3>2. PriceState(a) = "fresh"
      BY <2>2 DEF OracleOk
    <3>3. ~(oracle[a].age >= MAX_AGE)
      BY <3>2 DEF PriceState
    <3> QED BY <2>4, <3>1, <3>3
  <2> QED BY <2>2, <2>3, <2>4, <2>5
<1> QED BY <1>1, <1>2, ServerInvariance, PTL DEF HealthIsTrue

\* Through restarts, whichever store counts and however many requests are under way
\* together, no window lets through more than the limit, or than twice the limit of
\* the database's rows, and a client not heard of for a window passes (hit of store.ts
\* and of pgStore.ts).
THEOREM RateKept == Spec => []LimitIsKept
<1>1. RInv => LimitIsKept
  <2> SUFFICES ASSUME RInv, NEW k \in Keys
               PROVE  /\ RL!SumFunction(passed[k]) <= IF sliding THEN LimitOf(k) ELSE 2 * LimitOf(k)
                      /\ quiet[k] = WINDOW => RL!Free(k, 0)
    BY RateNames DEF LimitIsKept, WithinLimit, QuietKeyPasses, RL!WithinLimit, RL!QuietKeyPasses
  <2>1. CountOK(k, sliding, offset, hits[k], rows[k], passed[k], quiet[k]) /\ offset \in Ages
    BY DEF RInv, RateOK
  <2>2. /\ passed[k] \in [Ages -> Nat] /\ LimitOf(k) \in Nat \ {0} /\ WINDOW \in Nat \ {0}
        /\ offset \in 0 .. WINDOW - 1
    BY <2>1, Sizes DEF CountOK, Ages
  <2>3. RL!SumFunction(passed[k]) = Sum(passed[k], Ages) /\ Sum(passed[k], Ages) \in Nat
    BY <2>2, SumOfAll, SumOfAges
  <2>4. CASE sliding
    <3>1. Sum(passed[k], Ages) <= LimitOf(k) /\ \A a \in Ages : passed[k][a] > 0 => quiet[k] <= a
      BY <2>1, <2>4 DEF CountOK, InMemory
    <3>2. ASSUME quiet[k] = WINDOW PROVE RL!Free(k, 0)
      <4>1. \A a \in Ages : passed[k][a] = 0
        BY <2>2, <3>1, <3>2 DEF Ages
      <4>2. IsFiniteSet(Ages)
        BY <2>2, Sizes DEF Ages
      <4>3. Sum(passed[k], Ages) = 0
        BY <4>1, <4>2, SumZero DEF Sum
      <4> QED BY <2>2, <2>4, <4>3, FreeIs
    <3> QED BY <2>3, <2>4, <3>1, <3>2
  <2>5. CASE ~sliding
    <3>1. /\ rows[k] \in [this : 0 .. LimitOf(k), last : 0 .. LimitOf(k)]
          /\ Sum(passed[k], 0 .. offset) <= rows[k].this
          /\ Sum(passed[k], offset + 1 .. WINDOW - 1) <= rows[k].last
          /\ rows[k].this > 0 => quiet[k] <= offset
      BY <2>1, <2>5 DEF CountOK, InDatabase
    <3>2. Sum(passed[k], Ages) = Sum(passed[k], 0 .. offset) + Sum(passed[k], offset + 1 .. WINDOW - 1)
      BY <2>1, <2>2, SumOfTwo
    <3>3. Sum(passed[k], 0 .. offset) \in Nat /\ Sum(passed[k], offset + 1 .. WINDOW - 1) \in Nat
      <4>1. \A m \in Nat, n \in Int : n <= WINDOW - 1 => Sum(passed[k], m .. n) \in Nat
        BY <2>2, SumIsNat
      <4>2. 0 \in Nat /\ offset \in Int /\ offset <= WINDOW - 1
        BY <2>2
      <4>3. offset + 1 \in Nat /\ WINDOW - 1 \in Int /\ WINDOW - 1 <= WINDOW - 1
        BY <2>2
      <4>4. Sum(passed[k], 0 .. offset) \in Nat
        BY <4>1, <4>2
      <4>5. Sum(passed[k], offset + 1 .. WINDOW - 1) \in Nat
        BY <4>1, <4>3
      <4> QED BY <4>4, <4>5
    <3>4. rows[k].this \in 0 .. LimitOf(k) /\ rows[k].last \in 0 .. LimitOf(k)
      BY <3>1
    <3>5. Sum(passed[k], Ages) <= 2 * LimitOf(k)
      BY <2>2, <3>1, <3>2, <3>3, <3>4
    <3>6. ASSUME quiet[k] = WINDOW PROVE RL!Free(k, 0)
      <4>1. ~(rows[k].this > 0)
        BY <2>2, <3>1, <3>6
      <4>2. rows[k].this = 0 /\ 0 <= offset
        BY <2>2, <3>4, <4>1
      <4> QED BY <2>2, <2>5, <4>2, FreeIs
    <3> QED BY <2>3, <2>5, <3>5, <3>6
  <2> QED BY <2>4, <2>5
<1> QED BY <1>1, RateInvariance, PTL
=============================================================================
