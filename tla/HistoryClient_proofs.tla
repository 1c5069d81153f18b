------------------------ MODULE HistoryClient_proofs ------------------------
(***************************************************************************)
(* Proofs about HistoryClient, for every list of chains, every set of      *)
(* wallets checked together and every borrow they may make, and every      *)
(* limit on pages, retries and pace.                                       *)
(***************************************************************************)
EXTENDS HistoryClient, FiniteSetTheorems, TLAPS

----------------------------------------------------------------------------
(* Counting borrows page by page. *)

RecordSet(L, c, p, from, next) ==
    {l \in L : l.chain = c /\ l.kind \in p /\ l.block \in from .. next - 1}

\* The count of a page (Records), of any set of loans.
Rec(L, c, p, from, next) == Cardinality(RecordSet(L, c, p, from, next))

Typed == loans \in Loans /\ head \in Nat

LEMMA LoansType == ASSUME Typed PROVE IsFiniteSet(loans) /\ \A l \in loans : l.block \in Nat
BY HistoryAssumption DEF Typed, Loan, Block

LEMMA RecordsType ==
    ASSUME Typed, NEW c, NEW p, NEW a \in Nat, NEW b \in Nat
    PROVE  Rec(loans, c, p, a, b) \in Nat /\ IsFiniteSet(RecordSet(loans, c, p, a, b))
<1>1. IsFiniteSet(RecordSet(loans, c, p, a, b))
  BY LoansType, FS_Subset DEF RecordSet
<1> QED BY <1>1, FS_CardinalityType DEF Rec, RecordSet

\* A page and what came before it add up.
LEMMA Pages ==
    ASSUME Typed, NEW c, NEW p, NEW a \in Nat, NEW b \in Nat, a <= b
    PROVE  Rec(loans, c, p, 0, b) = Rec(loans, c, p, 0, a) + Rec(loans, c, p, a, b)
<1> DEFINE before == RecordSet(loans, c, p, 0, a)  page == RecordSet(loans, c, p, a, b)
<1>1. IsFiniteSet(before) /\ IsFiniteSet(page)
  BY RecordsType
<1>2. before \cap page = {}
  BY LoansType DEF RecordSet
<1>3. before \cup page = RecordSet(loans, c, p, 0, b)
  BY LoansType DEF RecordSet
<1>4. Cardinality(before \cup page) = Cardinality(before) + Cardinality(page)
  <2>1. Cardinality(before \cap page) = 0
    BY <1>2, FS_EmptySet
  <2>2. Cardinality(before \cup page) = Cardinality(before) + Cardinality(page) - Cardinality(before \cap page)
    BY <1>1, FS_Union
  <2>3. Cardinality(before) \in Nat /\ Cardinality(page) \in Nat
    BY <1>1, FS_CardinalityType
  <2> QED BY <2>1, <2>2, <2>3
<1> QED BY <1>3, <1>4 DEF Rec, RecordSet

\* The later the block, the more borrows before it.
LEMMA RecordsGrow ==
    ASSUME Typed, NEW c, NEW p, NEW a \in Nat, NEW b \in Nat, a <= b
    PROVE  Rec(loans, c, p, 0, a) <= Rec(loans, c, p, 0, b)
BY Pages, RecordsType

----------------------------------------------------------------------------
(* The inductive invariant.                                                   *)

Busy == {"pace", "asleep", "sent", "backoff"}

Answers == [ok : BOOLEAN, aave : Nat, compound : Nat, source : {"hypersync", "alchemy", "none"},
            gap : BOOLEAN, began : Nat]
Checks == [pc : Busy \cup {"idle", "failed", "alchemy", "done"}, chain : Nat, protocol : {"aave", "compound"},
           from : Nat, total : Nat, target : Int, page : Nat, attempt : Nat, wait : Nat, aave : Nat,
           began : Nat, own : 0 .. MIN_INTERVAL, answers : [Chain -> Answers]]

\* A count of all there was as the check of the chain began, and of nothing yet to come.
Whole(L, h, c, p, n, began) == Rec(L, c, p, 0, began) <= n /\ n <= Rec(L, c, p, 0, h + 1)

\* What either source answers with: HyperSync all of both protocols, Alchemy the loans
\* of Aave it can see, on its own chains, and whether Compound is missing.
Answering(L, h, c, source, aave, compound, gap, began) ==
    \/ /\ source = "hypersync" /\ ~gap
       /\ Whole(L, h, c, Kinds("aave"), aave, began)
       /\ Whole(L, h, c, Kinds("compound"), compound, began)
    \/ /\ source = "alchemy" /\ c \in FallbackChain /\ (gap <=> c \in CompoundChain)
       /\ Whole(L, h, c, {"variable"}, aave, began)
       /\ compound = 0

Good(L, h, c, a) ==
    /\ a \in Answers
    /\ ~a.ok => a = Unanswered
    /\ a.ok => a.began <= h /\ Answering(L, h, c, a.source, a.aave, a.compound, a.gap, a.began)

\* What is counted is what the pages so far hold; it will do once the target, which is
\* not behind the beginning, is reached.
Counting(L, h, k) ==
    /\ k.total = Rec(L, CHAINS[k.chain], Kinds(k.protocol), 0, k.from)
    /\ k.target = -1 \/ k.began <= k.target
    /\ k.protocol = "compound" => /\ CHAINS[k.chain] \in CompoundChain
                                  /\ Whole(L, h, CHAINS[k.chain], Kinds("aave"), k.aave, k.began)

Fallen(L, k) ==
    /\ CHAINS[k.chain] \in FallbackChain
    /\ k.total = Rec(L, CHAINS[k.chain], {"variable"}, 0, k.from)

Held(L, h, k) == k \in Checks /\ \A c \in Chain : Good(L, h, c, k.answers[c])

Sound(L, h, k) ==
    /\ Held(L, h, k)
    /\ k.pc \in Busy \cup {"failed", "alchemy"} => k.chain \in 1 .. Len(CHAINS) /\ k.began <= h
    /\ k.pc \in Busy => Counting(L, h, k)
    /\ k.pc = "alchemy" => Fallen(L, k)

\* The client's last request is no older than that of any check; one that sleeps will
\* have waited out the interval since its own.
Paced(k) == since <= k.own /\ (k.pc = "asleep" => k.own + k.wait >= MIN_INTERVAL)

HInv ==
    /\ Typed /\ since \in 0 .. MIN_INTERVAL
    /\ check \in [Wallet -> Checks]
    /\ \A w \in Wallet : Sound(loans, head, check[w]) /\ Paced(check[w])

----------------------------------------------------------------------------
(* From one chain to the next.                                                *)

LEMMA ChainsType ==
    /\ DOMAIN CHAINS = 1 .. Len(CHAINS) /\ Len(CHAINS) \in Nat
    /\ \A i \in 1 .. Len(CHAINS) : CHAINS[i] \in Chain
BY HistoryAssumption

\* A check that goes on without a request.
Quiet(k, k2) == Sound(loans, head, k2) /\ k2.pc \notin {"sent", "asleep"} /\ k.own <= k2.own

LEMMA OwnType == ASSUME NEW k \in Checks PROVE k.own \in Nat /\ k.own <= k.own
BY HistoryAssumption DEF Checks

LEMMA Begins ==
    ASSUME Typed, NEW k, Held(loans, head, k), NEW i \in Nat
    PROVE  Quiet(k, BeginChain(k, i))
<1>1. CASE i \notin DOMAIN CHAINS
  <2>1. BeginChain(k, i) = [k EXCEPT !.pc = "done"]
    BY <1>1 DEF BeginChain
  <2>2. [k EXCEPT !.pc = "done"] \in Checks
    BY DEF Held, Checks
  <2>3. k.answers = BeginChain(k, i).answers /\ BeginChain(k, i).pc = "done" /\ BeginChain(k, i).own = k.own
    BY <2>1 DEF Held, Checks
  <2> QED BY <2>1, <2>2, <2>3, OwnType DEF Quiet, Sound, Held, Busy
<1>2. CASE i \in DOMAIN CHAINS
  <2> DEFINE b == [pc |-> IF primary = "off" THEN "failed" ELSE "pace", chain |-> i, protocol |-> "aave",
                   from |-> 0, total |-> 0, target |-> -1, page |-> 0, attempt |-> 0, wait |-> k.wait,
                   aave |-> 0, began |-> head, own |-> k.own, answers |-> k.answers]
  <2>1. BeginChain(k, i) = b
    BY <1>2 DEF BeginChain, Held, Checks
  <2>2. b \in Checks
    BY DEF Typed, Held, Checks, Busy
  <2>3. 0 = Rec(loans, CHAINS[i], Kinds("aave"), 0, 0)
    <3>1. RecordSet(loans, CHAINS[i], Kinds("aave"), 0, 0) = {}
      BY LoansType DEF RecordSet
    <3> QED BY <3>1, FS_EmptySet DEF Rec, RecordSet
  <2>4. Counting(loans, head, b)
    BY <2>3 DEF Counting
  <2>5. Held(loans, head, b)
    BY <2>2 DEF Held
  <2>6. b.pc \in {"failed", "pace"} /\ i \in 1 .. Len(CHAINS) /\ head <= head
    BY <1>2, ChainsType DEF Typed
  <2>7. Sound(loans, head, b)
    BY <2>4, <2>5, <2>6 DEF Sound
  <2> QED BY <2>1, <2>6, <2>7, OwnType DEF Quiet, Held
<1> QED BY <1>1, <1>2

LEMMA Answered ==
    ASSUME Typed, NEW k, Held(loans, head, k), k.chain \in 1 .. Len(CHAINS), NEW a, Good(loans, head, CHAINS[k.chain], a)
    PROVE  Quiet(k, Answer(k, a))
<1> DEFINE c == CHAINS[k.chain]
           k2 == [k EXCEPT !.answers[c] = a]
<1>1. c \in Chain /\ k.chain + 1 \in Nat
  BY ChainsType
<1>2. k2 = [k EXCEPT !.answers = [k.answers EXCEPT ![c] = a]]
  BY DEF Held, Checks
<1>3. [k.answers EXCEPT ![c] = a] \in [Chain -> Answers]
  BY <1>1 DEF Held, Checks, Good
<1>4. k2 \in Checks /\ k2.answers = [k.answers EXCEPT ![c] = a] /\ k2.own = k.own
  BY <1>2, <1>3 DEF Held, Checks
<1>5. \A d \in Chain : k2.answers[d] = IF d = c THEN a ELSE k.answers[d]
  BY <1>1, <1>4 DEF Held, Checks
<1>6. Held(loans, head, k2)
  BY <1>4, <1>5 DEF Held
<1>7. Answer(k, a) = BeginChain(k2, k.chain + 1)
  BY DEF Answer
<1>8. Quiet(k2, BeginChain(k2, k.chain + 1))
  BY <1>1, <1>6, Begins
<1> HIDE DEF k2
<1> QED BY <1>4, <1>7, <1>8 DEF Quiet

LEMMA NoneGood == ASSUME NEW c PROVE Good(loans, head, c, Unanswered)
BY DEF Good, Unanswered, Answers

\* The counts of a chain make a good answer.
LEMMA FoundGood ==
    ASSUME Typed, NEW k, Held(loans, head, k), k.chain \in 1 .. Len(CHAINS), k.began <= head,
           NEW aave \in Nat, NEW compound \in Nat, NEW source, NEW gap, gap \in BOOLEAN,
           Answering(loans, head, CHAINS[k.chain], source, aave, compound, gap, k.began)
    PROVE  Quiet(k, Found(k, aave, compound, source, gap))
<1> DEFINE a == [ok |-> TRUE, aave |-> aave, compound |-> compound, source |-> source, gap |-> gap,
                 began |-> k.began]
<1>1. k.began \in Nat /\ source \in {"hypersync", "alchemy"}
  BY DEF Held, Checks, Answering
<1>2. a \in Answers
  BY <1>1 DEF Answers
<1>3. Good(loans, head, CHAINS[k.chain], a)
  BY <1>2 DEF Good
<1> HIDE DEF a
<1>4. Quiet(k, Answer(k, a))
  BY <1>3, Answered
<1> QED BY <1>4 DEF Found, a

\* Outside Compound's chains there is nothing of Compound to find.
LEMMA NoCompound ==
    ASSUME Typed, NEW c \in Chain \ CompoundChain, NEW began \in Nat
    PROVE  Whole(loans, head, c, Kinds("compound"), 0, began)
<1>1. \A l \in loans : l.kind \in Kinds("compound") => l.chain \in CompoundChain
  BY HistoryAssumption DEF Typed, Kinds
<1>2. RecordSet(loans, c, Kinds("compound"), 0, began) = {} /\ RecordSet(loans, c, Kinds("compound"), 0, head + 1) = {}
  BY <1>1 DEF RecordSet
<1>3. Rec(loans, c, Kinds("compound"), 0, began) = 0 /\ Rec(loans, c, Kinds("compound"), 0, head + 1) = 0
  BY <1>2, FS_EmptySet DEF Rec, RecordSet
<1> QED BY <1>3 DEF Whole

----------------------------------------------------------------------------
(* The answers of HyperSync and of Alchemy.                                   *)

\* Pages that reached the target hold all that is whole.
LEMMA Reached ==
    ASSUME Typed, NEW c, NEW p, NEW began \in Nat, NEW next \in Nat, began <= next, next <= head + 1
    PROVE  Whole(loans, head, c, p, Rec(loans, c, p, 0, next), began)
<1>1. head + 1 \in Nat
  BY DEF Typed
<1> QED BY <1>1, RecordsGrow DEF Whole

\* A count that reached its target is followed by the other protocol's, or answers.
LEMMA CountsSound ==
    ASSUME Typed, NEW k, Held(loans, head, k), k.chain \in 1 .. Len(CHAINS), k.began <= head,
           k.protocol = "compound" =>
               CHAINS[k.chain] \in CompoundChain /\ Whole(loans, head, CHAINS[k.chain], Kinds("aave"), k.aave, k.began),
           NEW total \in Nat, Whole(loans, head, CHAINS[k.chain], Kinds(k.protocol), total, k.began)
    PROVE  Quiet(k, Counts(k, total))
<1> DEFINE c == CHAINS[k.chain]
<1>1. c \in Chain /\ k.protocol \in {"aave", "compound"} /\ k.aave \in Nat /\ k.began \in Nat
  BY ChainsType DEF Held, Checks
<1>2. CASE k.protocol = "aave" /\ c \in CompoundChain
  <2> DEFINE b == [pc |-> "pace", chain |-> k.chain, protocol |-> "compound",
                   from |-> 0, total |-> 0, target |-> -1, page |-> 0, attempt |-> 0, wait |-> k.wait,
                   aave |-> total, began |-> k.began, own |-> k.own, answers |-> k.answers]
  <2>1. Counts(k, total) = b
    BY <1>2 DEF Counts, Held, Checks
  <2>2. b \in Checks
    BY DEF Held, Checks, Busy
  <2>3. 0 = Rec(loans, c, Kinds("compound"), 0, 0)
    <3>1. RecordSet(loans, c, Kinds("compound"), 0, 0) = {}
      BY LoansType DEF RecordSet
    <3> QED BY <3>1, FS_EmptySet DEF Rec, RecordSet
  <2>4. Counting(loans, head, b)
    BY <1>2, <2>3 DEF Counting
  <2>5. Held(loans, head, b)
    BY <2>2 DEF Held
  <2>6. Sound(loans, head, b)
    BY <2>4, <2>5 DEF Sound, Busy
  <2> QED BY <2>1, <2>6, OwnType DEF Quiet, Held
<1>3. CASE k.protocol = "aave" /\ c \notin CompoundChain
  <2>1. Answering(loans, head, c, "hypersync", total, 0, FALSE, k.began)
    BY <1>1, <1>3, NoCompound DEF Answering
  <2>2. Quiet(k, Found(k, total, 0, "hypersync", FALSE))
    BY <1>1, <2>1, FoundGood
  <2> QED BY <1>3, <2>2 DEF Counts
<1>4. CASE k.protocol = "compound"
  <2>1. Answering(loans, head, c, "hypersync", k.aave, total, FALSE, k.began)
    BY <1>4 DEF Answering
  <2>2. Quiet(k, Found(k, k.aave, total, "hypersync", FALSE))
    BY <1>1, <2>1, FoundGood
  <2> QED BY <1>4, <2>2 DEF Counts
<1> QED BY <1>1, <1>2, <1>3, <1>4

\* The record of a check after a step that leaves its answers alone.
LEMMA CountedSound ==
    ASSUME Typed, NEW k, Sound(loans, head, k), k.pc \in Busy, NEW next \in Nat, k.from <= next, next <= head + 1
    PROVE  Quiet(k, Counted(k, IF k.target = -1 THEN head ELSE k.target,
                            k.total + Rec(loans, CHAINS[k.chain], Kinds(k.protocol), k.from, next), next))
<1> DEFINE c == CHAINS[k.chain]
           target == IF k.target = -1 THEN head ELSE k.target
           total == Rec(loans, c, Kinds(k.protocol), 0, next)
<1>1. /\ Held(loans, head, k) /\ Counting(loans, head, k) /\ k.chain \in 1 .. Len(CHAINS) /\ k.began <= head
      /\ k.from \in Nat /\ k.target \in Int /\ k.began \in Nat /\ k.page \in Nat /\ head \in Nat
  BY DEF Sound, Held, Checks, Typed
<1>2. k.total + Rec(loans, c, Kinds(k.protocol), k.from, next) = total
  BY <1>1, Pages DEF Counting
<1>3. total \in Nat
  BY RecordsType
<1>4. target \in Int /\ k.began <= target
  BY <1>1 DEF Counting
<1>5. CASE next >= target
  <2>1. Whole(loans, head, c, Kinds(k.protocol), total, k.began)
    BY <1>1, <1>4, <1>5, Reached
  <2>2. k.protocol = "compound" => c \in CompoundChain /\ Whole(loans, head, c, Kinds("aave"), k.aave, k.began)
    BY <1>1 DEF Counting
  <2>3. Quiet(k, Counts(k, total))
    BY <1>1, <1>3, <2>1, <2>2, CountsSound
  <2>4. Counted(k, target, total, next) = Counts(k, total)
    BY <1>4, <1>5 DEF Counted
  <2> QED BY <1>2, <2>3, <2>4
<1>6. CASE ~(next >= target) /\ (next <= k.from \/ k.page + 1 = MAX_PAGES)
  <2> DEFINE b == [k EXCEPT !.pc = "failed"]
  <2>1. Counted(k, target, total, next) = b
    BY <1>1, <1>4, <1>6 DEF Counted
  <2>2. b \in Checks /\ b.pc = "failed" /\ b.answers = k.answers /\ b.own = k.own /\ b.chain = k.chain /\ b.began = k.began
    BY <1>1 DEF Held, Checks
  <2>3. Sound(loans, head, b)
    BY <1>1, <2>2 DEF Sound, Held, Busy
  <2> QED BY <1>1, <1>2, <2>1, <2>2, <2>3, OwnType DEF Quiet, Held
<1>7. CASE ~(next >= target) /\ ~(next <= k.from \/ k.page + 1 = MAX_PAGES)
  <2> DEFINE b == [pc |-> "pace", chain |-> k.chain, protocol |-> k.protocol, from |-> next,
                   total |-> total, target |-> target, page |-> k.page + 1, attempt |-> 0,
                   wait |-> k.wait, aave |-> k.aave, began |-> k.began, own |-> k.own, answers |-> k.answers]
  <2>1. Counted(k, target, total, next) = b
    BY <1>1, <1>4, <1>7 DEF Counted, Held, Checks
  <2>2. b \in Checks
    BY <1>1, <1>3, <1>4 DEF Held, Checks, Busy
  <2>3. Counting(loans, head, b)
    BY <1>1, <1>4 DEF Counting
  <2>4. Held(loans, head, b)
    BY <1>1, <2>2 DEF Held
  <2>5. Sound(loans, head, b)
    BY <1>1, <2>3, <2>4 DEF Sound, Busy
  <2> QED BY <1>1, <1>2, <2>1, <2>5, OwnType DEF Quiet, Held
<1> QED BY <1>5, <1>6, <1>7

----------------------------------------------------------------------------
(* Every action keeps the invariant.                                          *)

\* A step of one check which makes no request and leaves the client's pace alone.
LEMMA QuietKeeps ==
    ASSUME HInv, NEW w \in Wallet, NEW k, Quiet(check[w], k), Goes(w, k), UNCHANGED <<loans, primary, head, since>>
    PROVE  HInv' /\ check' = [check EXCEPT ![w] = k]
<1>1. Sound(loans, head, k) /\ k \in Checks /\ k.pc # "asleep" /\ since <= k.own
  BY OwnType, HistoryAssumption DEF Quiet, Sound, Held, HInv, Paced
<1>2. check' = [check EXCEPT ![w] = k]
  BY DEF Goes
<1>3. \A v \in Wallet : Sound(loans, head, check'[v]) /\ Paced(check'[v])
  BY <1>1, <1>2 DEF HInv, Paced
<1>4. \A v \in Wallet : (Sound(loans, head, check[v]) /\ Paced(check[v]))'
  BY <1>3 DEF Paced
<1> QED BY <1>1, <1>2, <1>4 DEF HInv, Typed

\* No step of a check but a request puts it in "sent".
NoBurst == \A w \in Wallet : check[w].pc # "sent" /\ check'[w].pc = "sent" => check[w].own = MIN_INTERVAL

LEMMA QuietIsSlow ==
    ASSUME HInv, NEW w \in Wallet, NEW k, Quiet(check[w], k), check' = [check EXCEPT ![w] = k]
    PROVE  NoBurst
BY DEF HInv, Quiet, NoBurst

LEMMA QuietStep ==
    ASSUME HInv, NEW w \in Wallet, NEW k, Quiet(check[w], k), Goes(w, k), UNCHANGED <<loans, primary, head, since>>
    PROVE  HInv' /\ NoBurst
BY QuietKeeps, QuietIsSlow

\* What is known of a check under way.
LEMMA CheckFacts ==
    ASSUME HInv, NEW w \in Wallet
    PROVE  /\ Typed /\ Sound(loans, head, check[w]) /\ Held(loans, head, check[w]) /\ check[w] \in Checks /\ Paced(check[w])
           /\ check[w].from \in Nat /\ check[w].total \in Nat /\ check[w].page \in Nat /\ check[w].own \in 0 .. MIN_INTERVAL
BY DEF HInv, Sound, Held, Checks

LEMMA StartKeeps == ASSUME HInv, NEW w \in Wallet, Start(w) PROVE HInv' /\ NoBurst
<1>1. NoCheck \in Checks /\ NoCheck.own = MIN_INTERVAL
  BY HistoryAssumption DEF NoCheck, Checks, Unanswered, Answers
<1>2. \A c \in Chain : NoCheck.answers[c] = Unanswered
  BY DEF NoCheck
<1>3. Held(loans, head, NoCheck)
  BY <1>1, <1>2, NoneGood DEF Held
<1> HIDE DEF NoCheck
<1>4. Quiet(NoCheck, BeginChain(NoCheck, 1))
  BY <1>3, Begins DEF HInv
<1>5. check[w].own <= MIN_INTERVAL
  BY CheckFacts, HistoryAssumption
<1>6. Quiet(check[w], BeginChain(NoCheck, 1))
  <2> DEFINE b == BeginChain(NoCheck, 1)
  <2>1. Sound(loans, head, b) /\ b.pc \notin {"sent", "asleep"} /\ MIN_INTERVAL <= b.own
    BY <1>1, <1>4 DEF Quiet
  <2>2. b.own \in Nat /\ check[w].own \in Nat /\ MIN_INTERVAL \in Nat
    BY <2>1, OwnType, CheckFacts, HistoryAssumption DEF Sound, Held
  <2> HIDE DEF b
  <2> QED BY <1>5, <2>1, <2>2 DEF Quiet, b
<1> QED BY <1>6, QuietStep DEF Start

LEMMA DeliverKeeps == ASSUME HInv, NEW w \in Wallet, Deliver(w) PROVE HInv' /\ NoBurst
<1>1. NoCheck \in Checks /\ NoCheck.own = MIN_INTERVAL /\ NoCheck.pc = "idle"
  BY HistoryAssumption DEF NoCheck, Checks, Unanswered, Answers
<1>2. \A c \in Chain : NoCheck.answers[c] = Unanswered
  BY DEF NoCheck
<1>3. Held(loans, head, NoCheck)
  BY <1>1, <1>2, NoneGood DEF Held
<1> HIDE DEF NoCheck
<1>4. check[w].own <= MIN_INTERVAL
  BY CheckFacts, HistoryAssumption
<1>5. Quiet(check[w], NoCheck)
  BY <1>1, <1>3, <1>4 DEF Quiet, Sound, Busy
<1> QED BY <1>5, QuietStep DEF Deliver

\* A check that only changes its place, its wait and its attempts.
Moves(k, k2) ==
    /\ k2 \in Checks
    /\ \A f \in {"chain", "protocol", "from", "total", "target", "page", "aave", "began", "answers"} : k2[f] = k[f]

LEMMA MovesSound ==
    ASSUME Typed, NEW k, Sound(loans, head, k), NEW k2, Moves(k, k2),
           k.pc \in Busy /\ k2.pc \in Busy \cup {"failed"}
    PROVE  Sound(loans, head, k2)
<1>1. /\ k2.chain = k.chain /\ k2.protocol = k.protocol /\ k2.from = k.from /\ k2.total = k.total
      /\ k2.target = k.target /\ k2.aave = k.aave /\ k2.began = k.began /\ k2.answers = k.answers
  BY DEF Moves
<1>2. Held(loans, head, k2)
  BY <1>1 DEF Moves, Sound, Held
<1>3. Counting(loans, head, k2)
  BY <1>1 DEF Sound, Counting
<1> QED BY <1>1, <1>2, <1>3 DEF Sound, Busy

LEMMA ThrottledKeeps == ASSUME HInv, NEW w \in Wallet, Throttled(w) PROVE HInv' /\ NoBurst
<1> DEFINE k == check[w]
           b == IF k.attempt < MAX_429_RETRIES
                THEN [k EXCEPT !.pc = "backoff", !.wait = BACKOFF, !.attempt = @ + 1]
                ELSE [k EXCEPT !.pc = "failed"]
<1>1. Sound(loans, head, k) /\ k \in Checks /\ k.own \in Nat /\ Typed
  BY CheckFacts, HistoryAssumption
<1>2. Moves(k, b) /\ b.pc \in {"backoff", "failed"} /\ b.own = k.own
  <2>1. CASE k.attempt < MAX_429_RETRIES
    <3> DEFINE d == [pc |-> "backoff", chain |-> k.chain, protocol |-> k.protocol, from |-> k.from,
                     total |-> k.total, target |-> k.target, page |-> k.page, attempt |-> k.attempt + 1,
                     wait |-> BACKOFF, aave |-> k.aave, began |-> k.began, own |-> k.own, answers |-> k.answers]
    <3>1. b = d
      BY <1>1, <2>1 DEF Checks
    <3>2. k.attempt + 1 \in Nat /\ BACKOFF \in Nat
      BY <1>1, HistoryAssumption DEF Checks
    <3>3. d \in Checks
      BY <1>1, <3>2 DEF Checks, Busy
    <3> QED BY <3>1, <3>3 DEF Moves
  <2>2. CASE ~(k.attempt < MAX_429_RETRIES)
    <3>1. b = [k EXCEPT !.pc = "failed"]
      BY <2>2
    <3> QED BY <1>1, <3>1 DEF Checks, Moves
  <2> QED BY <2>1, <2>2
<1>3. k.pc = "sent" /\ Goes(w, b) /\ UNCHANGED <<loans, primary, head, since>>
  BY DEF Throttled
<1> HIDE DEF b
<1>4. Sound(loans, head, b)
  BY <1>1, <1>2, <1>3, MovesSound DEF Busy
<1>5. Quiet(k, b)
  BY <1>1, <1>2, <1>4 DEF Quiet
<1> QED BY <1>3, <1>5, QuietStep

LEMMA BackedOffKeeps == ASSUME HInv, NEW w \in Wallet, BackedOff(w) PROVE HInv' /\ NoBurst
<1> DEFINE k == check[w]
           b == [k EXCEPT !.pc = "pace"]
<1>1. Sound(loans, head, k) /\ k \in Checks /\ k.own \in Nat /\ Typed
  BY CheckFacts, HistoryAssumption
<1>2. Moves(k, b) /\ b.pc = "pace" /\ b.own = k.own
  BY <1>1 DEF Checks, Moves, Busy
<1>3. k.pc = "backoff" /\ Goes(w, b) /\ UNCHANGED <<loans, primary, head, since>>
  BY DEF BackedOff
<1> HIDE DEF b
<1>4. Sound(loans, head, b)
  BY <1>1, <1>2, <1>3, MovesSound DEF Busy
<1>5. Quiet(k, b)
  BY <1>1, <1>2, <1>4 DEF Quiet
<1> QED BY <1>3, <1>5, QuietStep

LEMMA PageKeeps == ASSUME HInv, NEW w \in Wallet, Page(w) PROVE HInv' /\ NoBurst
<1> DEFINE k == check[w]
<1>1. PICK next \in k.from .. head + 1 :
          Goes(w, Counted(k, IF k.target = -1 THEN head ELSE k.target,
                          k.total + Records(At(w), Kinds(k.protocol), k.from, next), next))
  BY DEF Page
<1>2. k.pc \in Busy /\ UNCHANGED <<loans, primary, head, since>>
  BY DEF Page, Busy
<1>3. Sound(loans, head, k) /\ Typed /\ next \in Nat /\ k.from <= next /\ next <= head + 1
  BY CheckFacts DEF Typed
<1>4. Records(At(w), Kinds(k.protocol), k.from, next) = Rec(loans, CHAINS[k.chain], Kinds(k.protocol), k.from, next)
  BY DEF Records, Rec, RecordSet, At
<1> DEFINE b == Counted(k, IF k.target = -1 THEN head ELSE k.target,
                        k.total + Rec(loans, CHAINS[k.chain], Kinds(k.protocol), k.from, next), next)
<1>5. Quiet(k, b)
  BY <1>2, <1>3, CountedSound
<1>6. Goes(w, b)
  BY <1>1, <1>4
<1> HIDE DEF b
<1> QED BY <1>2, <1>5, <1>6, QuietStep

\* Another page of transfers: nothing else of the check changes.
Turned(k, k2, pc, next, total, page) ==
    /\ k2 \in Checks /\ k2.pc = pc /\ k2.from = next /\ k2.total = total /\ k2.page = page
    /\ k2.chain = k.chain /\ k2.began = k.began /\ k2.own = k.own /\ k2.answers = k.answers

LEMMA Turns ==
    ASSUME NEW k \in Checks, NEW next \in Nat, NEW total \in Nat
    PROVE  /\ Turned(k, [k EXCEPT !.from = next, !.total = total, !.page = @ + 1], k.pc, next, total, k.page + 1)
           /\ Turned(k, [k EXCEPT !.pc = "alchemy", !.from = 0, !.total = 0, !.page = 0], "alchemy", 0, 0, 0)
<1>1. k.page + 1 \in Nat
  BY DEF Checks
<1> DEFINE page == k.page + 1
<1> HIDE DEF page
<1>2. [k EXCEPT !.from = next, !.total = total, !.page = page] \in Checks
  BY <1>1 DEF Checks, page
<1>3. [k EXCEPT !.pc = "alchemy", !.from = 0, !.total = 0, !.page = 0] \in Checks
  BY DEF Checks
<1> QED BY <1>2, <1>3 DEF Turned, Checks, page

LEMMA TransfersKeeps == ASSUME HInv, NEW w \in Wallet, Transfers(w) PROVE HInv' /\ NoBurst
<1> DEFINE k == check[w]
           c == CHAINS[k.chain]
<1>1. /\ Typed /\ Sound(loans, head, k) /\ Held(loans, head, k) /\ k \in Checks /\ k.pc = "alchemy" /\ Fallen(loans, k)
      /\ k.chain \in 1 .. Len(CHAINS) /\ k.began <= head /\ k.began \in Nat /\ k.page \in Nat
      /\ c \in Chain /\ c \in FallbackChain
      /\ UNCHANGED <<loans, primary, head, since>>
  BY CheckFacts, ChainsType DEF Transfers, Sound, Fallen, Checks
<1>2. PICK next \in k.from .. head + 1 :
          LET mints == k.total + Records(At(w), {"variable"}, k.from, next) IN
          Goes(w, CASE next > head -> Found(k, mints, 0, "alchemy", Gap(At(w)))
                    [] next <= head /\ k.page + 1 < MAX_PAGES ->
                         [k EXCEPT !.from = next, !.total = mints, !.page = @ + 1]
                    [] OTHER -> Answer(k, Unanswered))
  BY DEF Transfers
<1>3. next \in Nat /\ head \in Nat /\ k.from \in Nat /\ k.from <= next /\ next <= head + 1
  BY CheckFacts DEF Typed
<1>4. k.total + Records(At(w), {"variable"}, k.from, next) = Rec(loans, c, {"variable"}, 0, next)
  <2>1. Records(At(w), {"variable"}, k.from, next) = Rec(loans, c, {"variable"}, k.from, next)
    BY DEF Records, Rec, RecordSet, At
  <2> QED BY <1>1, <1>3, <2>1, Pages DEF Fallen
<1> DEFINE mints == Rec(loans, c, {"variable"}, 0, next)
<1>5. mints \in Nat
  BY <1>1, <1>3, RecordsType
<1>6. Goes(w, CASE next > head -> Found(k, mints, 0, "alchemy", Gap(c))
                [] next <= head /\ k.page + 1 < MAX_PAGES ->
                     [k EXCEPT !.from = next, !.total = mints, !.page = @ + 1]
                [] OTHER -> Answer(k, Unanswered))
  BY <1>2, <1>4 DEF At
<1> HIDE DEF mints
<1>7. CASE next > head
  <2>1. Goes(w, Found(k, mints, 0, "alchemy", Gap(c)))
    BY <1>3, <1>7, <1>6
  <2>2. Whole(loans, head, c, {"variable"}, mints, k.began)
    BY <1>1, <1>3, <1>7, Reached DEF mints
  <2>3. Gap(c) \in BOOLEAN /\ (Gap(c) <=> c \in CompoundChain)
    BY DEF Gap
  <2>4. Answering(loans, head, c, "alchemy", mints, 0, Gap(c), k.began)
    BY <1>1, <2>2, <2>3 DEF Answering
  <2>5. Quiet(k, Found(k, mints, 0, "alchemy", Gap(c)))
    BY <1>1, <1>5, <2>3, <2>4, FoundGood
  <2> QED BY <1>1, <2>1, <2>5, QuietStep
<1>8. CASE ~(next > head) /\ k.page + 1 < MAX_PAGES
  <2> DEFINE b == [k EXCEPT !.from = next, !.total = mints, !.page = @ + 1]
  <2>1. Goes(w, b)
    BY <1>3, <1>8, <1>6
  <2>2. Turned(k, b, "alchemy", next, mints, k.page + 1)
    BY <1>1, <1>3, <1>5, Turns
  <2> HIDE DEF b
  <2>3. Held(loans, head, b)
    BY <1>1, <2>2 DEF Held, Turned
  <2>4. Fallen(loans, b)
    BY <1>1, <2>2 DEF Fallen, mints, Turned
  <2>5. Sound(loans, head, b)
    BY <1>1, <2>2, <2>3, <2>4 DEF Sound, Busy, Turned
  <2>6. Quiet(k, b)
    BY <1>1, <2>2, <2>5, OwnType DEF Quiet, Turned
  <2> QED BY <1>1, <2>1, <2>6, QuietStep
<1>9. CASE ~(next > head) /\ ~(k.page + 1 < MAX_PAGES)
  <2>1. Goes(w, Answer(k, Unanswered))
    BY <1>3, <1>9, <1>6
  <2>2. Quiet(k, Answer(k, Unanswered))
    BY <1>1, Answered, NoneGood
  <2> QED BY <1>1, <2>1, <2>2, QuietStep
<1> QED BY <1>7, <1>8, <1>9

LEMMA ThrowsKeeps == ASSUME HInv, NEW w \in Wallet, Throws(w) PROVE HInv' /\ NoBurst
<1> DEFINE k == check[w]
<1>1. /\ Typed /\ Sound(loans, head, k) /\ Held(loans, head, k) /\ k \in Checks /\ UNCHANGED <<loans, primary, head, since>>
      /\ k.pc \in {"sent", "alchemy"} /\ k.chain \in 1 .. Len(CHAINS)
  BY CheckFacts DEF Throws, Sound, Busy
<1>2. CASE k.pc = "sent"
  <2> DEFINE b == [k EXCEPT !.pc = "failed"]
  <2>1. Moves(k, b) /\ b.pc = "failed" /\ b.own = k.own
    BY <1>1 DEF Checks, Moves
  <2>2. Goes(w, b)
    BY <1>2 DEF Throws
  <2> HIDE DEF b
  <2>3. Quiet(k, b)
    BY <1>1, <1>2, <2>1, MovesSound, OwnType DEF Quiet, Busy
  <2> QED BY <1>1, <2>2, <2>3, QuietStep
<1>3. CASE k.pc = "alchemy"
  <2>1. Goes(w, Answer(k, Unanswered))
    BY <1>3 DEF Throws
  <2>2. Quiet(k, Answer(k, Unanswered))
    BY <1>1, Answered, NoneGood
  <2> QED BY <1>1, <2>1, <2>2, QuietStep
<1> QED BY <1>1, <1>2, <1>3

LEMMA FallBackKeeps == ASSUME HInv, NEW w \in Wallet, FallBack(w) PROVE HInv' /\ NoBurst
<1> DEFINE k == check[w]
           c == CHAINS[k.chain]
<1>1. /\ Typed /\ Sound(loans, head, k) /\ Held(loans, head, k) /\ k \in Checks /\ UNCHANGED <<loans, primary, head, since>>
      /\ k.pc = "failed" /\ k.chain \in 1 .. Len(CHAINS) /\ k.began <= head
  BY CheckFacts DEF FallBack, Sound, Busy
<1>2. CASE c \in FallbackChain
  <2> DEFINE b == [k EXCEPT !.pc = "alchemy", !.from = 0, !.total = 0, !.page = 0]
  <2>1. Goes(w, b)
    BY <1>2 DEF FallBack, At
  <2>2. Turned(k, b, "alchemy", 0, 0, 0)
    BY <1>1, Turns
  <2> HIDE DEF b
  <2>3. Held(loans, head, b)
    BY <1>1, <2>2 DEF Held, Turned
  <2>4. 0 = Rec(loans, c, {"variable"}, 0, 0)
    <3>1. RecordSet(loans, c, {"variable"}, 0, 0) = {}
      BY LoansType, <1>1 DEF RecordSet
    <3> QED BY <3>1, FS_EmptySet DEF Rec
  <2>5. Fallen(loans, b)
    BY <1>2, <2>2, <2>4 DEF Fallen, Turned
  <2>6. Sound(loans, head, b)
    BY <1>1, <2>2, <2>3, <2>5 DEF Sound, Busy, Turned
  <2>7. Quiet(k, b)
    BY <1>1, <2>2, <2>6, OwnType DEF Quiet, Turned
  <2> QED BY <1>1, <2>1, <2>7, QuietStep
<1>3. CASE c \notin FallbackChain
  <2>1. Goes(w, Answer(k, Unanswered))
    BY <1>3 DEF FallBack, At
  <2>2. Quiet(k, Answer(k, Unanswered))
    BY <1>1, Answered, NoneGood
  <2> QED BY <1>1, <2>1, <2>2, QuietStep
<1> QED BY <1>2, <1>3

\* A request: the interval is over for the check itself.
LEMMA RequestKeeps ==
    ASSUME HInv, NEW w \in Wallet, check[w].pc \in {"pace", "asleep"}, check[w].own = MIN_INTERVAL,
           Goes(w, Sent(check[w])), since' = 0, UNCHANGED <<loans, primary, head>>
    PROVE  HInv' /\ NoBurst
<1> DEFINE k == check[w]
           b == [k EXCEPT !.pc = "sent", !.wait = 0, !.own = 0]
<1>1. Sound(loans, head, k) /\ k \in Checks /\ Typed
  BY CheckFacts
<1>2. check' = [check EXCEPT ![w] = b]
  BY DEF Goes, Sent
<1>3. b \in Checks /\ b.pc = "sent" /\ b.own = 0
  <2>1. 0 \in 0 .. MIN_INTERVAL
    BY HistoryAssumption
  <2> QED BY <1>1, <2>1 DEF Checks, Busy
<1>4. Moves(k, b)
  BY <1>1, <1>3 DEF Checks, Moves
<1> HIDE DEF b
<1>5. Sound(loans, head, b)
  BY <1>1, <1>3, <1>4, MovesSound DEF Busy
<1>6. \A v \in Wallet : check'[v] = IF v = w THEN b ELSE check[v]
  BY <1>2 DEF HInv
<1>7. \A v \in Wallet : Sound(loans', head', check'[v])
  BY <1>5, <1>6 DEF HInv
<1>8. \A v \in Wallet : 0 <= check'[v].own /\ (check'[v].pc = "asleep" => check'[v].own + check'[v].wait >= MIN_INTERVAL)
  BY <1>3, <1>6, OwnType DEF HInv, Paced
<1>9. HInv'
  BY <1>2, <1>3, <1>7, <1>8, HistoryAssumption DEF HInv, Typed, Paced
<1>10. NoBurst
  BY <1>6 DEF NoBurst
<1> QED BY <1>9, <1>10

LEMMA PaceKeeps == ASSUME HInv, NEW w \in Wallet, Pace(w) PROVE HInv' /\ NoBurst
<1> DEFINE k == check[w]
<1>1. /\ Sound(loans, head, k) /\ k \in Checks /\ Typed /\ k.own \in 0 .. MIN_INTERVAL /\ since <= k.own
      /\ since \in 0 .. MIN_INTERVAL /\ MIN_INTERVAL \in Nat /\ k.pc = "pace"
  BY CheckFacts, HistoryAssumption DEF Pace, Paced, HInv
<1>2. CASE Wait > 0
  <2> DEFINE b == [k EXCEPT !.pc = "asleep", !.wait = Wait]
  <2>1. check' = [check EXCEPT ![w] = b] /\ UNCHANGED <<loans, primary, head, since>>
    BY <1>2 DEF Pace, Goes
  <2>2. Wait \in Nat
    BY <1>1, <1>2 DEF Wait
  <2>3. b \in Checks /\ b.pc = "asleep" /\ b.own = k.own /\ b.wait = Wait
    BY <1>1, <2>2 DEF Checks, Busy
  <2>4. Moves(k, b)
    BY <1>1, <2>3 DEF Checks, Moves
  <2> HIDE DEF b
  <2>5. Sound(loans, head, b)
    BY <1>1, <2>3, <2>4, MovesSound DEF Busy
  <2>6. since <= b.own /\ b.own + b.wait >= MIN_INTERVAL
    BY <1>1, <2>3 DEF Wait
  <2>7. \A v \in Wallet : check'[v] = IF v = w THEN b ELSE check[v]
    BY <2>1 DEF HInv
  <2>8. \A v \in Wallet : /\ Sound(loans', head', check'[v]) /\ since' <= check'[v].own
                          /\ check'[v].pc = "asleep" => check'[v].own + check'[v].wait >= MIN_INTERVAL
    BY <2>1, <2>5, <2>6, <2>7 DEF HInv, Paced
  <2>9. HInv'
    <3>1. check' \in [Wallet -> Checks]
      BY <2>1, <2>3 DEF HInv
    <3>2. Typed' /\ since' \in 0 .. MIN_INTERVAL
      BY <1>1, <2>1 DEF Typed
    <3>3. \A v \in Wallet : Sound(loans', head', check'[v])
      BY <2>8
    <3>4. \A v \in Wallet : Paced(check[v])'
      BY <2>8 DEF Paced
    <3> QED BY <3>1, <3>2, <3>3, <3>4 DEF HInv
  <2>10. NoBurst
    BY <2>3, <2>7 DEF NoBurst
  <2> QED BY <2>9, <2>10
<1>3. CASE ~(Wait > 0)
  <2>1. Goes(w, Sent(k)) /\ since' = 0 /\ UNCHANGED <<loans, primary, head>>
    BY <1>3 DEF Pace
  <2>2. k.own = MIN_INTERVAL
    BY <1>1, <1>3 DEF Wait
  <2> QED BY <1>1, <2>1, <2>2, RequestKeeps
<1> QED BY <1>2, <1>3

LEMMA WakeKeeps == ASSUME HInv, NEW w \in Wallet, Wake(w) PROVE HInv' /\ NoBurst
<1>1. check[w].pc = "asleep" /\ check[w].wait = 0 /\ check[w].own \in 0 .. MIN_INTERVAL /\ Paced(check[w])
  BY CheckFacts DEF Wake
<1>2. check[w].own = MIN_INTERVAL
  BY <1>1, HistoryAssumption DEF Paced
<1> QED BY <1>1, <1>2, RequestKeeps DEF Wake

LEMMA GrowKeeps == ASSUME HInv, Grow PROVE HInv' /\ NoBurst
<1>1. /\ Typed /\ head \in Nat /\ head' = head + 1 /\ UNCHANGED <<loans, primary, since, check>>
  BY DEF HInv, Typed, Grow
<1>2. ASSUME NEW c, NEW p, NEW n \in Nat, NEW began \in Nat, Whole(loans, head, c, p, n, began)
      PROVE  Whole(loans, head + 1, c, p, n, began)
  <2>1. head + 1 \in Nat /\ head + 1 + 1 \in Nat /\ head + 1 <= head + 1 + 1
    BY <1>1
  <2>2. /\ Rec(loans, c, p, 0, head + 1) <= Rec(loans, c, p, 0, head + 1 + 1)
        /\ Rec(loans, c, p, 0, head + 1) \in Nat /\ Rec(loans, c, p, 0, head + 1 + 1) \in Nat
    BY <1>1, <2>1, RecordsGrow, RecordsType
  <2> QED BY <1>2, <2>2 DEF Whole
<1>3. ASSUME NEW c, NEW a, Good(loans, head, c, a)
      PROVE  Good(loans, head + 1, c, a)
  <2>1. a.began \in Nat /\ a.aave \in Nat /\ a.compound \in Nat
    BY <1>3 DEF Good, Answers
  <2>2. ASSUME a.ok PROVE Answering(loans, head + 1, c, a.source, a.aave, a.compound, a.gap, a.began)
    BY <1>2, <1>3, <2>1, <2>2 DEF Good, Answering
  <2>3. a.ok => a.began <= head + 1
    BY <1>1, <1>3, <2>1 DEF Good
  <2> QED BY <1>3, <2>2, <2>3 DEF Good
<1>4. ASSUME NEW w \in Wallet
      PROVE  Sound(loans, head + 1, check[w])
  <2>1. Sound(loans, head, check[w]) /\ check[w] \in Checks /\ check[w].began \in Nat /\ check[w].aave \in Nat
    BY DEF HInv, Sound, Held, Checks
  <2>2. Held(loans, head + 1, check[w])
    BY <1>3, <2>1 DEF Sound, Held
  <2>3. check[w].pc \in Busy => Counting(loans, head + 1, check[w])
    BY <1>2, <2>1 DEF Sound, Counting
  <2> QED BY <1>1, <2>1, <2>2, <2>3 DEF Sound
<1>5. HInv'
  BY <1>1, <1>4 DEF HInv, Typed, Paced
<1>6. NoBurst
  BY <1>1 DEF NoBurst
<1> QED BY <1>5, <1>6

LEMMA OthersSendKeeps == ASSUME HInv, OthersSend PROVE HInv' /\ NoBurst
<1>1. /\ Typed /\ since' = 0 /\ 0 \in 0 .. MIN_INTERVAL /\ UNCHANGED <<loans, primary, head, check>>
  BY HistoryAssumption DEF HInv, OthersSend
<1>2. \A w \in Wallet : /\ Sound(loans, head, check[w]) /\ 0 <= check[w].own
                        /\ check[w].pc = "asleep" => check[w].own + check[w].wait >= MIN_INTERVAL
  BY CheckFacts DEF Paced
<1>3. HInv'
  BY <1>1, <1>2 DEF HInv, Typed, Paced
<1>4. NoBurst
  BY <1>1 DEF NoBurst
<1> QED BY <1>3, <1>4

LEMMA TickKeeps == ASSUME HInv, Tick PROVE HInv' /\ NoBurst
<1> DEFINE T(k) == [k EXCEPT !.wait = IF @ > 0 THEN @ - 1 ELSE 0,
                             !.own = IF @ < MIN_INTERVAL THEN @ + 1 ELSE @]
<1>1. /\ since' = IF since < MIN_INTERVAL THEN since + 1 ELSE since
      /\ check' = [w \in Wallet |-> T(check[w])] /\ UNCHANGED <<loans, primary, head>>
      /\ since \in 0 .. MIN_INTERVAL /\ MIN_INTERVAL \in Nat /\ Typed
  BY HistoryAssumption DEF Tick, HInv
<1>2. ASSUME NEW k \in Checks, Sound(loans, head, k), Paced(k)
      PROVE  /\ T(k) \in Checks /\ T(k).pc = k.pc
             /\ Sound(loans, head, T(k))
             /\ since' <= T(k).own
             /\ T(k).pc = "asleep" => T(k).own + T(k).wait >= MIN_INTERVAL
  <2>1. /\ k.wait \in Nat /\ k.own \in 0 .. MIN_INTERVAL /\ MIN_INTERVAL \in Nat /\ since \in 0 .. MIN_INTERVAL
        /\ since <= k.own /\ (k.pc = "asleep" => k.own + k.wait >= MIN_INTERVAL)
        /\ since' = IF since < MIN_INTERVAL THEN since + 1 ELSE since
    BY <1>1, <1>2 DEF Checks, Paced
  <2> DEFINE wait == IF k.wait > 0 THEN k.wait - 1 ELSE 0
             own == IF k.own < MIN_INTERVAL THEN k.own + 1 ELSE k.own
  <2>2. wait \in Nat /\ own \in 0 .. MIN_INTERVAL
    BY <2>1
  <2>3. since' <= own /\ (k.pc = "asleep" => own + wait >= MIN_INTERVAL)
    BY <2>1
  <2>4. T(k) = [k EXCEPT !.wait = wait, !.own = own]
    OBVIOUS
  <2> HIDE DEF wait, own, T
  <2>5. T(k) \in Checks
    BY <2>2, <2>4 DEF Checks
  <2>6. T(k).wait = wait /\ T(k).own = own /\ T(k).pc = k.pc
    BY <2>4 DEF Checks
  <2>7. /\ T(k).chain = k.chain /\ T(k).protocol = k.protocol /\ T(k).from = k.from /\ T(k).total = k.total
        /\ T(k).target = k.target /\ T(k).aave = k.aave /\ T(k).began = k.began /\ T(k).answers = k.answers
    BY <2>4 DEF Checks
  <2>8. Sound(loans, head, T(k))
    BY <1>2, <2>5, <2>6, <2>7 DEF Sound, Held, Counting, Fallen
  <2> QED BY <2>3, <2>5, <2>6, <2>8
<1> HIDE DEF T
<1>3. \A w \in Wallet : check'[w] = T(check[w])
  BY <1>1
<1>4. \A w \in Wallet : check[w] \in Checks /\ Sound(loans, head, check[w]) /\ Paced(check[w])
  BY DEF HInv
<1>5. HInv'
  BY <1>1, <1>2, <1>3, <1>4 DEF HInv, Typed, Paced
<1>6. NoBurst
  BY <1>2, <1>3, <1>4 DEF NoBurst
<1> QED BY <1>5, <1>6

----------------------------------------------------------------------------
(* The theorems.                                                              *)

LEMMA Starts == ASSUME Init PROVE HInv
<1>1. NoCheck \in Checks /\ NoCheck.own = MIN_INTERVAL /\ NoCheck.pc = "idle"
  BY HistoryAssumption DEF NoCheck, Checks, Unanswered, Answers
<1>2. \A c \in Chain : NoCheck.answers[c] = Unanswered
  BY DEF NoCheck
<1>3. Typed /\ since = MIN_INTERVAL /\ check = [w \in Wallet |-> NoCheck] /\ MIN_INTERVAL \in Nat
  BY HistoryAssumption DEF Init, Typed
<1> HIDE DEF NoCheck
<1>4. Sound(loans, head, NoCheck)
  BY <1>1, <1>2, NoneGood DEF Sound, Held, Busy
<1>5. Paced(NoCheck)
  BY <1>1, <1>3 DEF Paced
<1> QED BY <1>1, <1>3, <1>4, <1>5 DEF HInv

LEMMA NextKeeps == ASSUME HInv, [Next]_vars PROVE HInv' /\ [NoBurst]_vars
<1>1. CASE UNCHANGED vars
  <2>1. HInv'
    BY <1>1 DEF HInv, Typed, Paced, vars
  <2> QED BY <1>1, <2>1
<1>2. ASSUME NEW w \in Wallet, Start(w) \/ Step(w) PROVE HInv' /\ NoBurst
  BY <1>2, StartKeeps, PaceKeeps, WakeKeeps, ThrottledKeeps, BackedOffKeeps, PageKeeps, ThrowsKeeps,
     FallBackKeeps, TransfersKeeps, DeliverKeeps DEF Step
<1>3. CASE Grow
  BY <1>3, GrowKeeps
<1>4. CASE OthersSend
  BY <1>4, OthersSendKeeps
<1>5. CASE Tick
  BY <1>5, TickKeeps
<1> QED BY <1>1, <1>2, <1>3, <1>4, <1>5 DEF Next

LEMMA Invariant == Spec => []HInv
<1>1. Init => HInv
  BY Starts
<1>2. HInv /\ [Next]_vars => HInv'
  BY NextKeeps
<1> QED BY <1>1, <1>2, PTL DEF Spec

\* The pace of history.ts: no wallet's check makes two requests within the interval,
\* however many checks share the client and whatever the server answers.
THEOREM NoWalletBursts == Spec => OneWalletNeverBursts
<1>1. HInv /\ [Next]_vars => [\A w \in Wallet : check[w].pc # "sent" /\ check'[w].pc = "sent"
                                  => check[w].own = MIN_INTERVAL]_vars
  BY NextKeeps DEF NoBurst
<1> QED BY <1>1, Invariant, PTL DEF Spec, OneWalletNeverBursts

\* "Never a partial answer" (history.ts): whatever the pages, the retries and the
\* fallback, an answer counts all its source can see of what there was as its chain's
\* check began: of HyperSync everything, of Alchemy the loans at a variable rate.
THEOREM NeverPartial == Spec => []CompleteOrError
<1>1. HInv => CompleteOrError
  <2> SUFFICES ASSUME HInv, NEW w \in Wallet, NEW c \in Chain
               PROVE  CompleteAnswer(c, check[w].answers[c])
    BY DEF CompleteOrError
  <2> DEFINE a == check[w].answers[c]
  <2>1. Typed /\ Good(loans, head, c, a)
    BY CheckFacts DEF Held
  <2>2. a.began \in Nat /\ a.aave \in Nat /\ a.compound \in Nat /\ head + 1 \in Nat /\ a.ok \in BOOLEAN
    BY <2>1 DEF Good, Answers, Typed
  <2> HIDE DEF a
  <2>3. ASSUME NEW p, NEW n \in Nat, Whole(loans, head, c, p, n, a.began)
        PROVE  Complete(n, c, p, a.began)
    <3>1. Rec(loans, c, p, 0, a.began) \in Nat /\ Rec(loans, c, p, 0, head + 1) \in Nat
      BY <2>1, <2>2, RecordsType
    <3>2. \A m : LoansBefore(c, p, m) = Rec(loans, c, p, 0, m)
      BY DEF LoansBefore, Records, Rec, RecordSet
    <3> QED BY <2>3, <3>1, <3>2 DEF Whole, Complete
  <2>4. ASSUME ~a.ok PROVE CompleteAnswer(c, a)
    BY <2>1, <2>4 DEF Good, Unanswered, CompleteAnswer
  <2>5. ASSUME a.ok PROVE CompleteAnswer(c, a)
    <3>1. Answering(loans, head, c, a.source, a.aave, a.compound, a.gap, a.began)
      BY <2>1, <2>5 DEF Good
    <3>2. Kinds("aave") = {"variable", "stable"} /\ Kinds("compound") = {"compound"}
      BY DEF Kinds
    <3> QED BY <2>2, <2>3, <2>5, <3>1, <3>2 DEF Answering, CompleteAnswer
  <2> QED BY <2>2, <2>4, <2>5 DEF a
<1> QED BY <1>1, Invariant, PTL

\* Borrows of some kinds are seen where, and only where, they are counted.
Sees(n, c, p) == \E kind \in p : <<c, kind>> \in Seen(n)

LEMMA SeenIsCounted ==
    ASSUME Typed, NEW c, NEW p, NEW n \in Nat
    PROVE  Sees(n, c, p) <=> Rec(loans, c, p, 0, n) > 0
<1>1. IsFiniteSet(RecordSet(loans, c, p, 0, n))
  BY RecordsType
<1>2. Rec(loans, c, p, 0, n) \in Nat /\ (Rec(loans, c, p, 0, n) = 0 <=> RecordSet(loans, c, p, 0, n) = {})
  BY <1>1, FS_CardinalityType, FS_EmptySet DEF Rec
<1>3. Sees(n, c, p) <=> RecordSet(loans, c, p, 0, n) # {}
  <2>1. ASSUME NEW kind \in p, <<c, kind>> \in Seen(n) PROVE RecordSet(loans, c, p, 0, n) # {}
    <3>1. PICK x \in {y \in loans : y.block < n} : <<c, kind>> = <<x.chain, x.kind>>
      BY <2>1 DEF Seen
    <3>2. x.chain = c /\ x.kind = kind /\ x \in loans /\ x.block < n /\ x.block \in Nat
      BY <3>1, LoansType
    <3>3. x \in RecordSet(loans, c, p, 0, n)
      BY <2>1, <3>2 DEF RecordSet
    <3> QED BY <3>3
  <2>2. ASSUME NEW x \in RecordSet(loans, c, p, 0, n) PROVE Sees(n, c, p)
    <3>1. x \in loans /\ x.chain = c /\ x.kind \in p /\ x.block \in Nat /\ x.block < n
      BY <2>2, LoansType DEF RecordSet
    <3>2. <<c, x.kind>> \in Seen(n)
      BY <3>1 DEF Seen
    <3> QED BY <3>1, <3>2 DEF Sees
  <2> QED BY <2>1, <2>2 DEF Sees
<1> QED BY <1>2, <1>3

LEMMA EvaluatedAs ==
    ASSUME NEW c \in Chain, NEW B, NEW D
    PROVE  /\ <<"hypersync", c>> \notin D =>
                 AsEvaluated(B, D)!ChainHistory(c) = [ok |-> TRUE, borrows |-> \E l \in B : l[1] = c, gap |-> FALSE]
           /\ <<"hypersync", c>> \in D /\ c \in FallbackChain /\ <<"alchemy", c>> \notin D =>
                 AsEvaluated(B, D)!ChainHistory(c)
                     = [ok |-> TRUE, borrows |-> <<c, "variable">> \in B, gap |-> c \in CompoundChain]
           /\ <<"hypersync", c>> \in D /\ <<"alchemy", c>> \in D =>
                 AsEvaluated(B, D)!ChainHistory(c) = [ok |-> FALSE, borrows |-> FALSE, gap |-> FALSE]
<1> DEFINE H == AsEvaluated(B, D)!ChainHistory(c)
<1>1. CASE <<"hypersync", c>> \notin D
  <2>1. H = [ok |-> TRUE, borrows |-> \E l \in B : l[1] = c, gap |-> FALSE]
    BY <1>1 DEF AsEvaluated!ChainHistory, AsEvaluated!FromHyperSync, AsEvaluated!BorrowedOn
  <2> QED BY <1>1, <2>1
<1>2. CASE <<"hypersync", c>> \in D
  <2>1. CASE c \in FallbackChain /\ <<"alchemy", c>> \notin D
    <3>1. H = [ok |-> TRUE, borrows |-> <<c, "variable">> \in B, gap |-> c \in CompoundChain]
      BY <1>2, <2>1 DEF AsEvaluated!ChainHistory, AsEvaluated!FromAlchemy
    <3> QED BY <1>2, <2>1, <3>1
  <2>2. CASE ~(c \in FallbackChain /\ <<"alchemy", c>> \notin D)
    <3>1. H = [ok |-> FALSE, borrows |-> FALSE, gap |-> FALSE]
      BY <1>2, <2>2 DEF AsEvaluated!ChainHistory, AsEvaluated!NoAnswer
    <3> QED BY <1>2, <2>2, <3>1
  <2> QED BY <2>1, <2>2
<1> QED BY <1>1, <1>2

\* A good answer is one Evaluation expects.
LEMMA GoodIsExpected ==
    ASSUME Typed, NEW c \in Chain, NEW a, Good(loans, head, c, a)
    PROVE  \E block \in a.began .. head + 1, down \in SUBSET ({"hypersync", "alchemy"} \X {c}) :
               AsEvaluated(Seen(block), down)!ChainHistory(c)
                   = [ok |-> a.ok, borrows |-> a.aave + a.compound > 0, gap |-> a.gap]
<1> DEFINE hs == <<"hypersync", c>>  al == <<"alchemy", c>>
           report == [ok |-> a.ok, borrows |-> a.aave + a.compound > 0, gap |-> a.gap]
<1>1. head \in Nat /\ head + 1 \in Nat /\ a.began \in Nat /\ a.aave \in Nat /\ a.compound \in Nat
      /\ a.ok \in BOOLEAN /\ a.gap \in BOOLEAN
  BY DEF Typed, Good, Answers
<1>2. hs # al
  OBVIOUS
<1>3. CASE ~a.ok
  <2>1. a = Unanswered
    BY <1>3 DEF Good
  <2>2. a.began \in a.began .. head + 1
    BY <1>1, <2>1 DEF Unanswered
  <2>3. report = [ok |-> FALSE, borrows |-> FALSE, gap |-> FALSE]
    <3>1. a.ok = FALSE /\ a.gap = FALSE /\ a.aave = 0 /\ a.compound = 0
      BY <2>1 DEF Unanswered
    <3>2. (a.aave + a.compound > 0) = FALSE
      BY <3>1
    <3> QED BY <3>1, <3>2, Zenon
  <2>4. AsEvaluated(Seen(a.began), {hs, al})!ChainHistory(c) = [ok |-> FALSE, borrows |-> FALSE, gap |-> FALSE]
    BY EvaluatedAs
  <2>5. {hs, al} \in SUBSET ({"hypersync", "alchemy"} \X {c})
    OBVIOUS
  <2> HIDE DEF hs, al, report
  <2>6. AsEvaluated(Seen(a.began), {hs, al})!ChainHistory(c) = report
    BY <2>3, <2>4
  <2> QED BY <2>2, <2>5, <2>6 DEF report
<1> DEFINE shown == IF a.aave + a.compound > 0 THEN head + 1 ELSE a.began
<1>4. CASE a.ok /\ a.source = "alchemy"
  <2>1. (a.gap <=> c \in CompoundChain) /\ c \in FallbackChain /\ a.compound = 0 /\ a.began <= head
        /\ Whole(loans, head, c, {"variable"}, a.aave, a.began)
    BY <1>4 DEF Good, Answering
  <2>2. shown \in a.began .. head + 1
    BY <1>1, <2>1
  <2>3. <<c, "variable">> \in Seen(shown) <=> a.aave + a.compound > 0
    <3>1. /\ <<c, "variable">> \in Seen(a.began) <=> Rec(loans, c, {"variable"}, 0, a.began) > 0
          /\ <<c, "variable">> \in Seen(head + 1) <=> Rec(loans, c, {"variable"}, 0, head + 1) > 0
          /\ Rec(loans, c, {"variable"}, 0, a.began) \in Nat /\ Rec(loans, c, {"variable"}, 0, head + 1) \in Nat
      <4>1. \A n \in Nat : Sees(n, c, {"variable"}) <=> <<c, "variable">> \in Seen(n)
        BY DEF Sees
      <4> QED BY <1>1, <4>1, SeenIsCounted, RecordsType
    <3> QED BY <1>1, <2>1, <3>1 DEF Whole
  <2>4. AsEvaluated(Seen(shown), {hs})!ChainHistory(c)
            = [ok |-> TRUE, borrows |-> <<c, "variable">> \in Seen(shown), gap |-> c \in CompoundChain]
    <3> DEFINE B == Seen(shown)  D == {hs}
    <3>1. hs \in D /\ al \notin D
      BY <1>2
    <3> HIDE DEF B, D
    <3>2. hs \in D /\ c \in FallbackChain /\ al \notin D => AsEvaluated(B, D)!ChainHistory(c)
              = [ok |-> TRUE, borrows |-> <<c, "variable">> \in B, gap |-> c \in CompoundChain]
      BY EvaluatedAs, Zenon
    <3> QED BY <2>1, <3>1, <3>2, Zenon DEF B, D
  <2>5. report = [ok |-> TRUE, borrows |-> <<c, "variable">> \in Seen(shown), gap |-> c \in CompoundChain]
    <3>1. (a.aave + a.compound > 0) = (<<c, "variable">> \in Seen(shown))
      <4>1. (a.aave + a.compound > 0) \in BOOLEAN /\ (<<c, "variable">> \in Seen(shown)) \in BOOLEAN
        BY <1>1
      <4> DEFINE counted == a.aave + a.compound > 0  seen == <<c, "variable">> \in Seen(shown)
      <4>2. (seen <=> counted) /\ counted \in BOOLEAN /\ seen \in BOOLEAN
        BY <2>3, <4>1
      <4> HIDE DEF counted, seen
      <4>3. counted = seen
        BY <4>2
      <4> QED BY <4>3 DEF counted, seen
    <3>2. a.ok = TRUE /\ a.gap = (c \in CompoundChain)
      <4> DEFINE missing == c \in CompoundChain
      <4>1. (a.gap <=> missing) /\ missing \in BOOLEAN /\ a.gap \in BOOLEAN
        BY <1>1, <2>1
      <4>2. a.ok = TRUE
        BY <1>1, <1>4
      <4> HIDE DEF missing
      <4>3. a.gap = missing
        BY <4>1
      <4> QED BY <4>2, <4>3 DEF missing
    <3> HIDE DEF shown
    <3> QED BY <3>1, <3>2, Zenon
  <2>6. {hs} \in SUBSET ({"hypersync", "alchemy"} \X {c})
    OBVIOUS
  <2> HIDE DEF hs, al, report, shown
  <2>7. AsEvaluated(Seen(shown), {hs})!ChainHistory(c) = report
    BY <2>4, <2>5
  <2> QED BY <2>2, <2>6, <2>7 DEF report
<1>5. CASE a.ok /\ a.source = "hypersync"
  <2>1. a.began <= head /\ Whole(loans, head, c, Kinds("aave"), a.aave, a.began)
        /\ Whole(loans, head, c, Kinds("compound"), a.compound, a.began) /\ ~a.gap
    BY <1>5 DEF Good, Answering
  <2>2. shown \in a.began .. head + 1
    BY <1>1, <2>1
  <2>3. (\E l \in Seen(shown) : l[1] = c) <=> a.aave + a.compound > 0
    <3>1. /\ \A p : Sees(a.began, c, p) <=> Rec(loans, c, p, 0, a.began) > 0
          /\ \A p : Sees(head + 1, c, p) <=> Rec(loans, c, p, 0, head + 1) > 0
          /\ \A p : Rec(loans, c, p, 0, a.began) \in Nat /\ Rec(loans, c, p, 0, head + 1) \in Nat
      BY <1>1, SeenIsCounted, RecordsType
    <3>2. \A n \in Nat : (\E l \in Seen(n) : l[1] = c) <=> Sees(n, c, Kinds("aave")) \/ Sees(n, c, Kinds("compound"))
      <4>1. \A l \in loans : l.kind \in Kinds("aave") \/ l.kind \in Kinds("compound")
        BY HistoryAssumption DEF Typed, Loan, Kind, Kinds
      <4>2. ASSUME NEW n \in Nat, NEW l \in Seen(n), l[1] = c
            PROVE  Sees(n, c, Kinds("aave")) \/ Sees(n, c, Kinds("compound"))
        <5>1. PICK x \in {y \in loans : y.block < n} : l = <<x.chain, x.kind>>
          BY <4>2 DEF Seen
        <5>2. x \in loans /\ l = <<c, x.kind>> /\ <<c, x.kind>> \in Seen(n)
          BY <4>2, <5>1
        <5> QED BY <4>1, <5>2 DEF Sees
      <4>3. ASSUME NEW n \in Nat, NEW p, Sees(n, c, p)
            PROVE  \E l \in Seen(n) : l[1] = c
        BY <4>3 DEF Sees
      <4> QED BY <4>2, <4>3
    <3>3. CASE a.aave + a.compound > 0
      <4>1. a.aave > 0 \/ a.compound > 0
        BY <1>1, <3>3
      <4>2. shown = head + 1
        BY <3>3
      <4>3. Rec(loans, c, Kinds("aave"), 0, head + 1) > 0 \/ Rec(loans, c, Kinds("compound"), 0, head + 1) > 0
        BY <1>1, <2>1, <3>1, <4>1 DEF Whole
      <4> QED BY <1>1, <3>1, <3>2, <3>3, <4>2, <4>3
    <3>4. CASE ~(a.aave + a.compound > 0)
      <4>1. a.aave = 0 /\ a.compound = 0 /\ shown = a.began
        BY <1>1, <3>4
      <4>2. ~(Rec(loans, c, Kinds("aave"), 0, a.began) > 0) /\ ~(Rec(loans, c, Kinds("compound"), 0, a.began) > 0)
        BY <2>1, <3>1, <4>1 DEF Whole
      <4> QED BY <1>1, <3>1, <3>2, <3>4, <4>1, <4>2
    <3> QED BY <3>3, <3>4
  <2>4. AsEvaluated(Seen(shown), {})!ChainHistory(c)
            = [ok |-> TRUE, borrows |-> \E l \in Seen(shown) : l[1] = c, gap |-> FALSE]
    <3> DEFINE B == Seen(shown)  D == {}
    <3>1. hs \notin D
      OBVIOUS
    <3> HIDE DEF B, D
    <3>2. hs \notin D => AsEvaluated(B, D)!ChainHistory(c)
              = [ok |-> TRUE, borrows |-> \E l \in B : l[1] = c, gap |-> FALSE]
      BY EvaluatedAs, Zenon
    <3> QED BY <3>1, <3>2, Zenon DEF B, D
  <2>5. report = [ok |-> TRUE, borrows |-> \E l \in Seen(shown) : l[1] = c, gap |-> FALSE]
    <3>1. (a.aave + a.compound > 0) = (\E l \in Seen(shown) : l[1] = c)
      <4>1. (a.aave + a.compound > 0) \in BOOLEAN
        BY <1>1
      <4> QED BY <2>3, <4>1, Zenon
    <3>2. a.ok = TRUE /\ a.gap = FALSE
      BY <1>1, <1>5, <2>1, Zenon
    <3> HIDE DEF shown
    <3> QED BY <3>1, <3>2, Zenon
  <2>6. {} \in SUBSET ({"hypersync", "alchemy"} \X {c})
    OBVIOUS
  <2> HIDE DEF hs, al, report, shown
  <2>7. AsEvaluated(Seen(shown), {})!ChainHistory(c) = report
    BY <2>4, <2>5
  <2> QED BY <2>2, <2>6, <2>7 DEF report
<1>6. a.ok => a.source \in {"hypersync", "alchemy"}
  BY DEF Good, Answering
<1> QED BY <1>1, <1>3, <1>4, <1>5, <1>6

\* Complete for its source or an error; and what Evaluation takes for granted of its
\* sources, silent gap included, is what these clients answer: the truth of some block
\* between the beginning of the check and now as that source sees it, or nothing.
THEOREM HonestAnswers == Spec => []AnswersAreHonest
<1>1. HInv => AnswersAsEvaluated
  <2>1. HInv => \A w \in Wallet, c \in Chain : Typed /\ Good(loans, head, c, check[w].answers[c])
    BY CheckFacts DEF Held
  <2> QED BY <2>1, GoodIsExpected DEF AnswersAsEvaluated
<1>2. CompleteOrError /\ AnswersAsEvaluated => AnswersAreHonest
  BY DEF AnswersAreHonest
<1> QED BY <1>1, <1>2, Invariant, NeverPartial, PTL
=============================================================================
