--------------------------- MODULE HistoryClient ---------------------------
(***************************************************************************)
(* The clients behind the borrowing-history check of the attestation       *)
(* service (packages/attestor/src/history.ts): HyperSync, paged and paced, *)
(* and for a chain where it fails Alchemy.  Evaluation.tla takes their     *)
(* answers as given; here they are made, page by page, while the chains    *)
(* grow and several checks share one client.                               *)
(*                                                                         *)
(* A check asks about one wallet, chain after chain; the requests of other *)
(* checks through the same client are the environment's.  A block number   *)
(* stands for a run of blocks.  An operator named Mutant... is a plausible *)
(* slip in the operator after it; no specification uses it.                *)
(***************************************************************************)
EXTENDS Integers, Sequences, FiniteSets

CONSTANTS
    CHAINS,             \* COVERED_CHAINS, in order
    CompoundChain,      \* those with Compound V2
    FallbackChain,      \* those Alchemy covers
    Wallet,             \* the wallets checked at the same time
    Loans,              \* what those wallets may have borrowed: sets of Loan
    MAX_BLOCK,          \* bound: the last block
    MAX_PAGES,          \* maxPages, of HyperSync and of Alchemy
    MAX_429_RETRIES,    \* max429Retries
    MIN_INTERVAL,       \* minIntervalMs
    BACKOFF             \* the sleep after a 429

Chain == {CHAINS[i] : i \in DOMAIN CHAINS}
Block == 0 .. MAX_BLOCK
Kind == {"variable", "stable", "compound"}   \* of Aave at either rate, or of Compound
Loan == [chain : Chain, kind : Kind, block : Block]

ASSUME HistoryAssumption ==
    /\ CHAINS \in Seq(Chain) /\ CompoundChain \subseteq Chain /\ FallbackChain \subseteq Chain
    /\ Loans \subseteq SUBSET {l \in Loan : l.kind = "compound" => l.chain \in CompoundChain}
    /\ \A L \in Loans : IsFiniteSet(L)
    /\ {MAX_BLOCK, MAX_PAGES, MIN_INTERVAL, BACKOFF} \subseteq Nat \ {0} /\ MAX_429_RETRIES \in Nat

VARIABLES
    loans,    \* the borrows of a wallet under check, on all blocks to come
    primary,  \* "hypersync", or "off" with DisabledHistorySource
    head,     \* the last block: the chains are taken to grow together
    since,    \* the time since lastRequestAt, up to MIN_INTERVAL
    check     \* per wallet, the check under way

vars == <<loans, primary, head, since, check>>

Unanswered == [ok |-> FALSE, aave |-> 0, compound |-> 0, source |-> "none", gap |-> FALSE, began |-> 0]

\* pc: what the check awaits.  began is history: the head as this chain's check began;
\* own too: the time since this check's last request to HyperSync.
NoCheck == [pc |-> "idle", chain |-> 1, protocol |-> "aave", from |-> 0, total |-> 0,
            target |-> -1, page |-> 0, attempt |-> 0, wait |-> 0, aave |-> 0, began |-> 0,
            own |-> MIN_INTERVAL, answers |-> [c \in Chain |-> Unanswered]]

At(w) == CHAINS[check[w].chain]
Goes(w, c) == check' = [check EXCEPT ![w] = c]

\* The records a page from block `from` to before `next` holds.
Records(c, kinds, from, next) ==
    Cardinality({l \in loans : l.chain = c /\ l.kind \in kinds /\ l.block \in from .. next - 1})

\* What HyperSync is asked for: Borrow logs, whatever the rate, or calls of borrow().
Kinds(protocol) == IF protocol = "aave" THEN {"variable", "stable"} ELSE {"compound"}

----------------------------------------------------------------------------
(* One chain after the other (checkAllSerial), the primary first.             *)

\* checkChain of the i-th chain, or the end of the check.
BeginChain(k, i) ==
    IF i \notin DOMAIN CHAINS THEN [k EXCEPT !.pc = "done"]
    ELSE [k EXCEPT !.pc = IF primary = "off" THEN "failed" ELSE "pace", !.chain = i, !.protocol = "aave",
                   !.from = 0, !.total = 0, !.target = -1, !.page = 0, !.attempt = 0, !.aave = 0,
                   !.began = head]

Answer(k, a) == BeginChain([k EXCEPT !.answers[CHAINS[k.chain]] = a], k.chain + 1)

Found(k, aave, compound, source, gap) ==
    Answer(k, [ok |-> TRUE, aave |-> aave, compound |-> compound, source |-> source, gap |-> gap,
               began |-> k.began])

Start(w) ==
    /\ check[w].pc = "idle"
    /\ Goes(w, BeginChain(NoCheck, 1))
    /\ UNCHANGED <<loans, primary, head, since>>

----------------------------------------------------------------------------
(* HyperSync.                                                                 *)

MutantNoWait == 0
\* lastRequestAt + minIntervalMs - Date.now()
Wait == MIN_INTERVAL - since

Sent(k) == [k EXCEPT !.pc = "sent", !.wait = 0, !.own = 0]

\* query(): read the pace, then send at once or sleep over it.
Pace(w) ==
    /\ check[w].pc = "pace"
    /\ IF Wait > 0
       THEN Goes(w, [check[w] EXCEPT !.pc = "asleep", !.wait = Wait]) /\ UNCHANGED since
       ELSE Goes(w, Sent(check[w])) /\ since' = 0
    /\ UNCHANGED <<loans, primary, head>>

\* After the sleep the request is sent, whoever was sent meanwhile.
Wake(w) ==
    /\ check[w].pc = "asleep" /\ check[w].wait = 0
    /\ Goes(w, Sent(check[w]))
    /\ since' = 0
    /\ UNCHANGED <<loans, primary, head>>

MutantRetriesForever(w) ==
    /\ check[w].pc = "sent"
    /\ Goes(w, [check[w] EXCEPT !.pc = "backoff", !.wait = BACKOFF])
    /\ UNCHANGED <<loans, primary, head, since>>
\* Too many requests: back off and go round again, or give up.
Throttled(w) ==
    /\ check[w].pc = "sent"
    /\ Goes(w, IF check[w].attempt < MAX_429_RETRIES
               THEN [check[w] EXCEPT !.pc = "backoff", !.wait = BACKOFF, !.attempt = @ + 1]
               ELSE [check[w] EXCEPT !.pc = "failed"])
    /\ UNCHANGED <<loans, primary, head, since>>

BackedOff(w) ==
    /\ check[w].pc = "backoff" /\ check[w].wait = 0
    /\ Goes(w, [check[w] EXCEPT !.pc = "pace"])
    /\ UNCHANGED <<loans, primary, head, since>>

\* The end of count(): Aave's is followed by Compound's where there is one.
Counts(k, total) ==
    CASE k.protocol = "aave" /\ CHAINS[k.chain] \in CompoundChain ->
           [k EXCEPT !.pc = "pace", !.protocol = "compound", !.aave = total, !.from = 0, !.total = 0,
                     !.target = -1, !.page = 0, !.attempt = 0]
      [] k.protocol = "aave" /\ CHAINS[k.chain] \notin CompoundChain -> Found(k, total, 0, "hypersync", FALSE)
      [] OTHER -> Found(k, k.aave, total, "hypersync", FALSE)

MutantPartialAnswer(k, target, total, next) ==
    IF next >= target \/ k.page + 1 = MAX_PAGES THEN Counts(k, total)
    ELSE [k EXCEPT !.pc = "pace", !.from = next, !.total = total, !.target = target, !.page = @ + 1, !.attempt = 0]
\* count(): to the head as of the first response; never a partial answer.
Counted(k, target, total, next) ==
    CASE next >= target -> Counts(k, total)
      [] next < target /\ (next <= k.from \/ k.page + 1 = MAX_PAGES) -> [k EXCEPT !.pc = "failed"]
      [] OTHER -> [k EXCEPT !.pc = "pace", !.from = next, !.total = total, !.target = target,
                            !.page = @ + 1, !.attempt = 0]

\* A page of the archive, up to any block the server chooses.
Page(w) ==
    /\ check[w].pc = "sent"
    /\ LET k == check[w] IN
       \E next \in k.from .. head + 1 :
           Goes(w, Counted(k, IF k.target = -1 THEN head ELSE k.target,
                           k.total + Records(At(w), Kinds(k.protocol), k.from, next), next))
    /\ UNCHANGED <<loans, primary, head, since>>

\* A timeout, an HTTP error or an unexpected shape.
Throws(w) ==
    /\ check[w].pc \in {"sent", "alchemy"}
    /\ Goes(w, IF check[w].pc = "sent" THEN [check[w] EXCEPT !.pc = "failed"] ELSE Answer(check[w], Unanswered))
    /\ UNCHANGED <<loans, primary, head, since>>

----------------------------------------------------------------------------
(* Alchemy, for a chain where the primary failed (FallbackHistoryChecker).    *)

FallBack(w) ==
    /\ check[w].pc = "failed"
    /\ Goes(w, IF At(w) \in FallbackChain
               THEN [check[w] EXCEPT !.pc = "alchemy", !.from = 0, !.total = 0, !.page = 0]
               ELSE Answer(check[w], Unanswered))
    /\ UNCHANGED <<loans, primary, head, since>>

MutantGapForgotten(c) == FALSE
Gap(c) == c \in CompoundChain

\* A page of transfers, mints of variable debt tokens, one a borrow: a loan at a stable
\* rate is not among them.  The last page carries no pageKey.
Transfers(w) ==
    /\ check[w].pc = "alchemy"
    /\ LET k == check[w] IN
       \E next \in k.from .. head + 1 :
           LET mints == k.total + Records(At(w), {"variable"}, k.from, next) IN
           Goes(w, CASE next > head -> Found(k, mints, 0, "alchemy", Gap(At(w)))
                     [] next <= head /\ k.page + 1 < MAX_PAGES ->
                          [k EXCEPT !.from = next, !.total = mints, !.page = @ + 1]
                     [] OTHER -> Answer(k, Unanswered))
    /\ UNCHANGED <<loans, primary, head, since>>

\* The service takes the answers.
Deliver(w) ==
    /\ check[w].pc = "done"
    /\ Goes(w, NoCheck)
    /\ UNCHANGED <<loans, primary, head, since>>

----------------------------------------------------------------------------

Grow ==
    /\ head < MAX_BLOCK
    /\ head' = head + 1
    /\ UNCHANGED <<loans, primary, since, check>>

\* Another check, of any wallet, sends a request through the same client.
OthersSend ==
    /\ since' = 0
    /\ UNCHANGED <<loans, primary, head, check>>

\* Sleeping checks wake after their time, not before; perhaps later.
Tick ==
    /\ since' = IF since < MIN_INTERVAL THEN since + 1 ELSE since
    /\ check' = [w \in Wallet |->
                   [check[w] EXCEPT !.wait = IF @ > 0 THEN @ - 1 ELSE 0,
                                    !.own = IF @ < MIN_INTERVAL THEN @ + 1 ELSE @]]
    /\ UNCHANGED <<loans, primary, head>>

Init ==
    /\ loans \in Loans /\ primary \in {"hypersync", "off"}
    /\ head = 0
    /\ since = MIN_INTERVAL
    /\ check = [w \in Wallet |-> NoCheck]

Step(w) ==
    \/ Pace(w) \/ Wake(w) \/ Throttled(w) \/ BackedOff(w) \/ Page(w) \/ Throws(w)
    \/ FallBack(w) \/ Transfers(w) \/ Deliver(w)

Next ==
    \/ \E w \in Wallet : Start(w) \/ Step(w)
    \/ Grow \/ OthersSend \/ Tick

Spec == Init /\ [][Next]_vars

\* Every request is answered or times out, and every sleep ends.
FairSpec == Spec /\ WF_vars(Tick) /\ \A w \in Wallet : WF_vars(Step(w))

----------------------------------------------------------------------------
(* Properties. *)

LoansBefore(c, kinds, block) == Records(c, kinds, 0, block)

\* The loans there were as the chain's check began, and perhaps some of those since.
Complete(n, c, kinds, began) == n \in LoansBefore(c, kinds, began) .. LoansBefore(c, kinds, head + 1)

CompleteAnswer(c, a) ==
    /\ a.source = "hypersync" =>
         /\ Complete(a.aave, c, {"variable", "stable"}, a.began)
         /\ Complete(a.compound, c, {"compound"}, a.began)
         /\ ~a.gap
    /\ a.source = "alchemy" =>
         /\ Complete(a.aave, c, {"variable"}, a.began)
         /\ a.compound = 0 /\ (a.gap <=> c \in CompoundChain)
    /\ a.ok <=> a.source # "none"

\* "Exceeding it is an error, never a partial answer" (history.ts): an answer counts
\* every borrow its source can see that was on record as the chain's check began, and
\* none twice, through pages of any size, a moving head, retries and the fallback.
\* HyperSync's answer leaves nothing out.  Alchemy's leaves out Compound, which it says
\* (gap), and the loans at a stable rate, which it does not ("KNOWN GAPS").
CompleteOrError == \A w \in Wallet, c \in Chain : CompleteAnswer(c, check[w].answers[c])

\* What the service concludes is checked (Evaluation.tla) for the answers these clients
\* make: of the loans of some moment between the beginning of the chain's check and now,
\* with one source, or both, out of reach.
AsEvaluated(borrowed, down) ==
    INSTANCE Evaluation WITH
        Scoreable <- Chain, MAX_DRIFT <- 0, ChainScoreInput <- {}, NOW <- 0, WINDOW <- 1,
        MaxLiquidations <- 0, LoanInput <- {}, upstream <- <<>>, rec <- <<>>
Seen(block) == {<<l.chain, l.kind>> : l \in {x \in loans : x.block < block}}
AnswersAsEvaluated ==
    \A w \in Wallet, c \in Chain :
        LET a == check[w].answers[c] IN
        \E block \in a.began .. head + 1, down \in SUBSET ({"hypersync", "alchemy"} \X {c}) :
            AsEvaluated(Seen(block), down)!ChainHistory(c)
                = [ok |-> a.ok, borrows |-> a.aave + a.compound > 0, gap |-> a.gap]

AnswersAreHonest == CompleteOrError /\ AnswersAsEvaluated

\* "Checks chains one at a time, so one wallet never bursts" (history.ts): two
\* requests of a wallet's check are at least the minimum interval apart, across pages,
\* protocols, chains and retries, whatever other checks the client serves.
OneWalletNeverBursts ==
    [][\A w \in Wallet : check[w].pc # "sent" /\ check'[w].pc = "sent" => check[w].own = MIN_INTERVAL]_vars

\* "Chasing a moving head on a fast chain would never end" (history.ts): every check
\* ends, however fast the chains grow and whatever HyperSync refuses.
EveryCheckEnds == \A w \in Wallet : check[w].pc # "idle" ~> check[w].pc = "done"
=============================================================================
