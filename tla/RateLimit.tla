---------------------------- MODULE RateLimit ----------------------------
(***************************************************************************)
(* The rate limit of POST /attest and GET /score (limited() of             *)
(* packages/attestor/src/http.ts) over hit() of either store: the sliding  *)
(* window of store.ts, kept in memory, and the fixed window of pgStore.ts, *)
(* kept in the database.                                                   *)
(*                                                                         *)
(* A request reads the clock once and hits two keys, its address of origin *)
(* and its wallet, in that order.  A hit's time is kept as its age, up to  *)
(* WINDOW; `offset` is the clock's place in the fixed window.  An operator *)
(* named Mutant... is a plausible slip in the operator after it.           *)
(***************************************************************************)
EXTENDS Integers, Functions

CONSTANTS
    Ip, Wallet,                        \* clients and the wallets they ask about
    RATE_PER_IP, RATE_PER_ADDRESS,     \* rateLimitPerIp, rateLimitPerAddress
    WINDOW,                            \* WINDOW_MS
    Request, DELAY                     \* requests at once, and how long the database may take

Key == Ip \cup Wallet
Limit(key) == IF key \in Ip THEN RATE_PER_IP ELSE RATE_PER_ADDRESS
Age == 0 .. WINDOW - 1

NoHits == [k \in Key |-> [a \in Age |-> 0]]
Aged(count) == [a \in Age |-> IF a = 0 THEN 0 ELSE count[a - 1]]
Idle == [wallet |-> "none", age |-> 0]

VARIABLES
    sliding,    \* the store is the one in memory
    offset,     \* nowMs % windowMs
    hits,       \* MemoryStore: the hits of each key, by age
    rows,       \* PgStore: the hits of each key in this window and in the one before
    request,    \* the requests between their two hits
    passed,     \* history: the hits of each key that were let through, by age
    quiet       \* history: per key, the time since it was last hit

rateVars == <<sliding, offset, hits, rows, request, passed, quiet>>

----------------------------------------------------------------------------
(* hit(key, max, windowMs, nowMs), for a clock read `age` ago. *)

\* The row of the database a time falls in.
Row(age) == IF age <= offset THEN "this" ELSE "last"

MutantOneMore(key, age) ==
    IF sliding
    THEN SumFunction(hits[key]) < Limit(key)
    ELSE rows[key][Row(age)] <= Limit(key)
Free(key, age) ==
    IF sliding
    THEN SumFunction(hits[key]) < Limit(key)
    ELSE rows[key][Row(age)] + 1 <= Limit(key)

\* The sliding window counts what it lets through.  The fixed window counts every
\* hit; how far past the limit makes no difference.
Hit(key, age) ==
    /\ quiet' = [quiet EXCEPT ![key] = 0]
    /\ passed' = IF Free(key, age) THEN [passed EXCEPT ![key][age] = @ + 1] ELSE passed
    /\ hits' = IF sliding /\ Free(key, age) THEN [hits EXCEPT ![key][age] = @ + 1] ELSE hits
    /\ rows' = IF ~sliding /\ Free(key, age) THEN [rows EXCEPT ![key][Row(age)] = @ + 1] ELSE rows
    /\ UNCHANGED <<sliding, offset>>

----------------------------------------------------------------------------
(* limited(ip, wallet): two awaits, on one reading of the clock. *)

HitIp(r, ip, w) ==
    /\ request[r] = Idle
    /\ Hit(ip, 0)
    /\ request' = IF Free(ip, 0) THEN [request EXCEPT ![r] = [wallet |-> w, age |-> 0]] ELSE request

HitAddress(r) ==
    /\ request[r] # Idle
    /\ Hit(request[r].wallet, request[r].age)
    /\ request' = [request EXCEPT ![r] = Idle]

MutantNoNewRow == rows
\* The rows as the clock reaches `offset'`: a new one at the edge of a window.
NextRows == IF offset' = 0 THEN [k \in Key |-> [this |-> 0, last |-> rows[k].this]] ELSE rows

\* The memory store answers before the clock moves on, the database within DELAY.
RateTick ==
    /\ \A r \in Request : request[r] # Idle => ~sliding /\ request[r].age < DELAY
    /\ offset' = (offset + 1) % WINDOW
    /\ hits' = [k \in Key |-> Aged(hits[k])]
    /\ passed' = [k \in Key |-> Aged(passed[k])]
    /\ quiet' = [k \in Key |-> IF quiet[k] < WINDOW THEN quiet[k] + 1 ELSE WINDOW]
    /\ rows' = NextRows
    /\ request' = [r \in Request |-> IF request[r] = Idle THEN Idle ELSE [request[r] EXCEPT !.age = @ + 1]]
    /\ UNCHANGED sliding

\* A new process starts with the rows of the database, or with an empty memory: what
\* the one before it let through counts for nothing.
RateRestart ==
    /\ request' = [r \in Request |-> Idle]
    /\ hits' = NoHits
    /\ passed' = IF sliding THEN NoHits ELSE passed
    /\ UNCHANGED <<sliding, offset, rows, quiet>>

RateInit(inMemory) ==
    /\ sliding = inMemory /\ offset = 0
    /\ hits = NoHits /\ passed = NoHits
    /\ rows = [k \in Key |-> [this |-> 0, last |-> 0]]
    /\ request = [r \in Request |-> Idle]
    /\ quiet = [k \in Key |-> WINDOW]

RateNext ==
    \/ \E r \in Request, ip \in Ip, w \in Wallet : HitIp(r, ip, w)
    \/ \E r \in Request : HitAddress(r)
    \/ RateTick

----------------------------------------------------------------------------
(* Properties. *)

\* "At most 2x the limit across a window edge" (pgStore.ts), and never more than the
\* limit with the sliding window: what any window as long as WINDOW lets through,
\* whatever requests are under way together.
WithinLimit ==
    \A k \in Key : SumFunction(passed[k]) <= IF sliding THEN Limit(k) ELSE 2 * Limit(k)

\* Nobody is locked out: a client or a wallet not heard of for a whole window passes.
QuietKeyPasses == \A k \in Key : quiet[k] = WINDOW => Free(k, 0)
=============================================================================
