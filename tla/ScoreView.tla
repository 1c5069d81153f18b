----------------------------- MODULE ScoreView -----------------------------
(***************************************************************************)
(* What a consumer of the registry relies on.  Each wallet has a published *)
(* score or none.  A score appears only by a publication, each of which    *)
(* spends one serial number of its wallet and is possible only while the   *)
(* registry takes attestations; it may be withdrawn at any time, for any   *)
(* set of wallets, and a withdrawn score comes back only by a new          *)
(* publication.  How scores are signed, dated, expired and invalidated is  *)
(* the business of ScoreRegistry, which implements this specification.     *)
(***************************************************************************)
EXTENDS Naturals, RiskParams

CONSTANTS Wallet, Score

None == 0   \* the number effectiveTier returns for a wallet without a fresh score

VARIABLES
    view,    \* the score a wallet is priced by, or None
    serial,  \* publications so far, per wallet
    open     \* attestations are being taken

vars == <<view, serial, open>>

Init ==
    /\ view = [w \in Wallet |-> None]
    /\ serial = [w \in Wallet |-> 0]
    /\ open = TRUE

Publish(w, s) ==
    /\ open
    /\ view' = [view EXCEPT ![w] = s]
    /\ serial' = [serial EXCEPT ![w] = @ + 1]
    /\ UNCHANGED open

Withdraw(W) ==
    /\ view' = [w \in Wallet |-> IF w \in W THEN None ELSE view[w]]
    /\ UNCHANGED <<serial, open>>

Toggle == /\ open' = ~open
          /\ UNCHANGED <<view, serial>>

Next ==
    \/ \E w \in Wallet, s \in Score : Publish(w, s)
    \/ \E W \in SUBSET Wallet : Withdraw(W)
    \/ Toggle

Spec == Init /\ [][Next]_vars
=============================================================================
