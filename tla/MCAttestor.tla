---------------------------- MODULE MCAttestor ----------------------------
(* Constants of the model-checking runs of Attestor. *)
EXTENDS Attestor, TLC

CONSTANTS c1, c2, p1, p2, i1, i2, k1, k2

MCPosition == [c \in Chain |-> IF c = c1 THEN 1 ELSE 2]
MCOneProcess == [p \in Worker |-> i1]
MCTwoProcesses == [p \in Worker |-> IF p = p1 THEN i1 ELSE i2]

Clean == [ok |-> TRUE, borrows |-> FALSE, gap |-> FALSE]
Borrows == [ok |-> TRUE, borrows |-> TRUE, gap |-> FALSE]
Unchecked == [ok |-> FALSE, borrows |-> FALSE, gap |-> FALSE]

\* Borrowing on the first chain, the other one checked or not.
MCBorrower == {[c \in Chain |-> Borrows]}
MCHistories == {[c \in Chain |-> IF c = c1 THEN Borrows ELSE x] : x \in {Clean, Borrows, Unchecked}}
                 \cup {[c \in Chain |-> x] : x \in {Clean, Unchecked}}

Good(s) == [ok |-> TRUE, score |-> s, borrower |-> TRUE, empty |-> FALSE,
            protocols |-> "lending", degraded |-> FALSE, timestamp |-> 0]

MCOneAnswer == {Good(800)}
MCFewAnswers == {Good(800), Good(310), [Good(800) EXCEPT !.borrower = FALSE]}
MCBehind == {-1}
MCTwoAnswers == {Good(800), [Good(800) EXCEPT !.degraded = TRUE]}
=============================================================================
