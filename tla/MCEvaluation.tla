--------------------------- MODULE MCEvaluation ---------------------------
(* Constants of the model-checking runs of Evaluation. *)
EXTENDS Evaluation

CONSTANTS c1, c2, c3

Healthy(s) == [ok |-> TRUE, score |-> s, borrower |-> TRUE, empty |-> FALSE,
               protocols |-> "lending", degraded |-> FALSE, timestamp |-> NOW]

\* Each kind of loan where the sources differ on it; a stable-rate loan alone on c2 is in
\* the fallback's silent gap.
MCLoans == {<<c1, "variable">>, <<c1, "compound">>, <<c2, "variable">>, <<c2, "stable">>, <<c3, "variable">>}

\* Two good answers, and one for each way an answer can be bad.
MCChainScoreInput ==
    {Healthy(310), Healthy(800),
     [Healthy(800) EXCEPT !.ok = FALSE],
     [Healthy(800) EXCEPT !.borrower = FALSE],
     [Healthy(310) EXCEPT !.protocols = "other"],
     [Healthy(300) EXCEPT !.protocols = "none"],
     [Healthy(800) EXCEPT !.empty = TRUE],
     [Healthy(800) EXCEPT !.degraded = TRUE],
     Healthy(851),
     [Healthy(800) EXCEPT !.timestamp = NOW + MAX_DRIFT + 1]}
=============================================================================
