-------------------------- MODULE MCScoreRegistry --------------------------
(* Constants of the model-checking runs of ScoreRegistry. *)
EXTENDS ScoreRegistry, TLC

CONSTANTS k1, k2, m1

MCSymmetry == Permutations(Signer)
=============================================================================
