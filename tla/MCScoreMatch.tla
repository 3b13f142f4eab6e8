---------------------------- MODULE MCScoreMatch ----------------------------
(* ScoreMatch on a small instance.                                         *)
EXTENDS ScoreMatch, TLC

Symmetry == Permutations(Users) \cup Permutations(Workers)
=============================================================================
