----------------------------- MODULE MCRankRace -----------------------------
(* RankRace on a small instance: three players, three scores.              *)
EXTENDS RankRace

ScoresDef == 1 .. 3
=============================================================================
