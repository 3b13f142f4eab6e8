----------------------------- MODULE MCRankData -----------------------------
(* RankData on a small instance: three distances of scores (1, 2 and 3)    *)
(* and reaches that grow from 0 to 2 on either side.                       *)
EXTENDS RankData

ScoresDef == {1, 2, 4}
ElapsedDef == <<2, 1, 0>>
DistanceDef == <<2, 1, 0>>

Symmetry == Permutations(Ids) \cup Permutations(Nicks)
=============================================================================
