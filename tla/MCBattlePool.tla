---------------------------- MODULE MCBattlePool ----------------------------
(* BattlePool for TLC.  Sessions 1 and 3 are connections of one player, 2  *)
(* of another.                                                             *)
EXTENDS BattlePool

Player(s) == s % 2
=============================================================================
