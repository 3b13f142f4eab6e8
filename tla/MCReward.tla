------------------------------ MODULE MCReward ------------------------------
(* Reward for TLC: a player who wins, and then plays two others.           *)
EXTENDS Reward

Pairing == <<<<"a", "b">>, <<"c", "a">>, <<"b", "d">>>>
Paired(r, i) == Pairing[r][i]
=============================================================================
