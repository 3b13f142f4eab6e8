---------------------------- MODULE MCFifoMatch -----------------------------
(* FifoMatch for TLC: a player with two connections, and another.          *)
EXTENDS FifoMatch

Twice(c) == IF c = 3 THEN "b" ELSE "a"
Few(c) == IF c = 1 THEN 2 ELSE 1
=============================================================================
