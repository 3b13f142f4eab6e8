--------------------------- MODULE MCBattleServer ---------------------------
(* BattleServer for TLC.  The two sockets are for the first battle and for *)
(* the one that comes back to its slot.                                    *)
EXTENDS BattleServer

\* Stack contents: an address, or the fields of a player.
Stack == {[Free EXCEPT !.addr = Junk, !.raw = TRUE],
          [Free EXCEPT !.id = 1, !.seat = 2, !.raw = TRUE]}
FirstAndThird(a) == [battle |-> IF a = 1 THEN 1 ELSE 3, seat |-> a]
=============================================================================
