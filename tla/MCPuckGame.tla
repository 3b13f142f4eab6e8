----------------------------- MODULE MCPuckGame -----------------------------
(* PuckGame for TLC: its constants are numbers, given in the .cfg files.   *)
EXTENDS PuckGame
=============================================================================
