-------------------------- MODULE MCClientThreads ---------------------------
(* ClientThreads for TLC.                                                  *)
EXTENDS ClientThreads

States == {Play, Over}
=============================================================================
