----------------------------- MODULE MCClientTcp -----------------------------
(* ClientTcp for TLC.                                                       *)
EXTENDS ClientTcp

Nick == {"querynick", "queue"}
Board == {"leaderboard"}
=============================================================================
