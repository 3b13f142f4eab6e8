----------------------------- MODULE MCDbLease -----------------------------
(* DbLease for TLC: one user, whose file is leased to two clients.         *)
EXTENDS DbLease
=============================================================================
