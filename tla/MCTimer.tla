------------------------------- MODULE MCTimer -------------------------------
(* Timer on small instances for TLC.                                       *)
EXTENDS Timer, TLC

CONSTANTS t1, t2, u1, u2, v1, v2

Symmetry == Permutations(Users) \cup Permutations(Waiters)
=============================================================================
