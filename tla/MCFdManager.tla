----------------------------- MODULE MCFdManager -----------------------------
(* FdManager on two descriptors for TLC.                                   *)
EXTENDS FdManager, TLC

CONSTANTS t1, t2, t3

Symmetry == Permutations(Hooked)
=============================================================================
