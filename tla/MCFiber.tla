------------------------------- MODULE MCFiber -------------------------------
(* Fiber on a small pool for TLC.                                          *)
EXTENDS Fiber, TLC

CONSTANTS w1, f1, f2, d1

Symmetry == Permutations(Tasks)
=============================================================================
