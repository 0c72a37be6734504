----------------------------- MODULE MCIOManager -----------------------------
(* IOManager on small instances for TLC.                                   *)
EXTENDS IOManager, TLC

CONSTANTS w1, r, d1, f1, f2

Symmetry == Permutations(Fibers)
=============================================================================
