----------------------------- MODULE MCScheduler -----------------------------
(* Scheduler on a small pool for TLC.                                      *)
EXTENDS Scheduler

CONSTANTS w1, w2, f1, f2
=============================================================================
