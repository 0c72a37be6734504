------------------------------- MODULE MCThread -------------------------------
(* Thread with three new threads for TLC.                                    *)
EXTENDS Thread

CONSTANTS c1, c2, c3
=============================================================================
