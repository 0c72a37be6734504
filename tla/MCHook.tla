-------------------------------- MODULE MCHook --------------------------------
(* Hook on small instances for TLC.                                        *)
EXTENDS Hook

CONSTANTS f1, f2, d1
=============================================================================
