------------------------- MODULE MCLoggerLifecycle -------------------------
(* Small instances of LoggerLifecycle, all of whose requests are alike. *)
EXTENDS LoggerLifecycle, TLC

CONSTANTS r1, r2

Symmetry == Permutations(Requests)
=============================================================================
