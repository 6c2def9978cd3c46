--------------------------- MODULE MCEventEmitter ---------------------------
(* Small instances of EventEmitter. *)
EXTENDS EventEmitter

CONSTANTS s1, s2, s3, blank
=============================================================================
