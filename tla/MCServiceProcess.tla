------------------------- MODULE MCServiceProcess -------------------------
(* A small instance of ServiceProcess: each of the five services by turns. *)
EXTENDS ServiceProcess
=============================================================================
