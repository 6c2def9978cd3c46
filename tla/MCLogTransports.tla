-------------------------- MODULE MCLogTransports --------------------------
(* A small instance of LogTransports.  Submissions share nothing but the   *)
(* logger's presence, which may change at any moment: what one of several  *)
(* meets, it meets alone as well.                                          *)
EXTENDS LogTransports

CONSTANT r1
=============================================================================
