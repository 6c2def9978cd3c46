-------------------------- MODULE MCAuthentication --------------------------
(* Small instances of Authentication. *)
EXTENDS Authentication, TLC

CONSTANTS r1, r2, p1, p2

Symmetry == Permutations(Requests) \cup Permutations(Passwords)
=============================================================================
