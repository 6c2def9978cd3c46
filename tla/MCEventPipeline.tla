-------------------------- MODULE MCEventPipeline --------------------------
(* Small instances of EventPipeline: the kinds of the submitted events. *)
EXTENDS EventPipeline

CONSTANTS e1, e2, auth, failing, blank

MCKind ==
  [e \in Events |-> CASE e = auth    -> "auth"
                      [] e = failing -> "failing"
                      [] OTHER       -> "event"]
=============================================================================
