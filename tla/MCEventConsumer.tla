-------------------------- MODULE MCEventConsumer --------------------------
(* Small instances of EventConsumer: the kinds of the published events. *)
EXTENDS EventConsumer

CONSTANTS e1, e2, e3, auth, failing, malformed

MCKind ==
  [e \in Events |-> CASE e = auth      -> "auth"
                      [] e = failing   -> "failing"
                      [] e = malformed -> "malformed"
                      [] OTHER         -> "event"]
=============================================================================
