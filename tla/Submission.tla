----------------------------- MODULE Submission -----------------------------
(***************************************************************************)
(* What the broker promises for each of its submissions, whatever the      *)
(* action and the services behind it (workflow.go Submit, with the status  *)
(* codes of statusForWorkflowError): a client that reads "yes" finds the   *)
(* effect, one that reads "no" never will, one that reads neither does not *)
(* know; and one submission takes effect once.                             *)
(***************************************************************************)
EXTENDS Naturals

CONSTANT Requests   \* the submissions

VARIABLES
  answer,   \* answer[r]: "none", or what the client may conclude
  effect    \* effect[r]: 1 once the document, mail or event is there

vars == <<answer, effect>>

Init ==
  /\ answer = [r \in Requests |-> "none"]
  /\ effect = [r \in Requests |-> 0]

Reply(r, word) ==
  /\ answer[r] = "none"
  /\ answer' = [answer EXCEPT ![r] = word]
  /\ UNCHANGED effect

Accept(r) == effect[r] = 1 /\ Reply(r, "yes")

Refuse(r) == effect[r] = 0 /\ Reply(r, "no")

Doubt(r) == Reply(r, "unsure")

(* It may happen long after a doubtful answer. *)
Perform(r) ==
  /\ answer[r] # "no" /\ effect[r] = 0
  /\ effect' = [effect EXCEPT ![r] = 1]
  /\ UNCHANGED answer

Next == \E r \in Requests : Accept(r) \/ Refuse(r) \/ Doubt(r) \/ Perform(r)

Spec == Init /\ [][Next]_vars
=============================================================================
