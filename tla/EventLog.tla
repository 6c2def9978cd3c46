------------------------------ MODULE EventLog ------------------------------
(***************************************************************************)
(* What the path from RabbitMQ to MongoDB promises, with no listener, no   *)
(* logger and no connection in sight: accepted events wait in arrival      *)
(* order; only the first one is ever tried, each try may add a document to *)
(* the log, and an event leaves the line from the front once it is logged  *)
(* (or is of a kind that is never logged).  The line may be discarded as a *)
(* whole: the promise is at-least-once in arrival order for as long as the *)
(* line is not lost.  EventConsumer implements this specification.         *)
(***************************************************************************)
EXTENDS Naturals, Sequences

CONSTANTS
  Events,      \* the events
  Skippable    \* the events that may be settled without being logged

VARIABLES
  pending,     \* accepted and unsettled events, in arrival order
  tried,       \* events for which writing to the log has been attempted
  log          \* log[e]: the documents the log holds for e

vars == <<pending, tried, log>>

Init ==
  /\ pending = <<>>
  /\ tried = {}
  /\ log = [e \in Events |-> 0]

Enqueue(e) ==
  /\ pending' = Append(pending, e)
  /\ UNCHANGED <<tried, log>>

(* Only the event at the front of the line is tried. *)
Try ==
  /\ pending # <<>>
  /\ tried' = tried \cup {Head(pending)}
  /\ UNCHANGED <<pending, log>>

(* A try may take effect late, more than once (one try each) or never. *)
Write(e) ==
  /\ e \in tried
  /\ log' = [log EXCEPT ![e] = @ + 1]
  /\ UNCHANGED <<pending, tried>>

(* An event is settled from the front, and only when it is in the log. *)
Settle ==
  /\ pending # <<>>
  /\ \/ log[Head(pending)] > 0
     \/ Head(pending) \in Skippable
  /\ pending' = Tail(pending)
  /\ UNCHANGED <<tried, log>>

Discard ==
  /\ pending' = <<>>
  /\ UNCHANGED <<tried, log>>

Next ==
  \/ \E e \in Events : Enqueue(e) \/ Write(e)
  \/ Try
  \/ Settle
  \/ Discard

Spec == Init /\ [][Next]_vars
=============================================================================
