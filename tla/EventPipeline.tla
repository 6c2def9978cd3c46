---------------------------- MODULE EventPipeline ----------------------------
(***************************************************************************)
(* The whole log-event path: the broker's emitters (EventEmitter) and the  *)
(* listener with its queue, the logger and MongoDB (EventConsumer).  They  *)
(* share nothing but the exchange: RabbitMQ routing a published frame is   *)
(* the same step as the event's arrival at the queue, or at no queue.      *)
(***************************************************************************)
EXTENDS Integers, Sequences, FiniteSets

CONSTANTS Events, None, Kind, Invalid,
          ChannelMax, MaxBrokerFaults, MaxLoggerFaults, MaxListenerFaults

(* The broker marshals what it publishes, so every event decodes. *)
ASSUME MarshalAssumption == \A e \in Events : Kind[e] # "malformed"
ASSUME InvalidAssumption == Invalid \subseteq Events
ASSUME NoneAssumption == None \notin Events
ASSUME KindAssumption ==
  Kind \in [Events -> {"event", "auth", "failing", "malformed"}]
ASSUME BoundsAssumption ==
  /\ ChannelMax \in Nat /\ MaxBrokerFaults \in Nat
  /\ MaxLoggerFaults \in Nat /\ MaxListenerFaults \in Nat

VARIABLES pc, answer, conn, channels, wire, routed, cut, brokerFaults
VARIABLES queue, inbox, link, stage, stopping, current, attempt, loggerUp,
          orphans, stored, arrived, outcome, posted, unsure, loggerFaults,
          listenerFaults

Publisher == INSTANCE EventEmitter
Consumer  == INSTANCE EventConsumer

publisherVars == <<pc, answer, conn, channels, wire, routed, cut, brokerFaults>>
consumerVars  == <<queue, inbox, link, stage, stopping, current, attempt,
                   loggerUp, orphans, stored, arrived, outcome, posted, unsure,
                   loggerFaults, listenerFaults>>
vars == <<publisherVars, consumerVars>>

Init == Publisher!Init /\ Consumer!Init

RouteAndArrive(e) == Publisher!Route(e) /\ Consumer!Arrive(e)

Next ==
  \/ \E e \in Events : RouteAndArrive(e)
  \/ Publisher!Internal /\ UNCHANGED consumerVars
  \/ Consumer!Internal /\ UNCHANGED publisherVars

Spec == Init /\ [][Next]_vars

(* The fairness of EventEmitter and EventConsumer, step by step of the     *)
(* composition.                                                            *)
Fairness ==
  /\ \A e \in Events :
       /\ WF_vars(/\ \/ Publisher!OpenChannel(e) \/ Publisher!DeclareExchange(e)
                     \/ Publisher!Publish(e) \/ Publisher!CloseChannel(e)
                  /\ UNCHANGED consumerVars)
       /\ WF_vars(RouteAndArrive(e))
  /\ WF_vars(Publisher!Notice /\ UNCHANGED consumerVars)
  /\ WF_vars((Consumer!DeclareQueue \/ Consumer!BindQueue \/ Consumer!Consume)
             /\ UNCHANGED publisherVars)
  /\ WF_vars(Consumer!Deliver /\ UNCHANGED publisherVars)
  /\ WF_vars((\E e \in Events : Consumer!Handle(e)) /\ UNCHANGED publisherVars)
  /\ WF_vars((\E e \in Events : Consumer!WriteLog(e)) /\ UNCHANGED publisherVars)
  /\ WF_vars(Consumer!BackoffEnds /\ UNCHANGED publisherVars)
  /\ WF_vars(Consumer!ExitClosed /\ UNCHANGED publisherVars)
  /\ WF_vars(Consumer!LoggerStart /\ UNCHANGED publisherVars)
  /\ SF_vars(Consumer!ShutDown /\ UNCHANGED publisherVars)

(* docker compose starts the listener along with everything else. *)
ListenerStarted == WF_vars(Consumer!Connect /\ UNCHANGED publisherVars)

FairSpec == Spec /\ Fairness /\ ListenerStarted

-----------------------------------------------------------------------------
(* Properties *)

(* A client told 400 or 502 by the broker finds no document of its event   *)
(* in MongoDB, then or later.                                              *)
RefusedNeverLogged ==
  \A e \in Events : answer[e] \in {400, 502} => stored[e] + orphans[e] = 0

(* What 202 is worth: an accepted event that is not in MongoDB is still    *)
(* queued, or is lost in one of four ways: its publish was cut off, no     *)
(* queue was bound, the listener's queue was deleted, its name is "auth".  *)
AcceptedIsAccounted ==
  \A e \in Events :
    answer[e] = 202 /\ stored[e] = 0 =>
      \/ outcome[e] = "queued"
      \/ e \in cut
      \/ outcome[e] \in {"unroutable", "lost"}
      \/ outcome[e] = "acked" /\ Kind[e] = "auth"

(* An event submitted while the listener's queue is bound is logged, or    *)
(* refused with 502, or lost with a connection or a process: the broker's, *)
(* or the listener's.  An outage of the logger loses nothing.  The one     *)
(* other end is to wait behind an event that makes the logger fail: that   *)
(* one is requeued for ever, and the prefetch of 1 lets nothing past it.   *)
SubmittedIsLogged ==
  \A e \in Events :
    pc[e] = "setup" /\ Consumer!Routable /\ Kind[e] = "event" ~>
      \/ stored[e] > 0 \/ Consumer!Blocked(e)
      \/ answer[e] = 502
      \/ e \in cut \/ outcome[e] \in {"unroutable", "lost"}
      \/ pc[e] = "done" /\ answer[e] = 0

(* "logged via RabbitMQ", eventually: an event the broker accepted reaches *)
(* the log when nothing at all fails.                                      *)
AcceptedIsLogged ==
  \A e \in Events : answer[e] = 202 /\ Kind[e] = "event" ~> stored[e] > 0

-----------------------------------------------------------------------------
(* What ties the halves together, besides the inductive invariants of the  *)
(* two modules: what RabbitMQ has routed is what has arrived, at a queue   *)
(* or at none.                                                             *)
RoutedInv == \A e \in Events : e \in routed <=> outcome[e] # "unpublished"
=============================================================================
