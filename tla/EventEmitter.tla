---------------------------- MODULE EventEmitter ----------------------------
(***************************************************************************)
(* The publishing half of the log-event path: POST /handle requests with   *)
(* action "log-event" in the broker (cmd/api/workflow.go LogViaRabbit) and *)
(* the emitter they create (event/emitter.go), all of them sharing the one *)
(* RabbitMQ connection that main dialled at start-up.  Each submission is  *)
(* identified with the event it carries and runs in its own goroutine.     *)
(*                                                                         *)
(* A published frame sits in wire until RabbitMQ has routed it; the reply  *)
(* to a channel.close comes after everything sent on the channel has been  *)
(* processed, which is why the deferred Close orders the answer.           *)
(***************************************************************************)
EXTENDS Naturals, FiniteSets

CONSTANTS
  Events,          \* the submissions
  Invalid,         \* those with an unreadable body, a blank name or data
  ChannelMax,      \* channels RabbitMQ allows on a connection
  MaxBrokerFaults  \* bound on lost connections and broker restarts

ASSUME InvalidAssumption == Invalid \subseteq Events
ASSUME LimitAssumption == ChannelMax \in Nat /\ MaxBrokerFaults \in Nat

VARIABLES
  pc,          \* pc[e]: where the handler of submission e is
  answer,      \* answer[e]: the status it was answered with, 0 for none
  conn,        \* "open"; "broken": gone, not noticed yet; "closed"
  channels,    \* the number of AMQP channels open on the connection
  wire         \* frames published and not yet processed by RabbitMQ

(* History: submissions routed to the exchange, submissions whose publish  *)
(* was under way when the connection broke; and the fault counter.         *)
VARIABLES routed, cut, brokerFaults

vars == <<pc, answer, conn, channels, wire, routed, cut, brokerFaults>>

WithChannel == {"declare", "publish", "closing"}
Steps   == {"idle", "setup", "push", "done"} \cup WithChannel
Answers == {0, 202, 400, 502}

Init ==
  /\ pc = [e \in Events |-> "idle"]
  /\ answer = [e \in Events |-> 0]
  /\ conn = "open" /\ channels = 0
  /\ wire = {} /\ routed = {} /\ cut = {}
  /\ brokerFaults = 0

Goto(e, step) == pc' = [pc EXCEPT ![e] = step] /\ UNCHANGED answer

(* writeJSON or errorJSON: the handler is done *)
Reply(e, status) ==
  /\ pc' = [pc EXCEPT ![e] = "done"]
  /\ answer' = [answer EXCEPT ![e] = status]

(* readJSON, Validate and validateLogInput come before anything is opened *)
Submit(e) ==
  /\ pc[e] = "idle"
  /\ IF e \in Invalid THEN Reply(e, 400) ELSE Goto(e, "setup")
  /\ UNCHANGED <<conn, channels, wire, routed, cut, brokerFaults>>

OpenOneTooMany(e) ==
  /\ pc[e] \in {"setup", "push"} /\ conn # "broken"
  /\ IF conn = "open" /\ channels =< ChannelMax
     THEN /\ channels' = channels + 1
          /\ Goto(e, IF pc[e] = "setup" THEN "declare" ELSE "publish")
     ELSE Reply(e, 502) /\ UNCHANGED channels
  /\ UNCHANGED <<conn, wire, routed, cut, brokerFaults>>

(* connection.Channel(), in setup and again in Push: the call waits for a  *)
(* reply, so on a broken connection it returns once the break is noticed.  *)
OpenChannel(e) ==
  /\ pc[e] \in {"setup", "push"} /\ conn # "broken"
  /\ IF conn = "open" /\ channels < ChannelMax
     THEN /\ channels' = channels + 1
          /\ Goto(e, IF pc[e] = "setup" THEN "declare" ELSE "publish")
     ELSE Reply(e, 502) /\ UNCHANGED channels
  /\ UNCHANGED <<conn, wire, routed, cut, brokerFaults>>

DeclareLeaking(e) ==
  /\ pc[e] = "declare" /\ conn # "broken"
  /\ UNCHANGED channels
  /\ IF conn = "open" THEN Goto(e, "push") ELSE Reply(e, 502)
  /\ UNCHANGED <<conn, wire, routed, cut, brokerFaults>>

(* declareExchange, and the deferred Close of the channel it was made on *)
DeclareExchange(e) ==
  /\ pc[e] = "declare" /\ conn # "broken"
  /\ channels' = channels - 1
  /\ IF conn = "open" THEN Goto(e, "push") ELSE Reply(e, 502)
  /\ UNCHANGED <<conn, wire, routed, cut, brokerFaults>>

(* PublishWithContext only writes the frame: on a connection that is gone  *)
(* without being noticed it succeeds all the same.                         *)
Publish(e) ==
  /\ pc[e] = "publish"
  /\ IF conn = "closed"
     THEN Reply(e, 502) /\ channels' = channels - 1
     ELSE Goto(e, "closing") /\ UNCHANGED channels
  /\ wire' = IF conn = "open" THEN wire \cup {e} ELSE wire
  /\ UNCHANGED <<conn, routed, cut, brokerFaults>>

CloseReported(e) ==
  /\ pc[e] = "closing"
  /\ \/ conn = "open" /\ e \notin wire
     \/ conn = "closed"
  /\ channels' = channels - 1
  /\ Reply(e, IF conn = "open" THEN 202 ELSE 502)
  /\ UNCHANGED <<conn, wire, routed, cut, brokerFaults>>

CloseWaiting(e) ==
  /\ pc[e] = "closing"
  /\ conn = "open" /\ e \notin wire
  /\ channels' = channels - 1
  /\ Reply(e, 202)
  /\ UNCHANGED <<conn, wire, routed, cut, brokerFaults>>

(* The deferred channel.Close of Push waits for the reply or for the end   *)
(* of the connection; its error is dropped, so the answer is 202 in both.  *)
CloseChannel(e) ==
  /\ pc[e] = "closing"
  /\ \/ conn = "open" /\ e \notin wire
     \/ conn = "closed"
  /\ channels' = channels - 1
  /\ Reply(e, 202)
  /\ UNCHANGED <<conn, wire, routed, cut, brokerFaults>>

-----------------------------------------------------------------------------
(* RabbitMQ, the network and the container *)

Route(e) ==
  /\ e \in wire
  /\ wire' = wire \ {e}
  /\ routed' = routed \cup {e}
  /\ UNCHANGED <<pc, answer, conn, channels, cut, brokerFaults>>

BrokerFault ==
  /\ brokerFaults < MaxBrokerFaults
  /\ brokerFaults' = brokerFaults + 1

(* What RabbitMQ had not routed when the connection broke is lost. *)
Break ==
  /\ conn = "open"
  /\ conn' = "broken"
  /\ wire' = {}
  /\ cut' = cut \cup {e \in Events : pc[e] \in {"publish", "closing"}}
  /\ BrokerFault
  /\ UNCHANGED <<pc, answer, channels, routed>>

(* A read error or a missed heartbeat: the library closes the connection,  *)
(* and nothing in the broker opens another.                                *)
Notice ==
  /\ conn = "broken"
  /\ conn' = "closed"
  /\ UNCHANGED <<pc, answer, channels, wire, routed, cut, brokerFaults>>

(* A new process: running handlers end unanswered, main dials again. *)
Restart ==
  /\ pc' = [e \in Events |-> IF pc[e] = "idle" THEN "idle" ELSE "done"]
  /\ conn' = "open" /\ channels' = 0 /\ wire' = {}
  /\ BrokerFault
  /\ UNCHANGED <<answer, routed, cut>>

Handler(e) ==
  \/ Submit(e) \/ OpenChannel(e) \/ DeclareExchange(e) \/ Publish(e)
  \/ CloseChannel(e)

(* Every step except the one that hands an event to the queues *)
Internal ==
  \/ \E e \in Events : Handler(e)
  \/ Break \/ Notice \/ Restart

Next == Internal \/ \E e \in Events : Route(e)

Spec == Init /\ [][Next]_vars

(* A handler that is not waiting for a reply runs, RabbitMQ processes the  *)
(* frames it receives, heartbeats find a broken connection.                *)
Fairness ==
  /\ \A e \in Events :
       WF_vars(OpenChannel(e) \/ DeclareExchange(e) \/ Publish(e) \/ CloseChannel(e))
  /\ \A e \in Events : WF_vars(Route(e))
  /\ WF_vars(Notice)

FairSpec == Spec /\ Fairness

-----------------------------------------------------------------------------
(* Properties *)

TypeOK ==
  /\ pc \in [Events -> Steps]
  /\ answer \in [Events -> Answers]
  /\ conn \in {"open", "broken", "closed"}
  /\ channels \in 0..ChannelMax
  /\ wire \subseteq Events /\ routed \subseteq Events /\ cut \subseteq Events
  /\ brokerFaults \in 0..MaxBrokerFaults

Holders == {e \in Events : pc[e] \in WithChannel}

(* Every channel open on the shared connection belongs to a running        *)
(* handler: no path through setup and Push leaks one, whatever fails.      *)
ChannelsReleased == channels = Cardinality(Holders)

(* Every submission is answered, one on a lost connection included, unless *)
(* the process is replaced under it.                                       *)
EverySubmissionAnswered ==
  \A e \in Events : pc[e] = "setup" ~> pc[e] = "done"

(* A broker that lost its connection gets one again without being          *)
(* restarted.                                                              *)
ConnectionRestored == conn = "broken" ~> conn = "open"

(* A connection that broke under the publish makes 202 say nothing. *)
Conclusion(e) ==
  CASE answer[e] = 0                              -> "none"
    [] answer[e] = 202 /\ e \notin cut \ routed   -> "yes"
    [] answer[e] \in {400, 502}                   -> "no"
    [] OTHER                                      -> "unsure"

Promise ==
  INSTANCE Submission WITH
    Requests <- Events,
    answer <- [e \in Events |-> Conclusion(e)],
    effect <- [e \in Events |-> IF e \in routed THEN 1 ELSE 0]

(* 202 means that RabbitMQ has routed the event, unless the connection     *)
(* broke under the publish: there are no publisher confirms, it is the     *)
(* wait for the close of the channel that makes this true.  400 and 502    *)
(* mean that it never will, so a client that retries makes no duplicate.   *)
KeepsPromise == Promise!Spec

-----------------------------------------------------------------------------
(* The inductive invariant behind ChannelsReleased and KeepsPromise *)

ChannelInv == IsFiniteSet(Holders) /\ ChannelsReleased

(* A frame is on the wire of the open connection only, its handler waits   *)
(* in Close, and RabbitMQ has not routed it before.                        *)
WireInv ==
  \A e \in wire : conn = "open" /\ pc[e] = "closing" /\ e \notin routed

(* What has become of a submission by the step its handler is at: nothing  *)
(* before its frame is written; in Close, the frame is on the wire or      *)
(* routed, or the connection broke under it.  And what its answer says.    *)
CallInv ==
  \A e \in Events :
    /\ pc[e] # "done" => answer[e] = 0
    /\ answer[e] = 202 => e \in routed \cup cut
    /\ answer[e] \in {400, 502} => e \notin routed
    /\ pc[e] \notin {"closing", "done"} => e \notin routed
    /\ pc[e] = "closing" => e \in wire \cup routed \cup cut
    /\ pc[e] \in {"publish", "closing"} => conn = "open" \/ e \in cut

IInv == TypeOK /\ ChannelInv /\ WireInv /\ CallInv
=============================================================================
