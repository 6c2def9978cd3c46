------------------------ MODULE EventPipelineProofs ------------------------
(***************************************************************************)
(* Machine-checked proofs about EventPipeline, for any events that the     *)
(* broker can publish and any number of faults: each half behaves in the   *)
(* composition as it does alone, so that what EventEmitterProofs and       *)
(* EventConsumerProofs establish of it holds here, and what an answer of   *)
(* the broker says about MongoDB follows.                                  *)
(***************************************************************************)
EXTENDS EventPipeline, TLAPS

PublisherFacts == INSTANCE EventEmitterProofs
ConsumerFacts  == INSTANCE EventConsumerProofs

USE MarshalAssumption, InvalidAssumption, NoneAssumption, KindAssumption,
    BoundsAssumption

-----------------------------------------------------------------------------
(* The two halves *)

(* In the pipeline, the broker's handlers, their channels and the exchange *)
(* do nothing that they could not do alone.                                *)
THEOREM PublisherAsAlone == Spec => Publisher!Spec
<1>1. Init => Publisher!Init
  BY DEF Init
<1>2. [Next]_vars => [Publisher!Next]_(Publisher!vars)
  BY DEF Next, vars, publisherVars, RouteAndArrive, Publisher!Next, Publisher!vars
<1> QED BY <1>1, <1>2, PTL DEF Spec, Publisher!Spec

(* The listener, the logger and MongoDB behave as EventConsumer says,      *)
(* which lets an event arrive at any moment.                               *)
THEOREM ConsumerAsAlone == Spec => Consumer!Spec
<1>1. Init => Consumer!Init
  BY DEF Init
<1>2. [Next]_vars => [Consumer!Next]_(Consumer!vars)
  BY DEF Next, vars, consumerVars, RouteAndArrive, Consumer!Next, Consumer!vars,
         Consumer!brokerVars, Consumer!listenerVars, Consumer!loggerVars,
         Consumer!faultVars
<1> QED BY <1>1, <1>2, PTL DEF Spec, Consumer!Spec

(* The instances of EventPipeline and those that carry the theorems are of *)
(* the same definitions.                                                   *)
LEMMA PublisherIsOne == Publisher!Spec => PublisherFacts!Spec
<1>1. Publisher!Init => PublisherFacts!Init
  BY DEF Publisher!Init, PublisherFacts!Init
<1>2. Publisher!Next => PublisherFacts!Next
  BY DEF Publisher!Goto, PublisherFacts!Goto,
         Publisher!Reply, PublisherFacts!Reply,
         Publisher!Submit, PublisherFacts!Submit,
         Publisher!OpenChannel, PublisherFacts!OpenChannel,
         Publisher!DeclareExchange, PublisherFacts!DeclareExchange,
         Publisher!Publish, PublisherFacts!Publish,
         Publisher!CloseChannel, PublisherFacts!CloseChannel,
         Publisher!Route, PublisherFacts!Route,
         Publisher!BrokerFault, PublisherFacts!BrokerFault,
         Publisher!Break, PublisherFacts!Break,
         Publisher!Notice, PublisherFacts!Notice,
         Publisher!Restart, PublisherFacts!Restart,
         Publisher!Handler, PublisherFacts!Handler,
         Publisher!Internal, PublisherFacts!Internal,
         Publisher!Next, PublisherFacts!Next
<1>3. [Publisher!Next]_(Publisher!vars) => [PublisherFacts!Next]_(PublisherFacts!vars)
  BY <1>2 DEF Publisher!vars, PublisherFacts!vars
<1> QED BY <1>1, <1>3, PTL DEF Publisher!Spec, PublisherFacts!Spec

LEMMA ConsumerInternalIsOne == Consumer!Internal => ConsumerFacts!Internal
<1> USE DEF
      Consumer!brokerVars, ConsumerFacts!brokerVars,
      Consumer!listenerVars, ConsumerFacts!listenerVars,
      Consumer!loggerVars, ConsumerFacts!loggerVars,
      Consumer!faultVars, ConsumerFacts!faultVars
<1>1. Consumer!StartUp => ConsumerFacts!StartUp
  BY DEF Consumer!Connect, ConsumerFacts!Connect,
         Consumer!StartStep, ConsumerFacts!StartStep,
         Consumer!DeclareQueue, ConsumerFacts!DeclareQueue,
         Consumer!BindQueue, ConsumerFacts!BindQueue,
         Consumer!Consume, ConsumerFacts!Consume,
         Consumer!StartUp, ConsumerFacts!StartUp
<1>2. \A e \in Events : Consumer!Handle(e) => ConsumerFacts!Handle(e)
  BY DEF Consumer!Handling, ConsumerFacts!Handling,
         Consumer!Settled, ConsumerFacts!Settled,
         Consumer!Requeued, ConsumerFacts!Requeued,
         Consumer!Idle, ConsumerFacts!Idle,
         Consumer!RejectMalformed, ConsumerFacts!RejectMalformed,
         Consumer!AckAuth, ConsumerFacts!AckAuth,
         Consumer!Post, ConsumerFacts!Post,
         Consumer!PostSucceeds, ConsumerFacts!PostSucceeds,
         Consumer!PostFails, ConsumerFacts!PostFails,
         Consumer!Handle, ConsumerFacts!Handle
<1>3. /\ Consumer!Deliver => ConsumerFacts!Deliver
      /\ Consumer!BackoffEnds => ConsumerFacts!BackoffEnds
      /\ \A e \in Events : Consumer!Unanswered(e) => ConsumerFacts!Unanswered(e)
  BY DEF Consumer!Prefetch, ConsumerFacts!Prefetch,
         Consumer!Deliver, ConsumerFacts!Deliver,
         Consumer!BackoffEnds, ConsumerFacts!BackoffEnds,
         Consumer!Unanswered, ConsumerFacts!Unanswered
<1>4. /\ Consumer!ShutDown => ConsumerFacts!ShutDown
      /\ Consumer!ExitClosed => ConsumerFacts!ExitClosed
      /\ Consumer!Terminate => ConsumerFacts!Terminate
      /\ Consumer!LinkLost => ConsumerFacts!LinkLost
      /\ Consumer!Crash => ConsumerFacts!Crash
  BY DEF Consumer!QueueDeleted, ConsumerFacts!QueueDeleted,
         Consumer!Idle, ConsumerFacts!Idle,
         Consumer!ProcessGone, ConsumerFacts!ProcessGone,
         Consumer!ListenerFault, ConsumerFacts!ListenerFault,
         Consumer!ShutDown, ConsumerFacts!ShutDown,
         Consumer!ExitClosed, ConsumerFacts!ExitClosed,
         Consumer!Terminate, ConsumerFacts!Terminate,
         Consumer!LinkLost, ConsumerFacts!LinkLost,
         Consumer!Crash, ConsumerFacts!Crash
<1>5. /\ \A e \in Events : Consumer!WriteLog(e) => ConsumerFacts!WriteLog(e)
      /\ \A e \in Events : Consumer!InsertFails(e) => ConsumerFacts!InsertFails(e)
      /\ \A e \in Events : Consumer!OrphanEnds(e) => ConsumerFacts!OrphanEnds(e)
      /\ Consumer!LoggerStop => ConsumerFacts!LoggerStop
      /\ Consumer!LoggerStart => ConsumerFacts!LoggerStart
  BY DEF Consumer!LoggerFault, ConsumerFacts!LoggerFault,
         Consumer!WriteLog, ConsumerFacts!WriteLog,
         Consumer!InsertFails, ConsumerFacts!InsertFails,
         Consumer!OrphanEnds, ConsumerFacts!OrphanEnds,
         Consumer!LoggerStop, ConsumerFacts!LoggerStop,
         Consumer!LoggerStart, ConsumerFacts!LoggerStart
<1> QED BY <1>1, <1>2, <1>3, <1>4, <1>5 DEF Consumer!Internal, ConsumerFacts!Internal

LEMMA ConsumerIsOne == Consumer!Spec => ConsumerFacts!Spec
<1>1. Consumer!Init => ConsumerFacts!Init
  BY DEF Consumer!Init, ConsumerFacts!Init
<1>2. \A e \in Events : Consumer!Arrive(e) => ConsumerFacts!Arrive(e)
  BY DEF Consumer!Routable, ConsumerFacts!Routable,
         Consumer!Arrive, ConsumerFacts!Arrive,
         Consumer!listenerVars, ConsumerFacts!listenerVars,
         Consumer!loggerVars, ConsumerFacts!loggerVars,
         Consumer!faultVars, ConsumerFacts!faultVars
<1>3. UNCHANGED Consumer!vars => UNCHANGED ConsumerFacts!vars
  BY DEF Consumer!vars, ConsumerFacts!vars,
         Consumer!brokerVars, ConsumerFacts!brokerVars,
         Consumer!listenerVars, ConsumerFacts!listenerVars,
         Consumer!loggerVars, ConsumerFacts!loggerVars,
         Consumer!faultVars, ConsumerFacts!faultVars
<1>4. [Consumer!Next]_(Consumer!vars) => [ConsumerFacts!Next]_(ConsumerFacts!vars)
  BY <1>2, <1>3, ConsumerInternalIsOne DEF Consumer!Next, ConsumerFacts!Next
<1> QED BY <1>1, <1>4, PTL DEF Consumer!Spec, ConsumerFacts!Spec

(* The assumption of EventConsumer about its payloads, under the instance. *)
LEMMA KindsAreOne == Kind \in [Events -> ConsumerFacts!Kinds]
BY DEF ConsumerFacts!Kinds

-----------------------------------------------------------------------------
(* What has been routed has arrived *)

LEMMA RoutedInit == Init => RoutedInv
BY DEF Init, RoutedInv, Publisher!Init, Consumer!Init

(* Both sides of RoutedInv change in the joint step only, and then         *)
(* together.                                                               *)
LEMMA RoutedStep ==
  ASSUME RoutedInv, PublisherFacts!IInv, ConsumerFacts!IInv, [Next]_vars
  PROVE  RoutedInv'
<1>1. ASSUME NEW e \in Events, RouteAndArrive(e)
      PROVE  RoutedInv'
  <2>1. routed' = routed \cup {e}
    BY <1>1 DEF RouteAndArrive, Publisher!Route
  <2>2. \E end \in {"queued", "unroutable"} : outcome' = [outcome EXCEPT ![e] = end]
    BY <1>1 DEF RouteAndArrive, Consumer!Arrive
  <2>3. DOMAIN outcome = Events
    BY DEF ConsumerFacts!IInv, ConsumerFacts!TypeOK
  <2> QED BY <2>1, <2>2, <2>3 DEF RoutedInv
<1>2. CASE Publisher!Internal /\ UNCHANGED consumerVars
  <2>1. UNCHANGED routed
    BY <1>2
       DEF Publisher!Internal, Publisher!Handler, Publisher!Submit,
           Publisher!OpenChannel, Publisher!DeclareExchange, Publisher!Publish,
           Publisher!CloseChannel, Publisher!Break, Publisher!Notice,
           Publisher!Restart
  <2> QED BY <1>2, <2>1 DEF RoutedInv, consumerVars
<1>3. CASE Consumer!Internal /\ UNCHANGED publisherVars
  <2>1. \A e \in Events : outcome'[e] = "unpublished" <=> outcome[e] = "unpublished"
    BY <1>3, ConsumerInternalIsOne, KindsAreOne, ConsumerFacts!InternalPublishesNone
  <2> QED BY <1>3, <2>1 DEF RoutedInv, publisherVars
<1>4. CASE UNCHANGED vars
  BY <1>4 DEF vars, publisherVars, consumerVars, RoutedInv
<1> QED BY <1>1, <1>2, <1>3, <1>4 DEF Next

(* RabbitMQ hands what it has routed to the listener's queue, or to none,  *)
(* in the same step, and both halves keep their own invariants.            *)
THEOREM Invariance ==
  Spec => [](RoutedInv /\ PublisherFacts!IInv /\ ConsumerFacts!IInv)
<1>1. Spec => []PublisherFacts!IInv
  BY PublisherAsAlone, PublisherIsOne, PublisherFacts!Invariance, PTL
<1>2. Spec => []ConsumerFacts!IInv
  BY ConsumerAsAlone, ConsumerIsOne, KindsAreOne, ConsumerFacts!Invariance, PTL
<1>3. /\ RoutedInv /\ PublisherFacts!IInv /\ ConsumerFacts!IInv
      /\ [Next]_vars
      => RoutedInv'
  BY RoutedStep
<1> QED BY RoutedInit, <1>1, <1>2, <1>3, PTL DEF Spec

-----------------------------------------------------------------------------
(* What the broker's answer says about MongoDB *)

(* LogViaRabbit answers 400 or 502 only for an event that RabbitMQ never   *)
(* routes, so no retry of the listener and no handler of the logger that   *)
(* outlived its caller adds a document for it, then or later.              *)
THEOREM RefusedAreNeverLogged == Spec => []RefusedNeverLogged
<1>1. ASSUME RoutedInv, PublisherFacts!IInv, ConsumerFacts!IInv,
             NEW e \in Events, answer[e] \in {400, 502}
      PROVE  stored[e] + orphans[e] = 0
  <2>1. e \notin routed
    BY <1>1 DEF PublisherFacts!IInv, PublisherFacts!CallInv
  <2>2. e \notin posted
    BY <1>1, <2>1
       DEF RoutedInv, ConsumerFacts!IInv, ConsumerFacts!OrderInv, ConsumerFacts!PostedInv
  <2>3. ~(stored[e] > 0) /\ ~(orphans[e] > 0)
    BY <1>1, <2>2
       DEF ConsumerFacts!IInv, ConsumerFacts!OrderInv, ConsumerFacts!PostedInv
  <2>4. stored[e] \in Nat /\ orphans[e] \in Nat
    BY <1>1 DEF ConsumerFacts!IInv, ConsumerFacts!TypeOK
  <2> QED BY <2>3, <2>4
<1>2. RoutedInv /\ PublisherFacts!IInv /\ ConsumerFacts!IInv => RefusedNeverLogged
  BY <1>1 DEF RefusedNeverLogged
<1> QED BY <1>2, Invariance, PTL

(* What is left of "logged via RabbitMQ" when an accepted event is not in  *)
(* MongoDB: it is still queued, or one of the four losses that the code    *)
(* allows has met it, and nothing else.                                    *)
THEOREM AcceptedAreAccounted == Spec => []AcceptedIsAccounted
<1>1. ASSUME RoutedInv, PublisherFacts!IInv, ConsumerFacts!IInv,
             NEW e \in Events, answer[e] = 202, stored[e] = 0, e \notin cut
      PROVE  \/ outcome[e] \in {"queued", "unroutable", "lost"}
             \/ outcome[e] = "acked" /\ Kind[e] = "auth"
  <2>1. outcome[e] # "unpublished"
    BY <1>1 DEF RoutedInv, PublisherFacts!IInv, PublisherFacts!CallInv
  <2>2. outcome[e] # "rejected"
    BY <1>1 DEF ConsumerFacts!IInv, ConsumerFacts!OrderInv, ConsumerFacts!ArrivedInv
  <2>3. outcome[e] = "acked" => Kind[e] = "auth"
    BY <1>1 DEF ConsumerFacts!IInv, ConsumerFacts!LoggedBeforeAcked
  <2>4. outcome[e] \in {"unpublished", "queued", "acked", "rejected", "lost", "unroutable"}
    BY <1>1 DEF ConsumerFacts!IInv, ConsumerFacts!TypeOK, ConsumerFacts!Outcomes
  <2> QED BY <2>1, <2>2, <2>3, <2>4
<1>2. RoutedInv /\ PublisherFacts!IInv /\ ConsumerFacts!IInv => AcceptedIsAccounted
  BY <1>1 DEF AcceptedIsAccounted
<1> QED BY <1>2, Invariance, PTL
=============================================================================
