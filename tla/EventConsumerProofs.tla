------------------------ MODULE EventConsumerProofs ------------------------
(***************************************************************************)
(* Machine-checked proofs about EventConsumer, for every set of events,    *)
(* every kind they may be of and every fault budget.                       *)
(***************************************************************************)
EXTENDS EventConsumer, SequenceTheorems, TLAPS

USE NoneAssumption, KindAssumption, BoundsAssumption DEF Kinds

-----------------------------------------------------------------------------
(* Type correctness *)

(* Removing the delivery at hand, and what it leaves behind, keep types. *)
LEMMA HeadTail ==
  ASSUME NEW s \in Seq(Events), s # <<>>
  PROVE  /\ Head(s) \in Events /\ Head(s) = s[1]
         /\ Tail(s) \in Seq(Events) /\ Len(Tail(s)) = Len(s) - 1
         /\ \A i \in 1..Len(Tail(s)) : Tail(s)[i] = s[i + 1]
BY HeadTailProperties

LEMMA TypeInit == Init => TypeOK
<1> SUFFICES ASSUME Init PROVE TypeOK
  OBVIOUS
<1>1. queue \in Seq(Events) /\ inbox \in Seq(Events) /\ Len(inbox) =< 1
      /\ arrived \in Seq(Events)
  BY EmptySeq DEF Init
<1>2. loggerFaults \in 0..MaxLoggerFaults /\ listenerFaults \in 0..MaxListenerFaults
  BY DEF Init
<1> QED
  BY <1>1, <1>2 DEF Init, TypeOK, Stages, Attempts, Outcomes

(* Each part of a step the actions share, typed once. *)
LEMMA TypeQueueDeleted ==
  ASSUME TypeOK, QueueDeleted
  PROVE  /\ queue' \in Seq(Events) /\ inbox' \in Seq(Events) /\ Len(inbox') =< 1
         /\ link' \in BOOLEAN /\ arrived' \in Seq(Events)
         /\ outcome' \in [Events -> Outcomes]
<1>1. outcome' \in [Events -> Outcomes]
  <2>1. \A e \in Events : (IF outcome[e] = "queued" THEN "lost" ELSE outcome[e])
                             \in Outcomes
    BY DEF TypeOK, Outcomes
  <2> QED BY <2>1 DEF QueueDeleted
<1>2. queue' \in Seq(Events) /\ inbox' \in Seq(Events) /\ Len(inbox') =< 1
  BY EmptySeq DEF QueueDeleted
<1> QED BY <1>1, <1>2 DEF TypeOK, QueueDeleted

LEMMA TypeSettled ==
  ASSUME TypeOK, inbox # <<>>, NEW e \in Events,
         NEW how \in {"acked", "rejected", "lost"}, Settled(e, how)
  PROVE  /\ queue' \in Seq(Events) /\ inbox' \in Seq(Events) /\ Len(inbox') =< 1
         /\ link' \in BOOLEAN /\ arrived' \in Seq(Events)
         /\ outcome' \in [Events -> Outcomes]
BY HeadTail DEF TypeOK, Settled, Outcomes

LEMMA TypeRequeued ==
  ASSUME TypeOK, inbox # <<>>, NEW e \in Events, Requeued(e)
  PROVE  /\ queue' \in Seq(Events) /\ inbox' \in Seq(Events) /\ Len(inbox') =< 1
         /\ link' \in BOOLEAN /\ arrived' \in Seq(Events)
         /\ outcome' \in [Events -> Outcomes]
<1>1. <<e>> \in Seq(Events)
  OBVIOUS
<1>2. queue' \in Seq(Events)
  BY <1>1, ConcatProperties DEF TypeOK, Requeued
<1>3. inbox' \in Seq(Events) /\ Len(inbox') =< 1
  BY HeadTail DEF TypeOK, Requeued
<1> QED BY <1>2, <1>3 DEF TypeOK, Requeued

(* Counters of events go up and down within Nat. *)
LEMMA Counter ==
  ASSUME NEW f \in [Events -> Nat], NEW e \in Events
  PROVE  /\ [f EXCEPT ![e] = @ + 1] \in [Events -> Nat]
         /\ f[e] > 0 => [f EXCEPT ![e] = @ - 1] \in [Events -> Nat]
OBVIOUS

LEMMA TypeStep ==
  ASSUME TypeOK, AttemptInv, [Next]_vars
  PROVE  TypeOK'
<1> USE DEF TypeOK, vars, brokerVars, listenerVars, loggerVars, faultVars
<1>1. ASSUME NEW e \in Events, Arrive(e) PROVE TypeOK'
  <2>1. Append(queue, e) \in Seq(Events) /\ Append(arrived, e) \in Seq(Events)
    BY AppendProperties
  <2>2. /\ [outcome EXCEPT ![e] = "queued"] \in [Events -> Outcomes]
        /\ [outcome EXCEPT ![e] = "unroutable"] \in [Events -> Outcomes]
    BY DEF Outcomes
  <2>3. CASE Routable
    BY <1>1, <2>1, <2>2, <2>3 DEF Arrive
  <2>4. CASE ~Routable
    BY <1>1, <2>2, <2>4 DEF Arrive
  <2> QED BY <2>3, <2>4
<1>2. CASE StartUp
  BY <1>2 DEF StartUp, Connect, DeclareQueue, BindQueue, Consume, StartStep, Stages
<1>3. CASE Deliver
  <2>1. queue' \in Seq(Events) /\ inbox' \in Seq(Events)
    BY <1>3, HeadTail, AppendProperties DEF Deliver
  <2>2. Len(inbox') =< 1
    BY <1>3, HeadTail, AppendProperties, LenProperties DEF Deliver, Prefetch
  <2> QED BY <1>3, <2>1, <2>2 DEF Deliver
<1>4. ASSUME NEW e \in Events, RejectMalformed(e) PROVE TypeOK'
  BY <1>4, TypeSettled DEF RejectMalformed, Handling
<1>5. ASSUME NEW e \in Events, AckAuth(e) PROVE TypeOK'
  BY <1>5, TypeSettled DEF AckAuth, Handling
<1>6. ASSUME NEW e \in Events, Post(e) PROVE TypeOK'
  BY <1>6 DEF Post, Stages, Attempts
<1>7. ASSUME NEW e \in Events, PostSucceeds(e) PROVE TypeOK'
  <2>1. CASE link
    BY <1>7, <2>1, TypeSettled DEF PostSucceeds, Idle, Stages, Attempts, AttemptInv
  <2>2. CASE ~link
    BY <1>7, <2>2 DEF PostSucceeds, Idle, Stages, Attempts
  <2> QED BY <2>1, <2>2
<1>8. ASSUME NEW e \in Events, PostFails(e) PROVE TypeOK'
  <2>1. CASE link
    BY <1>8, <2>1, TypeRequeued DEF PostFails, Idle, Stages, Attempts, AttemptInv
  <2>2. CASE ~link
    BY <1>8, <2>2 DEF PostFails, Idle, Stages, Attempts
  <2> QED BY <2>1, <2>2
<1>9. ASSUME NEW e \in Events, Unanswered(e) PROVE TypeOK'
  <2>1. unsure' \in [Events -> Nat] /\ orphans' \in [Events -> Nat]
    BY <1>9, Counter DEF Unanswered
  <2>2. loggerFaults' \in 0..MaxLoggerFaults /\ listenerFaults' \in 0..MaxListenerFaults
    BY <1>9 DEF Unanswered
  <2> QED BY <1>9, <2>1, <2>2 DEF Unanswered, Attempts
<1>10. CASE BackoffEnds
  BY <1>10 DEF BackoffEnds, Stages
<1>11. CASE ShutDown \/ ExitClosed
  BY <1>11, TypeQueueDeleted DEF ShutDown, ExitClosed, ProcessGone, Idle, Stages, Attempts
<1>12. CASE Terminate
  BY <1>12 DEF Terminate, ListenerFault
<1>13. CASE LinkLost
  BY <1>13, TypeQueueDeleted DEF LinkLost, ListenerFault
<1>14. CASE Crash
  <2>1. orphans' \in [Events -> Nat]
    BY <1>14 DEF Crash
  <2>2. loggerFaults' \in 0..MaxLoggerFaults /\ listenerFaults' \in 0..MaxListenerFaults
    BY <1>14 DEF Crash, ListenerFault
  <2> QED
    BY <1>14, <2>1, <2>2, TypeQueueDeleted
       DEF Crash, ProcessGone, Idle, Stages, Attempts
<1>15. ASSUME NEW e \in Events, WriteLog(e) PROVE TypeOK'
  BY <1>15 DEF WriteLog, Attempts
<1>16. ASSUME NEW e \in Events, InsertFails(e) PROVE TypeOK'
  BY <1>16 DEF InsertFails, LoggerFault, Attempts
<1>17. ASSUME NEW e \in Events, OrphanEnds(e) PROVE TypeOK'
  <2>1. orphans' \in [Events -> Nat] /\ stored' \in [Events -> Nat]
    BY <1>17, Counter DEF OrphanEnds
  <2> QED BY <1>17, <2>1 DEF OrphanEnds
<1>18. CASE LoggerStop \/ LoggerStart
  <2>1. loggerFaults' \in 0..MaxLoggerFaults /\ listenerFaults' \in 0..MaxListenerFaults
    BY <1>18 DEF LoggerStop, LoggerStart, LoggerFault
  <2> QED BY <1>18, <2>1 DEF LoggerStop, LoggerStart
<1>19. CASE UNCHANGED vars
  BY <1>19
<1> QED
  BY <1>1, <1>2, <1>3, <1>4, <1>5, <1>6, <1>7, <1>8, <1>9, <1>10, <1>11, <1>12,
     <1>13, <1>14, <1>15, <1>16, <1>17, <1>18, <1>19 DEF Next, Internal, Handle

-----------------------------------------------------------------------------
(* The POST under way *)

LEMMA AttemptStep ==
  ASSUME TypeOK, AttemptInv, QueueInv, [Next]_vars
  PROVE  AttemptInv'
<1> USE DEF TypeOK, AttemptInv, vars, brokerVars, listenerVars, loggerVars, faultVars
(* Arrivals and deliveries leave the front of a non-empty inbox alone. *)
<1>1. ASSUME NEW e \in Events, Arrive(e) PROVE AttemptInv'
  <2>1. link' = link /\ inbox' = inbox
    BY <1>1 DEF Arrive
  <2>2. ASSUME stage = "posting", ~link PROVE outcome'[current] = "lost"
    BY <1>1, <2>2 DEF Arrive
  <2> QED BY <1>1, <2>1, <2>2 DEF Arrive
<1>2. CASE StartUp
  BY <1>2 DEF StartUp, Connect, DeclareQueue, BindQueue, Consume, StartStep
<1>3. CASE Deliver
  <2>1. ASSUME inbox # <<>> PROVE FALSE
    BY <1>3, <2>1, LenProperties, EmptySeq DEF Deliver, Prefetch
  <2> QED BY <1>3, <2>1 DEF Deliver
<1>4. ASSUME NEW e \in Events, RejectMalformed(e) \/ AckAuth(e) PROVE AttemptInv'
  BY <1>4 DEF RejectMalformed, AckAuth, Handling
<1>5. ASSUME NEW e \in Events, Post(e) PROVE AttemptInv'
  BY <1>5 DEF Post, Handling, QueueInv
<1>6. ASSUME NEW e \in Events, PostSucceeds(e) \/ PostFails(e) PROVE AttemptInv'
  BY <1>6 DEF PostSucceeds, PostFails, Idle
<1>7. ASSUME NEW e \in Events, Unanswered(e) PROVE AttemptInv'
  BY <1>7 DEF Unanswered
<1>8. CASE BackoffEnds
  BY <1>8 DEF BackoffEnds
<1>9. CASE ShutDown \/ ExitClosed \/ Crash
  BY <1>9 DEF ShutDown, ExitClosed, Crash, ProcessGone, Idle
<1>10. CASE Terminate
  BY <1>10 DEF Terminate
(* The delivery being posted was the one in the inbox, hence queued. *)
<1>11. CASE LinkLost
  <2>1. ASSUME stage = "posting" PROVE outcome'[current] = "lost"
    <3>1. current \in Events /\ outcome[current] = "queued"
      BY <1>11, <2>1, HeadTail, LenProperties, EmptySeq DEF LinkLost, QueueInv
    <3> QED BY <1>11, <3>1 DEF LinkLost, QueueDeleted
  <2> QED BY <1>11, <2>1 DEF LinkLost, QueueDeleted
<1>12. ASSUME NEW e \in Events, WriteLog(e) PROVE AttemptInv'
  BY <1>12 DEF WriteLog
<1>13. ASSUME NEW e \in Events, InsertFails(e) PROVE AttemptInv'
  BY <1>13 DEF InsertFails
<1>14. ASSUME NEW e \in Events, OrphanEnds(e) PROVE AttemptInv'
  <2>1. ASSUME attempt = "stored" PROVE stored'[current] > 0
    <3>1. current \in Events /\ stored[current] > 0
      BY <2>1
    <3>2. CASE stored' = [stored EXCEPT ![e] = @ + 1]
      BY <3>1, <3>2
    <3> QED BY <1>14, <3>1, <3>2 DEF OrphanEnds
  <2> QED BY <1>14, <2>1 DEF OrphanEnds
<1>15. CASE LoggerStop \/ LoggerStart
  BY <1>15 DEF LoggerStop, LoggerStart
<1>16. CASE UNCHANGED vars
  BY <1>16
<1> QED
  BY <1>1, <1>2, <1>3, <1>4, <1>5, <1>6, <1>7, <1>8, <1>9, <1>10, <1>11, <1>12,
     <1>13, <1>14, <1>15, <1>16 DEF Next, Internal, Handle

-----------------------------------------------------------------------------
(* What RabbitMQ holds *)

LEMMA Elements ==
  ASSUME NEW s \in Seq(Events)
  PROVE  Len(s) \in Nat /\ \A i \in 1..Len(s) : s[i] \in Events
BY ElementOfSeq, LenProperties

LEMMA OneDelivery ==
  ASSUME TypeOK, inbox # <<>>
  PROVE  /\ Len(inbox) = 1 /\ Head(inbox) = inbox[1] /\ inbox[1] \in Events
         /\ Tail(inbox) = <<>>
<1>1. Len(inbox) = 1
  <2>1. inbox \in Seq(Events) /\ Len(inbox) =< 1
    BY DEF TypeOK
  <2>2. Len(inbox) \in Nat /\ Len(inbox) # 0
    BY <2>1, Elements
  <2>3. \A n \in Nat : n # 0 /\ n =< 1 => n = 1
    OBVIOUS
  <2> QED BY <2>1, <2>2, <2>3
<1>2. Head(inbox) = inbox[1] /\ inbox[1] \in Events
  BY HeadTail DEF TypeOK
<1>3. Tail(inbox) \in Seq(Events) /\ Len(Tail(inbox)) = 0
  BY <1>1, HeadTail DEF TypeOK
<1> QED BY <1>1, <1>2, <1>3, EmptySeq

(* A step that leaves RabbitMQ alone, and the process running, keeps       *)
(* QueueInv.                                                               *)
LEMMA QueueFrame ==
  ASSUME QueueInv, UNCHANGED brokerVars, stage' = "down" => stage = "down"
  PROVE  QueueInv'
BY DEF QueueInv, brokerVars

LEMMA QueueGone ==
  ASSUME QueueDeleted
  PROVE  QueueInv'
BY EmptySeq DEF QueueDeleted, QueueInv

(* With a prefetch of 1, the delivery settled is the only one. *)
LEMMA QueueSettled ==
  ASSUME TypeOK, QueueInv, inbox # <<>>, NEW how, Settled(inbox[1], how),
         stage' # "down"
  PROVE  QueueInv'
<1>1. Len(inbox) = 1 /\ inbox[1] \in Events /\ inbox' = <<>>
  BY OneDelivery DEF Settled
<1>2. link /\ link' = link /\ queue' = queue
  BY DEF QueueInv, Settled
<1>3. \A i \in 1..Len(queue) : queue[i] # inbox[1] /\ queue[i] \in Events
  <2>1. 1 \in 1..Len(inbox)
    BY <1>1
  <2> QED BY <2>1, Elements DEF QueueInv, TypeOK
<1>4. \A i \in 1..Len(queue') : outcome'[queue'[i]] = "queued"
  BY <1>2, <1>3 DEF QueueInv, Settled, TypeOK
<1> QED BY <1>1, <1>2, <1>4, EmptySeq DEF QueueInv

LEMMA QueueRequeued ==
  ASSUME TypeOK, QueueInv, inbox # <<>>, Requeued(inbox[1]), stage' # "down"
  PROVE  QueueInv'
<1>1. Len(inbox) = 1 /\ inbox[1] \in Events /\ inbox' = <<>>
  BY OneDelivery DEF Requeued
<1>2. link /\ link' = link /\ outcome' = outcome
  BY DEF QueueInv, Requeued
<1>3. /\ Len(queue') = Len(queue) + 1
      /\ \A i \in 1..Len(queue') :
           queue'[i] = IF i = 1 THEN inbox[1] ELSE queue[i - 1]
  <2>1. <<inbox[1]>> \in Seq(Events) /\ Len(<<inbox[1]>>) = 1
    BY <1>1
  <2> QED BY <2>1, ConcatProperties, LenProperties DEF Requeued, TypeOK
<1>4. Len(queue) \in Nat
  BY Elements DEF TypeOK
<1>5. \A i \in 1..Len(queue') : outcome'[queue'[i]] = "queued"
  BY <1>1, <1>2, <1>3, <1>4 DEF QueueInv
<1>6. \A i, j \in 1..Len(queue') : i # j => queue'[i] # queue'[j]
  <2>1. 1 \in 1..Len(inbox)
    BY <1>1
  <2>2. \A j \in 1..Len(queue) : queue[j] # inbox[1]
    BY <2>1 DEF QueueInv
  <2>3. \A i \in 1..Len(queue') : i = 1 \/ i - 1 \in 1..Len(queue)
    BY <1>3, <1>4
  <2> QED BY <1>3, <1>4, <2>2, <2>3 DEF QueueInv
<1> QED BY <1>1, <1>2, <1>5, <1>6, EmptySeq DEF QueueInv

LEMMA QueueArrive ==
  ASSUME TypeOK, QueueInv, NEW e \in Events, Arrive(e)
  PROVE  QueueInv'
<1>1. /\ \A i \in 1..Len(inbox) : inbox[i] # e /\ inbox[i] \in Events
      /\ \A i \in 1..Len(queue) : queue[i] # e /\ queue[i] \in Events
  BY Elements DEF QueueInv, Arrive, TypeOK
<1>2. CASE Routable
  <2>1. /\ Len(queue') = Len(queue) + 1 /\ Len(queue) \in Nat
        /\ \A i \in 1..Len(queue) : queue'[i] = queue[i]
        /\ queue'[Len(queue) + 1] = e
    <3>1. queue' = Append(queue, e)
      BY <1>2 DEF Arrive
    <3> QED BY <3>1, AppendProperties, Elements DEF TypeOK
  <2>2. \A i \in 1..Len(queue') : i \in 1..Len(queue) \/ i = Len(queue) + 1
    BY <2>1
  <2>3. outcome' = [outcome EXCEPT ![e] = "queued"] /\ inbox' = inbox /\ link'
        /\ stage' = stage /\ link
    BY <1>2 DEF Arrive, Routable, listenerVars
  <2>4. \A i \in 1..Len(queue') : outcome'[queue'[i]] = "queued"
    BY <1>1, <2>1, <2>2, <2>3 DEF QueueInv, TypeOK
  <2>5. \A i, j \in 1..Len(queue') : i # j => queue'[i] # queue'[j]
    BY <1>1, <2>1, <2>2 DEF QueueInv
  <2>6. \A i \in 1..Len(inbox'), j \in 1..Len(queue') : inbox'[i] # queue'[j]
    BY <1>1, <2>1, <2>2, <2>3 DEF QueueInv
  <2>7. \A i \in 1..Len(inbox') : outcome'[inbox'[i]] = "queued"
    BY <1>1, <2>3 DEF QueueInv, TypeOK
  <2> QED BY <2>3, <2>4, <2>5, <2>6, <2>7 DEF QueueInv
<1>3. CASE ~Routable
  <2>1. outcome' = [outcome EXCEPT ![e] = "unroutable"] /\ inbox' = inbox
        /\ queue' = queue /\ link' = link /\ stage' = stage
    BY <1>3 DEF Arrive, listenerVars
  <2>2. /\ \A i \in 1..Len(inbox) : outcome'[inbox[i]] = outcome[inbox[i]]
        /\ \A i \in 1..Len(queue) : outcome'[queue[i]] = outcome[queue[i]]
    BY <1>1, <2>1 DEF TypeOK
  <2> QED BY <2>1, <2>2 DEF QueueInv
<1> QED BY <1>2, <1>3

LEMMA QueueDeliver ==
  ASSUME TypeOK, QueueInv, Deliver
  PROVE  QueueInv'
<1>1. inbox = <<>> /\ Len(queue) \in Nat /\ Len(queue) > 0
  BY LenProperties, EmptySeq DEF Deliver, Prefetch, TypeOK
<1>2. inbox' = <<queue[1]>>
  BY <1>1, HeadTail DEF Deliver, TypeOK
<1>3. /\ Len(queue') = Len(queue) - 1
      /\ \A i \in 1..Len(queue') : queue'[i] = queue[i + 1]
  BY HeadTail DEF Deliver, TypeOK
<1>4. link' = link /\ link /\ outcome' = outcome /\ stage' = stage
  BY DEF Deliver, listenerVars
<1>5. Len(inbox') = 1 /\ inbox'[1] = queue[1]
  BY <1>2
<1>6. /\ \A i \in 1..Len(inbox') : outcome'[inbox'[i]] = "queued"
      /\ \A i \in 1..Len(queue') : outcome'[queue'[i]] = "queued"
  BY <1>1, <1>3, <1>4, <1>5 DEF QueueInv
<1>7. /\ \A i, j \in 1..Len(queue') : i # j => queue'[i] # queue'[j]
      /\ \A i \in 1..Len(inbox'), j \in 1..Len(queue') : inbox'[i] # queue'[j]
  BY <1>1, <1>3, <1>5 DEF QueueInv
<1> QED BY <1>4, <1>6, <1>7 DEF QueueInv

LEMMA QueueStep ==
  ASSUME TypeOK, AttemptInv, QueueInv, [Next]_vars
  PROVE  QueueInv'
<1> USE DEF vars, listenerVars, loggerVars, faultVars
<1>1. ASSUME NEW e \in Events, Arrive(e) PROVE QueueInv'
  BY <1>1, QueueArrive
<1>2. CASE Connect
  BY <1>2, EmptySeq DEF Connect, QueueInv
<1>3. CASE DeclareQueue \/ BindQueue \/ Consume
  BY <1>3, QueueFrame DEF DeclareQueue, BindQueue, Consume, StartStep
<1>4. CASE Deliver
  BY <1>4, QueueDeliver
<1>5. ASSUME NEW e \in Events, RejectMalformed(e) \/ AckAuth(e) PROVE QueueInv'
  BY <1>5, OneDelivery, QueueSettled DEF RejectMalformed, AckAuth, Handling
<1>6. ASSUME NEW e \in Events, Post(e) PROVE QueueInv'
  BY <1>6, QueueFrame DEF Post
<1>7. ASSUME NEW e \in Events, PostSucceeds(e) PROVE QueueInv'
  <2>1. CASE link
    BY <1>7, <2>1, OneDelivery, QueueSettled DEF PostSucceeds, AttemptInv
  <2>2. CASE ~link
    BY <1>7, <2>2, QueueFrame DEF PostSucceeds
  <2> QED BY <2>1, <2>2
<1>8. ASSUME NEW e \in Events, PostFails(e) PROVE QueueInv'
  <2>1. CASE link
    BY <1>8, <2>1, OneDelivery, QueueRequeued DEF PostFails, AttemptInv
  <2>2. CASE ~link
    BY <1>8, <2>2, QueueFrame DEF PostFails
  <2> QED BY <2>1, <2>2
<1>9. CASE ShutDown \/ ExitClosed \/ Crash \/ LinkLost
  BY <1>9, QueueGone DEF ShutDown, ExitClosed, Crash, ProcessGone, LinkLost
<1>10. ASSUME NEW e \in Events,
              Unanswered(e) \/ WriteLog(e) \/ InsertFails(e) \/ OrphanEnds(e)
       PROVE  QueueInv'
  BY <1>10, QueueFrame DEF Unanswered, WriteLog, InsertFails, OrphanEnds
<1>11. CASE BackoffEnds \/ Terminate \/ LoggerStop \/ LoggerStart
  BY <1>11, QueueFrame DEF BackoffEnds, Terminate, LoggerStop, LoggerStart
<1>12. CASE UNCHANGED vars
  BY <1>12, QueueFrame
<1> QED
  BY <1>1, <1>2, <1>3, <1>4, <1>5, <1>6, <1>7, <1>8, <1>9, <1>10, <1>11, <1>12
     DEF Next, Internal, StartUp, Handle

-----------------------------------------------------------------------------
(* Acknowledged means logged *)

(* Documents are never removed. *)
LEMMA StoredGrows ==
  ASSUME TypeOK, [Next]_vars, NEW f \in Events
  PROVE  stored[f] > 0 => stored'[f] > 0
<1>1. CASE UNCHANGED stored
  BY <1>1
<1>2. ASSUME NEW e \in Events, stored' = [stored EXCEPT ![e] = @ + 1]
      PROVE  stored[f] > 0 => stored'[f] > 0
  BY <1>2 DEF TypeOK
<1>3. \/ UNCHANGED stored
      \/ \E e \in Events : stored' = [stored EXCEPT ![e] = @ + 1]
  BY DEF Next, Internal, Handle, StartUp, Arrive, Connect, DeclareQueue, BindQueue,
     Consume, StartStep, Deliver, RejectMalformed, AckAuth, Post, PostSucceeds,
     PostFails, Unanswered, BackoffEnds, ShutDown, ExitClosed, Terminate, LinkLost,
     Crash, ProcessGone, WriteLog, InsertFails, OrphanEnds, LoggerStop,
     LoggerStart, vars, loggerVars
<1> QED BY <1>1, <1>2, <1>3

(* Only two steps acknowledge: for the name "auth", and after a 202. *)
LEMMA Acknowledging ==
  ASSUME TypeOK, AttemptInv, [Next]_vars, NEW f \in Events,
         outcome'[f] = "acked", outcome[f] # "acked"
  PROVE  Kind[f] = "auth" \/ stored[f] > 0
<1> USE DEF TypeOK, vars, brokerVars
<1>1. ASSUME NEW e \in Events, Arrive(e) PROVE FALSE
  BY <1>1 DEF Arrive
<1>2. CASE QueueDeleted
  BY <1>2 DEF QueueDeleted
<1>3. ASSUME NEW e \in Events, RejectMalformed(e) PROVE FALSE
  BY <1>3 DEF RejectMalformed, Settled
<1>4. ASSUME NEW e \in Events, AckAuth(e) PROVE Kind[f] = "auth"
  BY <1>4 DEF AckAuth, Settled
<1>5. ASSUME NEW e \in Events, PostSucceeds(e) PROVE stored[f] > 0
  BY <1>5 DEF PostSucceeds, Settled, AttemptInv
<1>6. ASSUME NEW e \in Events, PostFails(e) PROVE FALSE
  BY <1>6 DEF PostFails, Requeued
<1>7. CASE UNCHANGED outcome
  BY <1>7
<1>8. \/ QueueDeleted \/ UNCHANGED outcome
      \/ \E e \in Events : \/ Arrive(e) \/ RejectMalformed(e) \/ AckAuth(e)
                           \/ PostSucceeds(e) \/ PostFails(e)
  BY DEF Next, Internal, Handle, StartUp, Connect, DeclareQueue, BindQueue,
     Consume, StartStep, Deliver, Post, Unanswered, BackoffEnds, ShutDown,
     ExitClosed, Terminate, LinkLost, Crash, ProcessGone, WriteLog, InsertFails,
     OrphanEnds, LoggerStop, LoggerStart
<1> QED BY <1>1, <1>2, <1>3, <1>4, <1>5, <1>6, <1>7, <1>8

LEMMA LoggedStep ==
  ASSUME TypeOK, AttemptInv, LoggedBeforeAcked, [Next]_vars
  PROVE  LoggedBeforeAcked'
<1> SUFFICES ASSUME NEW f \in Events, outcome'[f] = "acked"
             PROVE  Kind[f] = "auth" \/ stored'[f] > 0
  BY DEF LoggedBeforeAcked
<1>1. Kind[f] = "auth" \/ stored[f] > 0
  BY Acknowledging DEF LoggedBeforeAcked
<1> QED BY <1>1, StoredGrows

-----------------------------------------------------------------------------
(* No more documents than the requests that ended unsure account for *)

CopiesOf(f) ==
  stored[f] + orphans[f] =< unsure[f] + (IF Entitled(f) THEN 1 ELSE 0)

(* The delivery being posted is queued, or lost with the connection. *)
LEMMA PostedOutcome ==
  ASSUME TypeOK, AttemptInv, QueueInv, stage = "posting"
  PROVE  current \in Events /\ outcome[current] = IF link THEN "queued" ELSE "lost"
<1>1. current \in Events
  BY DEF TypeOK, AttemptInv
<1>2. CASE link
  <2>1. inbox # <<>> /\ Head(inbox) = current
    BY <1>2 DEF AttemptInv
  <2>2. 1 \in 1..Len(inbox) /\ inbox[1] = current
    BY <2>1, OneDelivery
  <2> QED BY <1>1, <1>2, <2>2 DEF QueueInv
<1> QED BY <1>1, <1>2 DEF AttemptInv

(* A step that writes nothing and takes no entitlement away. *)
LEMMA CopiesFrame ==
  ASSUME TypeOK, NEW f \in Events, CopiesOf(f),
         UNCHANGED <<stored, orphans, unsure>>, Entitled(f) => Entitled(f)'
  PROVE  CopiesOf(f)'
BY DEF CopiesOf, TypeOK

(* With its queue gone, an event is as good as answered. *)
LEMMA EntitledWhenGone ==
  ASSUME TypeOK, AttemptInv, QueueInv, QueueDeleted, current' = None,
         NEW f \in Events, Entitled(f) \/ current = f
  PROVE  Entitled(f)'
<1>1. current = f => outcome[f] \in {"queued", "lost"}
  BY PostedOutcome DEF AttemptInv, TypeOK
<1>2. outcome[f] \in {"queued", "lost", "acked"}
  BY <1>1 DEF Entitled
<1>3. outcome'[f] \in {"lost", "acked"}
  BY <1>2 DEF QueueDeleted
<1> QED BY <1>3 DEF Entitled

LEMMA CopiesStep ==
  ASSUME TypeOK, AttemptInv, QueueInv, CopiesInv, [Next]_vars
  PROVE  CopiesInv'
<1> SUFFICES ASSUME NEW f \in Events PROVE CopiesOf(f)'
  BY DEF CopiesInv, CopiesOf
<1>0. CopiesOf(f)
  BY DEF CopiesInv, CopiesOf
<1>c. /\ stored[f] \in Nat /\ orphans[f] \in Nat /\ unsure[f] \in Nat
      /\ (current = None) <=> (attempt = "none")
      /\ f # None
  BY DEF TypeOK, AttemptInv
<1> USE DEF vars, brokerVars, listenerVars, loggerVars, faultVars
<1>1. ASSUME NEW e \in Events, Arrive(e) PROVE CopiesOf(f)'
  <2>1. outcome[f] \in {"acked", "lost"} => outcome'[f] = outcome[f]
    BY <1>1 DEF Arrive, TypeOK
  <2> QED BY <1>0, <1>1, <2>1, CopiesFrame DEF Arrive, Entitled
<1>2. CASE StartUp
  BY <1>0, <1>2, CopiesFrame
     DEF StartUp, Connect, DeclareQueue, BindQueue, Consume, StartStep, Entitled
<1>3. CASE Deliver
  BY <1>0, <1>3, CopiesFrame DEF Deliver, Entitled
<1>4. ASSUME NEW e \in Events, RejectMalformed(e) \/ AckAuth(e) PROVE CopiesOf(f)'
  <2>1. outcome[e] = "queued"
    BY <1>4, OneDelivery DEF RejectMalformed, AckAuth, Handling, QueueInv
  <2>2. outcome[f] \in {"acked", "lost"} => outcome'[f] = outcome[f]
    BY <1>4, <2>1 DEF RejectMalformed, AckAuth, Settled, TypeOK
  <2> QED BY <1>0, <1>4, <2>2, CopiesFrame DEF RejectMalformed, AckAuth, Entitled
<1>5. ASSUME NEW e \in Events, Post(e) PROVE CopiesOf(f)'
  <2>1. outcome[e] = "queued" /\ current = None
    BY <1>5, OneDelivery DEF Post, Handling, QueueInv, AttemptInv
  <2> QED BY <1>0, <1>5, <1>c, <2>1, CopiesFrame DEF Post, Entitled
<1>6. ASSUME NEW e \in Events, PostSucceeds(e) PROVE CopiesOf(f)'
  <2>1. outcome'[e] \in {"acked", "lost"}
    BY <1>6, PostedOutcome DEF PostSucceeds, Settled, TypeOK
  <2>2. f # e => outcome'[f] = outcome[f]
    BY <1>6 DEF PostSucceeds, Settled, TypeOK
  <2> QED BY <1>0, <1>6, <1>c, <2>1, <2>2, CopiesFrame DEF PostSucceeds, Idle, Entitled
<1>7. ASSUME NEW e \in Events, PostFails(e) PROVE CopiesOf(f)'
  BY <1>0, <1>7, <1>c, CopiesFrame DEF PostFails, Requeued, Idle, Entitled
<1>8. ASSUME NEW e \in Events, Unanswered(e) PROVE CopiesOf(f)'
  <2>1. CASE f # e
    <3>1. UNCHANGED <<stored[f], orphans[f], unsure[f], outcome, current>>
      BY <1>8, <2>1 DEF Unanswered, TypeOK
    <3> QED BY <1>0, <1>8, <2>1, <3>1 DEF Unanswered, CopiesOf, Entitled
  <2>2. CASE f = e /\ attempt = "sent"
    <3>1. /\ stored'[f] = stored[f] /\ orphans'[f] = orphans[f] + 1
          /\ unsure'[f] = unsure[f] + 1
      BY <1>8, <2>2 DEF Unanswered, TypeOK
    <3>2. ~Entitled(f) /\ ~Entitled(f)'
      BY <1>8, <2>2 DEF Unanswered, Entitled
    <3> QED BY <1>0, <1>c, <3>1, <3>2 DEF CopiesOf
  <2>3. CASE f = e /\ attempt = "stored"
    <3>1. /\ stored'[f] = stored[f] /\ orphans'[f] = orphans[f]
          /\ unsure'[f] = unsure[f] + 1
      BY <1>8, <2>3 DEF Unanswered, TypeOK
    <3>2. ~Entitled(f)'
      BY <1>8, <2>3 DEF Unanswered, Entitled
    <3> QED BY <1>0, <1>c, <3>1, <3>2 DEF CopiesOf
  <2> QED BY <1>8, <2>1, <2>2, <2>3 DEF Unanswered
<1>9. CASE BackoffEnds \/ Terminate \/ LoggerStop \/ LoggerStart
  BY <1>0, <1>9, CopiesFrame
     DEF BackoffEnds, Terminate, LoggerStop, LoggerStart, Entitled
<1>10. CASE ShutDown \/ ExitClosed
  BY <1>0, <1>10, CopiesFrame, EntitledWhenGone
     DEF ShutDown, ExitClosed, ProcessGone, Idle
<1>11. CASE LinkLost
  <2>1. outcome[f] \in {"acked", "lost"} => outcome'[f] = outcome[f]
    BY <1>11 DEF LinkLost, QueueDeleted
  <2> QED BY <1>0, <1>11, <2>1, CopiesFrame DEF LinkLost, Entitled
<1>12. CASE Crash
  <2>1. CASE f = current /\ attempt = "sent"
    <3>1. /\ stored'[f] = stored[f] /\ orphans'[f] = orphans[f] + 1
          /\ unsure'[f] = unsure[f]
      BY <1>12, <2>1 DEF Crash, ProcessGone
    <3>2. ~Entitled(f) /\ Entitled(f)'
      BY <1>12, <2>1, EntitledWhenGone DEF Crash, ProcessGone, Idle, Entitled
    <3> QED BY <1>0, <1>c, <3>1, <3>2 DEF CopiesOf
  <2>2. CASE ~(f = current /\ attempt = "sent")
    <3>1. /\ stored'[f] = stored[f] /\ orphans'[f] = orphans[f]
          /\ unsure'[f] = unsure[f]
      BY <1>12, <2>2 DEF Crash, ProcessGone
    <3>2. Entitled(f) => Entitled(f)'
      BY <1>12, EntitledWhenGone DEF Crash, ProcessGone, Idle
    <3> QED BY <1>0, <1>c, <3>1, <3>2 DEF CopiesOf
  <2> QED BY <2>1, <2>2
<1>13. ASSUME NEW e \in Events, WriteLog(e) PROVE CopiesOf(f)'
  <2>1. CASE f # e \/ Kind[e] = "failing"
    <3>1. stored'[f] = stored[f] /\ UNCHANGED <<orphans, unsure, outcome, current>>
      BY <1>13, <2>1 DEF WriteLog, TypeOK
    <3>2. Entitled(f) => Entitled(f)'
      BY <1>13, <3>1 DEF WriteLog, Entitled
    <3> QED BY <1>0, <1>c, <3>1, <3>2 DEF CopiesOf
  <2>2. CASE f = e /\ Kind[e] # "failing"
    <3>1. stored'[f] = stored[f] + 1 /\ orphans'[f] = orphans[f] /\ unsure'[f] = unsure[f]
      BY <1>13, <2>2 DEF WriteLog, TypeOK
    <3>2. ~Entitled(f) /\ Entitled(f)'
      BY <1>13, <2>2 DEF WriteLog, Entitled
    <3> QED BY <1>0, <1>c, <3>1, <3>2 DEF CopiesOf
  <2> QED BY <2>1, <2>2
<1>14. ASSUME NEW e \in Events, InsertFails(e) PROVE CopiesOf(f)'
  <2>1. CASE f # e
    <3>1. UNCHANGED <<stored[f], orphans[f], unsure[f], outcome, current>>
      BY <1>14, <2>1 DEF InsertFails, TypeOK
    <3> QED BY <1>0, <1>14, <2>1, <3>1 DEF InsertFails, CopiesOf, Entitled
  <2>2. CASE f = e
    <3>1. /\ stored'[f] = stored[f] /\ orphans'[f] = orphans[f] + 1
          /\ unsure'[f] = unsure[f] + 1
      BY <1>14, <2>2 DEF InsertFails, TypeOK
    <3>2. ~Entitled(f) /\ ~Entitled(f)'
      BY <1>14, <2>2 DEF InsertFails, Entitled
    <3> QED BY <1>0, <1>c, <3>1, <3>2 DEF CopiesOf
  <2> QED BY <2>1, <2>2
<1>15. ASSUME NEW e \in Events, OrphanEnds(e) PROVE CopiesOf(f)'
  <2>1. UNCHANGED <<unsure, outcome, current, attempt>>
    BY <1>15 DEF OrphanEnds
  <2>2. stored'[f] + orphans'[f] =< stored[f] + orphans[f]
    <3>1. CASE f # e
      BY <1>15, <3>1 DEF OrphanEnds, TypeOK
    <3>2. CASE f = e
      <4>1. orphans'[f] = orphans[f] - 1
        BY <1>15, <3>2 DEF OrphanEnds, TypeOK
      <4>2. stored'[f] = stored[f] \/ stored'[f] = stored[f] + 1
        BY <1>15, <3>2 DEF OrphanEnds, TypeOK
      <4> QED BY <4>1, <4>2, <1>c
    <3> QED BY <3>1, <3>2
  <2>3. stored'[f] \in Nat /\ orphans'[f] \in Nat
    BY TypeStep DEF TypeOK
  <2>4. Entitled(f) <=> Entitled(f)'
    BY <2>1 DEF Entitled
  <2> QED BY <1>0, <1>c, <2>1, <2>2, <2>3, <2>4 DEF CopiesOf
<1>16. CASE UNCHANGED vars
  BY <1>0, <1>16, CopiesFrame DEF Entitled
<1> QED
  BY <1>1, <1>2, <1>3, <1>4, <1>5, <1>6, <1>7, <1>8, <1>9, <1>10, <1>11, <1>12,
     <1>13, <1>14, <1>15, <1>16 DEF Next, Internal, Handle

-----------------------------------------------------------------------------
(* The line of pending events *)

LEMMA Line ==
  ASSUME TypeOK
  PROVE  /\ Pending \in Seq(Events) /\ Len(Pending) \in Nat
         /\ \A i \in 1..Len(Pending) : Pending[i] \in Events
         /\ inbox = <<>> => Pending = queue
<1>1. Pending \in Seq(Events)
  BY ConcatProperties DEF Pending, TypeOK
<1>2. inbox = <<>> => Pending = queue
  BY ConcatEmptySeq DEF Pending, TypeOK
<1> QED BY <1>1, <1>2, Elements

(* The delivery at hand is the first in line, the queue is what follows. *)
LEMMA FirstInLine ==
  ASSUME TypeOK, inbox # <<>>
  PROVE  /\ Pending # <<>> /\ 1 \in 1..Len(Pending)
         /\ Head(Pending) = inbox[1] /\ Pending[1] = inbox[1]
         /\ Pending = <<inbox[1]>> \o queue /\ Tail(Pending) = queue
<1>1. /\ Len(inbox) = 1 /\ inbox[1] \in Events
      /\ inbox \in Seq(Events) /\ queue \in Seq(Events)
  BY OneDelivery DEF TypeOK
<1>2. inbox = <<inbox[1]>>
  <2>1. <<inbox[1]>> \in Seq(Events) /\ Len(<<inbox[1]>>) = 1
    BY <1>1
  <2>2. \A i \in 1..Len(inbox) : inbox[i] = <<inbox[1]>>[i]
    BY <1>1
  <2> QED BY <1>1, <2>1, <2>2, SeqEqual
<1>3. /\ Len(Pending) = 1 + Len(queue) /\ Len(queue) \in Nat
      /\ Pending[1] = inbox[1]
      /\ \A i \in 1..Len(queue) : Pending[i + 1] = queue[i]
  <2>1. /\ Len(inbox \o queue) = 1 + Len(queue)
        /\ \A i \in 1..(1 + Len(queue)) :
             (inbox \o queue)[i] = IF i =< 1 THEN inbox[i] ELSE queue[i - 1]
    <3>1. /\ Len(inbox \o queue) = Len(inbox) + Len(queue)
          /\ \A i \in 1..(Len(inbox) + Len(queue)) : (inbox \o queue)[i] =
                IF i =< Len(inbox) THEN inbox[i] ELSE queue[i - Len(inbox)]
      BY <1>1, ConcatProperties
    <3> QED BY <1>1, <3>1
  <2>2. Len(queue) \in Nat
    BY <1>1, Elements
  <2> QED BY <1>1, <2>1, <2>2 DEF Pending
<1>4. Pending # <<>> /\ Pending \in Seq(Events)
  BY <1>3, Line, EmptySeq
<1>5. Head(Pending) = Pending[1] /\ 1 \in 1..Len(Pending)
  BY <1>3, <1>4, HeadTail
<1>6. Tail(Pending) = queue
  <2>1. /\ Tail(Pending) \in Seq(Events) /\ Len(Tail(Pending)) = Len(queue)
        /\ \A i \in 1..Len(queue) : Tail(Pending)[i] = queue[i]
    BY <1>3, <1>4, HeadTail
  <2> QED BY <1>1, <2>1, SeqEqual
<1> QED BY <1>2, <1>3, <1>4, <1>5, <1>6 DEF Pending

(* What becomes of the line in a step: an event joins it, its first event  *)
(* is settled, it is lost, or it stays, while an event that finds no queue *)
(* passes by.                                                              *)
Joins(e) ==
  /\ outcome[e] = "unpublished" /\ outcome' = [outcome EXCEPT ![e] = "queued"]
  /\ Pending' = Append(Pending, e) /\ arrived' = Append(arrived, e)

Leaves(how) ==
  /\ Pending # <<>> /\ Pending' = Tail(Pending)
  /\ outcome' = [outcome EXCEPT ![Head(Pending)] = how]
  /\ how = "rejected" => Kind[Head(Pending)] = "malformed"
  /\ how = "acked" => Kind[Head(Pending)] = "auth" \/ stored[Head(Pending)] > 0
  /\ UNCHANGED arrived

Vanishes == QueueDeleted /\ Pending' = <<>>

Passes(e) ==
  /\ outcome[e] = "unpublished" /\ outcome' = [outcome EXCEPT ![e] = "unroutable"]
  /\ UNCHANGED <<Pending, arrived>>

Stays == UNCHANGED <<Pending, arrived, outcome>>

LEMMA LineArrive ==
  ASSUME TypeOK, NEW e \in Events, Arrive(e)
  PROVE  Joins(e) \/ Passes(e)
<1>1. CASE Routable
  <2>1. inbox \o Append(queue, e) = Append(inbox \o queue, e)
    <3>1. /\ inbox \in Seq(Events) /\ queue \in Seq(Events) /\ <<e>> \in Seq(Events)
          /\ inbox \o queue \in Seq(Events)
      BY ConcatProperties DEF TypeOK
    <3>2. /\ Append(queue, e) = queue \o <<e>>
          /\ Append(inbox \o queue, e) = (inbox \o queue) \o <<e>>
      BY <3>1, AppendIsConcat
    <3> QED BY <3>1, <3>2, ConcatAssociative
  <2> QED BY <1>1, <2>1 DEF Arrive, Joins, Pending
<1>2. CASE ~Routable
  BY <1>2 DEF Arrive, Passes, Pending
<1> QED BY <1>1, <1>2

LEMMA LineSettled ==
  ASSUME TypeOK, inbox # <<>>, NEW how, Settled(inbox[1], how),
         how = "rejected" => Kind[inbox[1]] = "malformed",
         how = "acked" => Kind[inbox[1]] = "auth" \/ stored[inbox[1]] > 0
  PROVE  Leaves(how)
<1>1. inbox' = <<>> /\ queue' = queue
  BY OneDelivery DEF Settled
<1>2. Pending' = queue
  BY <1>1, ConcatEmptySeq DEF Pending, TypeOK
<1> QED BY <1>2, FirstInLine DEF Settled, Leaves

LEMMA LineRequeued ==
  ASSUME TypeOK, inbox # <<>>, Requeued(inbox[1])
  PROVE  Stays
<1>1. /\ inbox' = <<>> /\ queue' = <<inbox[1]>> \o queue
      /\ UNCHANGED <<arrived, outcome>>
  BY OneDelivery DEF Requeued
<1>2. queue' = Pending
  BY <1>1, FirstInLine
<1>3. Pending' = queue'
  BY <1>1, <1>2, Line, ConcatEmptySeq DEF Pending
<1> QED BY <1>1, <1>2, <1>3 DEF Stays

LEMMA LineDeliver ==
  ASSUME TypeOK, Deliver
  PROVE  Stays
<1>1. inbox = <<>> /\ queue # <<>> /\ queue \in Seq(Events)
  BY LenProperties, EmptySeq DEF Deliver, Prefetch, TypeOK
<1>2. inbox' = <<queue[1]>> /\ queue' = Tail(queue)
  BY <1>1, HeadTail DEF Deliver
<1>3. <<queue[1]>> \o Tail(queue) = queue
  <2>1. /\ queue[1] \in Events /\ Tail(queue) \in Seq(Events)
        /\ Len(Tail(queue)) = Len(queue) - 1 /\ Len(queue) \in Nat
        /\ \A i \in 1..Len(Tail(queue)) : Tail(queue)[i] = queue[i + 1]
    BY <1>1, HeadTail, Elements
  <2>2. /\ <<queue[1]>> \in Seq(Events) /\ Len(<<queue[1]>>) = 1
        /\ <<queue[1]>>[1] = queue[1]
    BY <2>1
  <2>3. /\ <<queue[1]>> \o Tail(queue) \in Seq(Events)
        /\ Len(<<queue[1]>> \o Tail(queue)) = 1 + Len(Tail(queue))
        /\ \A i \in 1..(1 + Len(Tail(queue))) : (<<queue[1]>> \o Tail(queue))[i] =
              IF i =< 1 THEN <<queue[1]>>[i] ELSE Tail(queue)[i - 1]
    BY <2>1, <2>2, ConcatProperties
  <2>4. Len(<<queue[1]>> \o Tail(queue)) = Len(queue)
    BY <2>1, <2>3
  <2>5. ASSUME NEW i \in 1..Len(queue)
        PROVE  (<<queue[1]>> \o Tail(queue))[i] = queue[i]
    <3>1. i \in 1..(1 + Len(Tail(queue)))
      BY <2>1
    <3>2. CASE i = 1
      BY <2>2, <2>3, <3>1, <3>2
    <3>3. CASE i # 1
      <4>1. i - 1 \in 1..Len(Tail(queue)) /\ ~(i =< 1) /\ (i - 1) + 1 = i
        BY <2>1, <3>1, <3>3
      <4> QED BY <2>1, <2>3, <3>1, <4>1
    <3> QED BY <3>2, <3>3
  <2> QED BY <1>1, <2>3, <2>4, <2>5, SeqEqual
<1>4. Pending = queue
  BY <1>1, Line
<1> QED BY <1>2, <1>3, <1>4 DEF Stays, Pending, Deliver

LEMMA LineStep ==
  ASSUME TypeOK, AttemptInv, QueueInv, [Next]_vars
  PROVE  \/ \E e \in Events : Joins(e) \/ Passes(e)
         \/ \E how \in {"acked", "rejected"} : Leaves(how)
         \/ Vanishes
         \/ Stays
<1>1. ASSUME NEW e \in Events, Arrive(e) PROVE Joins(e) \/ Passes(e)
  BY <1>1, LineArrive
<1>2. ASSUME NEW e \in Events, RejectMalformed(e) PROVE Leaves("rejected")
  BY <1>2, OneDelivery, LineSettled DEF RejectMalformed, Handling
<1>3. ASSUME NEW e \in Events, AckAuth(e) PROVE Leaves("acked")
  BY <1>3, OneDelivery, LineSettled DEF AckAuth, Handling
<1>4. ASSUME UNCHANGED brokerVars PROVE Stays
  BY <1>4 DEF brokerVars, Stays, Pending
<1>5. ASSUME NEW e \in Events, PostSucceeds(e), link PROVE Leaves("acked")
  BY <1>5, OneDelivery, LineSettled DEF PostSucceeds, AttemptInv
<1>6. ASSUME NEW e \in Events, PostFails(e), link PROVE Stays
  BY <1>6, OneDelivery, LineRequeued DEF PostFails, AttemptInv
<1>7. ASSUME QueueDeleted PROVE Vanishes
  BY <1>7, EmptySeq, ConcatEmptySeq DEF QueueDeleted, Vanishes, Pending
<1>8. ASSUME Connect \/ Deliver PROVE Stays
  BY <1>8, LineDeliver DEF Connect, Stays, Pending
<1> QED
  BY <1>1, <1>2, <1>3, <1>4, <1>5, <1>6, <1>7, <1>8
     DEF Next, Internal, Handle, StartUp, DeclareQueue, BindQueue, Consume, StartStep,
         Post, PostSucceeds, PostFails, Unanswered, BackoffEnds, ShutDown, ExitClosed,
         Terminate, LinkLost, Crash, ProcessGone, WriteLog, InsertFails, OrphanEnds,
         LoggerStop, LoggerStart, vars

-----------------------------------------------------------------------------
(* The order of arrivals *)

(* One more arrival comes after all the others. *)
LEMMA ArrivedGrows ==
  ASSUME TypeOK, NEW e \in Events, arrived' = Append(arrived, e)
  PROVE  /\ Len(arrived) \in Nat /\ Len(arrived') = Len(arrived) + 1
         /\ \A i \in 1..Len(arrived) : arrived'[i] = arrived[i]
         /\ arrived'[Len(arrived) + 1] = e
BY AppendProperties, Elements DEF TypeOK

LEMMA ArrivedStep ==
  ASSUME TypeOK, AttemptInv, QueueInv, ArrivedInv, InArrivalOrder, [Next]_vars
  PROVE  ArrivedInv'
<1> USE DEF ArrivedInv
<1>1. ASSUME NEW e \in Events, Joins(e) PROVE ArrivedInv'
  <2>1. /\ Len(arrived) \in Nat /\ Len(arrived') = Len(arrived) + 1
        /\ \A i \in 1..Len(arrived) : arrived'[i] = arrived[i]
        /\ arrived'[Len(arrived) + 1] = e
    BY <1>1, ArrivedGrows DEF Joins
  <2>2. /\ outcome[e] = "unpublished" /\ outcome'[e] = "queued"
        /\ \A f \in Events : f # e => outcome'[f] = outcome[f]
    BY <1>1 DEF Joins, TypeOK
  <2>3. \A i \in 1..Len(arrived) : arrived[i] # e /\ arrived[i] \in Events
    BY <2>2, Elements DEF TypeOK
  <2>4. \A i, j \in 1..Len(arrived') : i # j => arrived'[i] # arrived'[j]
    BY <2>1, <2>3
  <2>5. \A f \in Events : (\E i \in 1..Len(arrived') : arrived'[i] = f) <=>
                          f = e \/ \E i \in 1..Len(arrived) : arrived[i] = f
    BY <2>1
  <2>6. \A f \in Events : outcome'[f] = "rejected" => Kind[f] = "malformed"
    BY <2>2
  <2>7. \A f \in Events : outcome'[f] \notin {"unpublished", "unroutable"} <=>
                          \E i \in 1..Len(arrived') : arrived'[i] = f
    BY <2>2, <2>5
  <2> QED BY <2>4, <2>6, <2>7
<1>2. ASSUME NEW e \in Events, Passes(e) PROVE ArrivedInv'
  <2>1. UNCHANGED arrived
    BY <1>2 DEF Passes
  <2> QED BY <1>2, <2>1 DEF Passes, TypeOK
<1>3. ASSUME NEW how \in {"acked", "rejected"}, Leaves(how) PROVE ArrivedInv'
  <2>1. Head(Pending) \in Events /\ outcome[Head(Pending)] = "queued"
    <3>1. Head(Pending) = Pending[1] /\ 1 \in 1..Len(Pending) /\ Pending[1] \in Events
      BY <1>3, Line, HeadTail, EmptySeq DEF Leaves
    <3> QED BY <3>1 DEF InArrivalOrder
  <2> QED BY <1>3, <2>1 DEF Leaves, TypeOK
<1>4. CASE Vanishes
  BY <1>4 DEF Vanishes, QueueDeleted
<1>5. CASE Stays
  BY <1>5 DEF Stays
<1> QED BY <1>1, <1>2, <1>3, <1>4, <1>5, LineStep

LEMMA InOrderStep ==
  ASSUME TypeOK, AttemptInv, QueueInv, ArrivedInv, InArrivalOrder, [Next]_vars
  PROVE  InArrivalOrder'
<1> USE DEF InArrivalOrder
<1>1. ASSUME NEW e \in Events, Joins(e) PROVE InArrivalOrder'
  <2>1. /\ Len(arrived) \in Nat /\ Len(arrived') = Len(arrived) + 1
        /\ \A i \in 1..Len(arrived) : arrived'[i] = arrived[i]
        /\ arrived'[Len(arrived) + 1] = e
    BY <1>1, ArrivedGrows DEF Joins
  <2>2. /\ outcome[e] = "unpublished" /\ outcome'[e] = "queued"
        /\ \A f \in Events : f # e => outcome'[f] = outcome[f]
    BY <1>1 DEF Joins, TypeOK
  <2>3. /\ Len(Pending) \in Nat /\ Len(Pending') = Len(Pending) + 1
        /\ \A i \in 1..Len(Pending) : Pending'[i] = Pending[i]
        /\ Pending'[Len(Pending) + 1] = e
    <3>1. Pending' = Append(Pending, e) /\ Pending \in Seq(Events)
      BY <1>1, Line DEF Joins
    <3> QED BY <3>1, AppendProperties, Elements
  <2>4. \A f, g : Before(f, g) => Before(f, g)'
    BY <2>1 DEF Before
  <2>5. \A i \in 1..Len(Pending) : Pending[i] \in Events /\ outcome[Pending[i]] = "queued"
    BY Line
  <2>6. \A i \in 1..Len(Pending) : Pending[i] # e /\ Before(Pending[i], e)'
    <3> SUFFICES ASSUME NEW i \in 1..Len(Pending)
                 PROVE  Pending[i] # e /\ Before(Pending[i], e)'
      OBVIOUS
    <3>1. PICK k \in 1..Len(arrived) : arrived[k] = Pending[i]
      BY <2>5 DEF ArrivedInv
    <3>2. k < Len(arrived) + 1 /\ k \in 1..Len(arrived') /\ Len(arrived) + 1 \in 1..Len(arrived')
      BY <2>1
    <3>3. Pending[i] # e
      BY <2>2, <2>5
    <3>4. arrived'[k] = Pending[i] /\ arrived'[Len(arrived) + 1] = e
      BY <2>1, <3>1
    <3>5. Pending'[i] = Pending[i]
      BY <2>3
    <3> QED BY <3>2, <3>3, <3>4, <3>5 DEF Before
  <2>7. \A f \in Events : outcome'[f] = "queued" <=>
                          \E i \in 1..Len(Pending') : Pending'[i] = f
    BY <2>2, <2>3
  <2>8. \A i, j \in 1..Len(Pending') :
          i < j => Pending'[i] # Pending'[j] /\ Before(Pending[i], Pending[j])'
    <3> SUFFICES ASSUME NEW i \in 1..Len(Pending'), NEW j \in 1..Len(Pending'), i < j
                 PROVE  Pending'[i] # Pending'[j] /\ Before(Pending[i], Pending[j])'
      OBVIOUS
    <3>1. i \in 1..Len(Pending) /\ (j \in 1..Len(Pending) \/ j = Len(Pending) + 1)
      BY <2>3
    <3>2. Pending'[i] = Pending[i]
      BY <2>3, <3>1
    <3>3. CASE j \in 1..Len(Pending)
      <4>1. Pending'[j] = Pending[j]
        BY <2>3, <3>3
      <4>2. Before(Pending[i], Pending[j]) /\ Pending[i] # Pending[j]
        BY <3>1, <3>3
      <4> QED BY <2>1, <3>2, <4>1, <4>2 DEF Before
    <3>4. CASE j = Len(Pending) + 1
      <4>1. Pending'[j] = e
        BY <2>3, <3>4
      <4> QED BY <2>6, <3>1, <3>2, <4>1 DEF Before
    <3> QED BY <3>1, <3>3, <3>4
  <2> QED BY <2>7, <2>8
<1>2. ASSUME NEW e \in Events, Passes(e) PROVE InArrivalOrder'
  <2>1. UNCHANGED <<Pending, arrived>>
    BY <1>2 DEF Passes
  <2>2. \A f \in Events : outcome'[f] = "queued" <=> outcome[f] = "queued"
    BY <1>2 DEF Passes, TypeOK
  <2> QED BY <2>1, <2>2 DEF Before
<1>3. ASSUME NEW how \in {"acked", "rejected"}, Leaves(how) PROVE InArrivalOrder'
  <2>1. /\ Len(Pending) \in Nat /\ 1 \in 1..Len(Pending)
        /\ Pending[1] \in Events /\ Head(Pending) = Pending[1]
        /\ Len(Pending') = Len(Pending) - 1
        /\ \A i \in 1..Len(Pending') : Pending'[i] = Pending[i + 1]
    <3>1. Pending # <<>> /\ Pending' = Tail(Pending) /\ Pending \in Seq(Events)
      BY <1>3, Line DEF Leaves
    <3> QED BY <3>1, HeadTail, EmptySeq, Elements
  <2>2. /\ outcome'[Pending[1]] = how
        /\ \A f \in Events : f # Pending[1] => outcome'[f] = outcome[f]
        /\ UNCHANGED arrived
    BY <1>3, <2>1 DEF Leaves, TypeOK
  <2>3. \A i \in 2..Len(Pending) : Pending[i] # Pending[1]
    BY <2>1
  <2>4. \A f : (\E i \in 1..Len(Pending') : Pending'[i] = f) <=>
               \E i \in 2..Len(Pending) : Pending[i] = f
    <3>1. ASSUME NEW i \in 2..Len(Pending)
          PROVE  \E k \in 1..Len(Pending') : Pending'[k] = Pending[i]
      <4>1. i - 1 \in 1..Len(Pending') /\ (i - 1) + 1 = i
        BY <2>1
      <4> QED BY <2>1, <4>1
    <3>2. ASSUME NEW i \in 1..Len(Pending')
          PROVE  \E k \in 2..Len(Pending) : Pending[k] = Pending'[i]
      <4>1. i + 1 \in 2..Len(Pending)
        BY <2>1
      <4> QED BY <2>1, <4>1
    <3>3. ASSUME NEW f, NEW i \in 1..Len(Pending'), Pending'[i] = f
          PROVE  \E k \in 2..Len(Pending) : Pending[k] = f
      BY <3>2, <3>3
    <3>4. ASSUME NEW f, NEW i \in 2..Len(Pending), Pending[i] = f
          PROVE  \E k \in 1..Len(Pending') : Pending'[k] = f
      BY <3>1, <3>4
    <3> QED BY <3>3, <3>4
  <2>5. \A i \in 1..Len(Pending) : i = 1 \/ i \in 2..Len(Pending)
    BY <2>1
  <2>6. \A f \in Events : outcome'[f] = "queued" <=>
                          \E i \in 1..Len(Pending') : Pending'[i] = f
    <3>1. ASSUME NEW f \in Events, f = Pending[1]
          PROVE  outcome'[f] # "queued" /\ ~\E i \in 2..Len(Pending) : Pending[i] = f
      BY <2>2, <2>3, <3>1
    <3>2. ASSUME NEW f \in Events, f # Pending[1]
          PROVE  outcome'[f] = "queued" <=> \E i \in 2..Len(Pending) : Pending[i] = f
      BY <2>2, <2>5, <3>2
    <3> QED BY <2>4, <3>1, <3>2
  <2>7. \A i \in 1..Len(Pending') : i + 1 \in 1..Len(Pending)
    BY <2>1
  <2>8. \A i, j \in 1..Len(Pending') :
          i < j => Pending'[i] # Pending'[j] /\ Before(Pending'[i], Pending'[j])
    <3> SUFFICES ASSUME NEW i \in 1..Len(Pending'), NEW j \in 1..Len(Pending'), i < j
                 PROVE  Pending'[i] # Pending'[j] /\ Before(Pending'[i], Pending'[j])
      OBVIOUS
    <3>1. i + 1 \in 1..Len(Pending) /\ j + 1 \in 1..Len(Pending) /\ i + 1 < j + 1
      BY <2>1, <2>7
    <3>2. Pending[i + 1] # Pending[j + 1] /\ Before(Pending[i + 1], Pending[j + 1])
      BY <3>1
    <3> QED BY <2>1, <3>2
  <2> QED BY <2>2, <2>6, <2>8 DEF Before
<1>4. CASE Vanishes
  <2>1. Pending' = <<>> /\ Len(Pending') = 0
    BY <1>4, EmptySeq DEF Vanishes
  <2>2. \A f \in Events : outcome'[f] # "queued"
    BY <1>4 DEF Vanishes, QueueDeleted
  <2> QED BY <2>1, <2>2
<1>5. CASE Stays
  BY <1>5 DEF Stays, Before
<1> QED BY <1>1, <1>2, <1>3, <1>4, <1>5, LineStep

(* An event in front of which nothing waits. *)
LEMMA FirstHasNoneBefore ==
  ASSUME TypeOK, ArrivedInv, InArrivalOrder, inbox # <<>>,
         NEW i \in 1..Len(arrived), NEW j \in 1..Len(arrived),
         i < j, arrived[j] = inbox[1]
  PROVE  outcome[arrived[i]] # "queued"
<1> SUFFICES ASSUME outcome[arrived[i]] = "queued" PROVE FALSE
  OBVIOUS
<1>1. arrived[i] \in Events /\ Len(arrived) \in Nat
  BY Elements DEF TypeOK
<1>2. PICK k \in 1..Len(Pending) : Pending[k] = arrived[i]
  BY <1>1 DEF InArrivalOrder
<1>3. 1 \in 1..Len(Pending) /\ Pending[1] = arrived[j]
  BY FirstInLine
<1>4. k # 1
  BY <1>1, <1>2, <1>3 DEF ArrivedInv
<1>5. 1 < k
  BY <1>2, <1>4, Line
<1>6. Before(arrived[j], arrived[i])
  BY <1>2, <1>3, <1>5 DEF InArrivalOrder
<1>7. PICK m, n \in 1..Len(arrived) : m < n /\ arrived[m] = arrived[j] /\ arrived[n] = arrived[i]
  BY <1>6 DEF Before
<1>8. m = j /\ n = i
  BY <1>7 DEF ArrivedInv
<1> QED BY <1>1, <1>7, <1>8

(* Nothing that was settled or lost comes back, and what arrives comes     *)
(* after all that was posted.                                              *)
LEMMA NoneReturns ==
  ASSUME TypeOK, AttemptInv, QueueInv, ArrivedInv, PostedInv, [Next]_vars
  PROVE  /\ \A e \in posted : outcome'[e] # "unpublished"
         /\ \A i, j \in 1..Len(arrived') :
              i < j /\ arrived'[j] \in posted => outcome'[arrived'[i]] # "queued"
<1> USE DEF PostedInv
<1>1. posted \subseteq Events /\ \A i \in 1..Len(arrived) : arrived[i] \in Events
  BY Elements DEF TypeOK
<1>2. ASSUME NEW e \in Events, Joins(e)
      PROVE  /\ \A f \in posted : outcome'[f] # "unpublished"
             /\ \A i, j \in 1..Len(arrived') :
                  i < j /\ arrived'[j] \in posted => outcome'[arrived'[i]] # "queued"
  <2>1. /\ Len(arrived) \in Nat /\ Len(arrived') = Len(arrived) + 1
        /\ \A i \in 1..Len(arrived) : arrived'[i] = arrived[i]
        /\ arrived'[Len(arrived) + 1] = e
    BY <1>2, ArrivedGrows DEF Joins
  <2>2. /\ outcome[e] = "unpublished" /\ outcome'[e] = "queued"
        /\ \A f \in Events : f # e => outcome'[f] = outcome[f]
    BY <1>2 DEF Joins, TypeOK
  <2>3. e \notin posted /\ \A i \in 1..Len(arrived) : arrived[i] # e
    BY <1>1, <2>2 DEF ArrivedInv
  <2>4. ASSUME NEW i \in 1..Len(arrived'), NEW j \in 1..Len(arrived'),
               i < j, arrived'[j] \in posted
        PROVE  outcome'[arrived'[i]] # "queued"
    <3>1. j \in 1..Len(arrived) /\ i \in 1..Len(arrived)
      BY <2>1, <2>3, <2>4
    <3>2. arrived'[j] = arrived[j] /\ arrived'[i] = arrived[i]
      BY <2>1, <3>1
    <3> QED BY <1>1, <2>2, <2>3, <2>4, <3>1, <3>2
  <2> QED BY <1>1, <2>2, <2>3, <2>4
<1>3. ASSUME UNCHANGED arrived,
             \A f \in Events : /\ outcome'[f] = "queued" => outcome[f] = "queued"
                               /\ outcome'[f] = "unpublished" => outcome[f] = "unpublished"
      PROVE  /\ \A f \in posted : outcome'[f] # "unpublished"
             /\ \A i, j \in 1..Len(arrived') :
                  i < j /\ arrived'[j] \in posted => outcome'[arrived'[i]] # "queued"
  BY <1>1, <1>3
<1>4. ASSUME NEW e \in Events, Passes(e)
      PROVE  /\ UNCHANGED arrived
             /\ \A f \in Events : /\ outcome'[f] = "queued" => outcome[f] = "queued"
                                  /\ outcome'[f] = "unpublished" => outcome[f] = "unpublished"
  BY <1>4 DEF Passes, TypeOK
<1>5. ASSUME NEW how \in {"acked", "rejected"}, Leaves(how)
      PROVE  /\ UNCHANGED arrived
             /\ \A f \in Events : /\ outcome'[f] = "queued" => outcome[f] = "queued"
                                  /\ outcome'[f] = "unpublished" => outcome[f] = "unpublished"
  BY <1>5 DEF Leaves, TypeOK
<1>6. ASSUME Vanishes \/ Stays
      PROVE  /\ UNCHANGED arrived
             /\ \A f \in Events : /\ outcome'[f] = "queued" => outcome[f] = "queued"
                                  /\ outcome'[f] = "unpublished" => outcome[f] = "unpublished"
  BY <1>6 DEF Vanishes, Stays, QueueDeleted
<1> QED BY <1>2, <1>3, <1>4, <1>5, <1>6, LineStep

(* Who posts, and whose request it is that may write. *)
LEMMA PostedGrows ==
  ASSUME TypeOK, AttemptInv, PostedInv, [Next]_vars
  PROVE  /\ UNCHANGED posted \/ \E e \in Events : Post(e)
         /\ current' # None => current' \in posted'
         /\ \A e \in Events : stored'[e] > 0 \/ orphans'[e] > 0 => e \in posted'
<1> USE DEF TypeOK, PostedInv, vars, listenerVars, loggerVars
<1>1. ASSUME NEW e \in Events, Post(e)
      PROVE  /\ current' \in posted'
             /\ \A f \in Events : stored'[f] > 0 \/ orphans'[f] > 0 => f \in posted'
  BY <1>1 DEF Post
<1>2. ASSUME UNCHANGED <<posted, stored, orphans>>, current' \in {None, current}
      PROVE  /\ current' # None => current' \in posted'
             /\ \A f \in Events : stored'[f] > 0 \/ orphans'[f] > 0 => f \in posted'
  BY <1>2
<1>3. ASSUME NEW e \in Events, WriteLog(e) \/ Unanswered(e) \/ InsertFails(e)
      PROVE  /\ UNCHANGED posted
             /\ current' # None => current' \in posted'
             /\ \A f \in Events : stored'[f] > 0 \/ orphans'[f] > 0 => f \in posted'
  BY <1>3 DEF WriteLog, Unanswered, InsertFails
<1>4. ASSUME NEW e \in Events, OrphanEnds(e)
      PROVE  /\ UNCHANGED posted
             /\ current' # None => current' \in posted'
             /\ \A f \in Events : stored'[f] > 0 \/ orphans'[f] > 0 => f \in posted'
  BY <1>4 DEF OrphanEnds
<1>5. CASE Crash
  BY <1>5 DEF Crash, ProcessGone, Idle, AttemptInv
<1>6. ASSUME NEW e \in Events,
             \/ Arrive(e) \/ RejectMalformed(e) \/ AckAuth(e) \/ PostSucceeds(e)
             \/ PostFails(e)
      PROVE  UNCHANGED <<posted, stored, orphans>> /\ current' \in {None, current}
  BY <1>6 DEF Arrive, RejectMalformed, AckAuth, PostSucceeds, PostFails, Idle
<1>7. ASSUME StartUp \/ Deliver \/ BackoffEnds
      PROVE  UNCHANGED <<posted, stored, orphans>> /\ current' \in {None, current}
  BY <1>7
     DEF StartUp, Connect, DeclareQueue, BindQueue, Consume, StartStep, Deliver, BackoffEnds
<1>8. ASSUME \/ ShutDown \/ ExitClosed \/ Terminate \/ LinkLost
             \/ LoggerStop \/ LoggerStart \/ UNCHANGED vars
      PROVE  UNCHANGED <<posted, stored, orphans>> /\ current' \in {None, current}
  BY <1>8
     DEF ShutDown, ExitClosed, Terminate, LinkLost, ProcessGone, Idle, LoggerStop, LoggerStart
<1> QED
  BY <1>1, <1>2, <1>3, <1>4, <1>5, <1>6, <1>7, <1>8 DEF Next, Internal, Handle

LEMMA PostedStep ==
  ASSUME TypeOK, AttemptInv, QueueInv, ArrivedInv, InArrivalOrder, PostedInv, [Next]_vars
  PROVE  PostedInv'
<1>1. /\ current' # None => current' \in posted'
      /\ \A e \in Events : stored'[e] > 0 \/ orphans'[e] > 0 => e \in posted'
  BY PostedGrows
<1>2. CASE UNCHANGED posted
  BY <1>1, <1>2, NoneReturns DEF PostedInv
<1>3. ASSUME NEW e \in Events, Post(e) PROVE PostedInv'
  <2>1. /\ posted' = posted \cup {e} /\ UNCHANGED <<arrived, outcome>>
        /\ inbox # <<>> /\ e = inbox[1]
    BY <1>3, OneDelivery DEF Post, Handling, brokerVars
  <2>2. outcome[e] # "unpublished"
    BY <2>1, OneDelivery DEF QueueInv
  <2>3. \A i, j \in 1..Len(arrived) :
          i < j /\ arrived[j] = e => outcome[arrived[i]] # "queued"
    BY <2>1, FirstHasNoneBefore
  <2> QED BY <1>1, <2>1, <2>2, <2>3 DEF PostedInv
<1> QED BY <1>2, <1>3, PostedGrows

LEMMA OrderStep ==
  ASSUME TypeOK, AttemptInv, QueueInv, OrderInv, [Next]_vars
  PROVE  OrderInv'
BY ArrivedStep, InOrderStep, PostedStep DEF OrderInv

-----------------------------------------------------------------------------
(* The theorems *)

LEMMA InvInit == Init => IInv
<1> SUFFICES ASSUME Init PROVE IInv
  OBVIOUS
<1>1. TypeOK
  BY TypeInit
<1>2. AttemptInv /\ QueueInv /\ LoggedBeforeAcked
  BY EmptySeq DEF Init, AttemptInv, QueueInv, LoggedBeforeAcked
<1>3. CopiesInv
  <2>1. \A e \in Events : stored[e] = 0 /\ orphans[e] = 0 /\ unsure[e] = 0
    BY DEF Init
  <2>2. \A e \in Events : (IF Entitled(e) THEN 1 ELSE 0) \in {0, 1}
    OBVIOUS
  <2>3. \A e \in Events : 0 + 0 =< 0 + (IF Entitled(e) THEN 1 ELSE 0)
    BY <2>2
  <2> QED BY <2>1, <2>3 DEF CopiesInv
<1>4. OrderInv
  <2>1. Pending = <<>> /\ Len(Pending) = 0 /\ Len(arrived) = 0
    BY EmptySeq, ConcatEmptySeq DEF Init, Pending
  <2> QED BY <2>1 DEF Init, OrderInv, InArrivalOrder, ArrivedInv, PostedInv
<1> QED BY <1>1, <1>2, <1>3, <1>4 DEF IInv

LEMMA InvStep == IInv /\ [Next]_vars => IInv'
BY TypeStep, AttemptStep, QueueStep, LoggedStep, CopiesStep, OrderStep DEF IInv

(* The inductive invariant holds in every reachable state: the request     *)
(* state, RabbitMQ's holdings and the documents fit each other at every    *)
(* step of the listener and the logger.                                    *)
THEOREM Invariance == Spec => []IInv
<1>1. Init => IInv
  BY InvInit
<1>2. IInv /\ [Next]_vars => IInv'
  BY InvStep
<1> QED BY <1>1, <1>2, PTL DEF Spec

(* Whatever the listener, the logger and RabbitMQ do among themselves,     *)
(* nothing is published by it, and nothing becomes unpublished again.      *)
LEMMA InternalPublishesNone ==
  ASSUME IInv, Internal
  PROVE  \A e \in Events : outcome'[e] = "unpublished" <=> outcome[e] = "unpublished"
<1> USE DEF IInv, TypeOK
<1>1. CASE QueueDeleted
  BY <1>1 DEF QueueDeleted
<1>2. ASSUME NEW how \in {"acked", "rejected"}, inbox # <<>>, Settled(inbox[1], how)
      PROVE  \A e \in Events : outcome'[e] = "unpublished" <=> outcome[e] = "unpublished"
  <2>1. inbox[1] \in Events /\ outcome[inbox[1]] = "queued"
    BY <1>2, OneDelivery DEF QueueInv
  <2> QED BY <1>2, <2>1 DEF Settled
<1>3. ASSUME NEW e \in Events, Handle(e)
      PROVE  \/ UNCHANGED outcome
             \/ \E how \in {"acked", "rejected"} : inbox # <<>> /\ Settled(inbox[1], how)
  BY <1>3, OneDelivery
     DEF Handle, RejectMalformed, AckAuth, Handling, Post, PostSucceeds, PostFails,
         Requeued, AttemptInv, brokerVars
<1>4. \/ UNCHANGED outcome
      \/ QueueDeleted
      \/ \E e \in Events : Handle(e)
  BY DEF Internal, StartUp, Connect, DeclareQueue, BindQueue, Consume, StartStep,
         Deliver, Unanswered, BackoffEnds, ShutDown, ExitClosed, Terminate, LinkLost,
         Crash, ProcessGone, WriteLog, InsertFails, OrphanEnds, LoggerStop,
         LoggerStart, brokerVars
<1> QED BY <1>1, <1>2, <1>3, <1>4

(* Every variable of the path keeps its type, whatever fails. *)
THEOREM TypeCorrect == Spec => []TypeOK
<1>1. IInv => TypeOK
  BY DEF IInv
<1> QED BY <1>1, Invariance, PTL

(* What consumer.go acknowledges is in MongoDB, the name "auth" excepted. *)
THEOREM AckedEventsAreLogged == Spec => []LoggedBeforeAcked
<1>1. IInv => LoggedBeforeAcked
  BY DEF IInv
<1> QED BY <1>1, Invariance, PTL

(* A duplicate document costs a request that left the listener unsure: its *)
(* answer never came, or was the 400 of an Insert that returned an error.  *)
THEOREM DuplicatesAreExplained == Spec => []CopiesBounded
<1>1. IInv => CopiesBounded
  <2> SUFFICES ASSUME IInv, NEW e \in Events PROVE stored[e] =< 1 + unsure[e]
    BY DEF CopiesBounded
  <2>1. stored[e] \in Nat /\ orphans[e] \in Nat /\ unsure[e] \in Nat
    BY DEF IInv, TypeOK
  <2>2. stored[e] + orphans[e] =< unsure[e] + (IF Entitled(e) THEN 1 ELSE 0)
    BY DEF IInv, CopiesInv
  <2> QED BY <2>1, <2>2
<1> QED BY <1>1, Invariance, PTL

(* Requeueing at the head and the prefetch of 1 keep the queue in order,   *)
(* and the queue dies with its connection: what RabbitMQ holds is what is  *)
(* unsettled, once each, as it came.                                       *)
THEOREM QueueKeepsOrder == Spec => []InArrivalOrder
<1>1. IInv => InArrivalOrder
  BY DEF IInv, OrderInv
<1> QED BY <1>1, Invariance, PTL

(* No first document overtakes an event that arrived before and waits.     *)
THEOREM NoneOvertakes == Spec => NoOvertaking
<1>1. IInv /\ [Next]_vars =>
        [\A i, j \in DOMAIN arrived :
           /\ i < j
           /\ stored[arrived[j]] = 0 /\ stored'[arrived[j]] > 0
           => outcome[arrived[i]] # "queued"]_vars
  <2> SUFFICES ASSUME IInv, [Next]_vars,
                      NEW i \in DOMAIN arrived, NEW j \in DOMAIN arrived, i < j,
                      stored[arrived[j]] = 0, stored'[arrived[j]] > 0
               PROVE  outcome[arrived[i]] # "queued"
    OBVIOUS
  <2> USE DEF IInv, OrderInv
  <2>1. /\ i \in 1..Len(arrived) /\ j \in 1..Len(arrived)
        /\ arrived[i] \in Events /\ arrived[j] \in Events
    BY LenProperties, Elements DEF TypeOK
  <2>2. arrived[j] \in posted'
    BY <2>1, PostedGrows
  <2>3. CASE UNCHANGED posted
    BY <2>1, <2>2, <2>3 DEF PostedInv
  <2>4. ASSUME NEW e \in Events, Post(e) PROVE FALSE
    BY <2>4 DEF Post, loggerVars
  <2> QED BY <2>3, <2>4, PostedGrows
<1> QED BY <1>1, Invariance, PTL DEF Spec, NoOvertaking

-----------------------------------------------------------------------------
(* The refinement of EventLog *)

(* The documents a step adds, at most one, and to an event that was posted. *)
LEMMA Writes ==
  ASSUME IInv, [Next]_vars
  PROVE  \/ UNCHANGED stored
         \/ \E e \in posted : /\ stored' = [stored EXCEPT ![e] = @ + 1]
                              /\ UNCHANGED <<Pending, posted>>
<1>1. ASSUME NEW e \in Events, WriteLog(e) \/ OrphanEnds(e)
      PROVE  e \in posted /\ UNCHANGED <<Pending, posted>>
  BY <1>1
     DEF WriteLog, OrphanEnds, IInv, TypeOK, OrderInv, PostedInv, Pending, brokerVars,
         listenerVars
<1>2. \/ UNCHANGED stored
      \/ \E e \in Events : /\ WriteLog(e) \/ OrphanEnds(e)
                           /\ stored' = [stored EXCEPT ![e] = @ + 1]
  BY DEF Next, Internal, Handle, StartUp, Arrive, Connect, DeclareQueue, BindQueue,
     Consume, StartStep, Deliver, RejectMalformed, AckAuth, Post, PostSucceeds,
     PostFails, Unanswered, BackoffEnds, ShutDown, ExitClosed, Terminate, LinkLost,
     Crash, ProcessGone, WriteLog, InsertFails, OrphanEnds, LoggerStop,
     LoggerStart, vars, loggerVars
<1> QED BY <1>1, <1>2

(* A POST is a try of the first in line. *)
LEMMA PostMaps ==
  ASSUME IInv, NEW e \in Events, Post(e)
  PROVE  Log!Try
<1>1. /\ inbox # <<>> /\ e = inbox[1]
      /\ posted' = posted \cup {e} /\ UNCHANGED <<Pending, stored>>
  BY OneDelivery DEF Post, Handling, brokerVars, loggerVars, Pending, IInv
<1>2. Pending # <<>> /\ Head(Pending) = e
  BY <1>1, FirstInLine DEF IInv
<1> QED BY <1>1, <1>2 DEF Log!Try

(* The other steps move the line as EventLog does. *)
LEMMA LineMaps ==
  ASSUME IInv, [Next]_vars, UNCHANGED <<stored, posted>>
  PROVE  [Log!Next]_(Log!vars)
<1>1. ASSUME NEW e \in Events, Joins(e) PROVE Log!Enqueue(e)
  BY <1>1 DEF Joins, Log!Enqueue
<1>2. ASSUME NEW how \in {"acked", "rejected"}, Leaves(how) PROVE Log!Settle
  <2>1. Head(Pending) \in Events
    BY <1>2, Line, HeadTail DEF Leaves, IInv
  <2> QED BY <1>2, <2>1 DEF Leaves, Log!Settle
<1>3. ASSUME Vanishes PROVE Log!Discard
  BY <1>3 DEF Vanishes, Log!Discard
<1>4. ASSUME NEW e \in Events, Passes(e) PROVE UNCHANGED Log!vars
  BY <1>4 DEF Passes, Log!vars
<1>5. ASSUME Stays PROVE UNCHANGED Log!vars
  BY <1>5 DEF Stays, Log!vars
<1>6. \/ \E e \in Events : Joins(e) \/ Passes(e)
      \/ \E how \in {"acked", "rejected"} : Leaves(how)
      \/ Vanishes
      \/ Stays
  BY LineStep DEF IInv
<1> QED BY <1>1, <1>2, <1>3, <1>4, <1>5, <1>6 DEF Log!Next

LEMMA StepMaps ==
  ASSUME IInv, [Next]_vars
  PROVE  [Log!Next]_(Log!vars)
<1>1. ASSUME NEW e \in posted, stored' = [stored EXCEPT ![e] = @ + 1],
             UNCHANGED <<Pending, posted>>
      PROVE  Log!Next
  <2>1. e \in Events
    BY <1>1 DEF IInv, TypeOK
  <2> QED BY <1>1, <2>1 DEF Log!Write, Log!Next
<1>2. ASSUME NEW e \in Events, Post(e) PROVE Log!Next
  BY <1>2, PostMaps DEF Log!Next
<1>3. UNCHANGED posted \/ \E e \in Events : Post(e)
  BY PostedGrows DEF IInv, OrderInv
<1> QED BY <1>1, <1>2, <1>3, Writes, LineMaps

(* RabbitMQ, the listener and the logger together are an EventLog: events  *)
(* wait in arrival order, only the first is tried, it leaves when it is in *)
(* the log, and all there is to lose is the line as a whole.               *)
THEOREM ListenerImplementsEventLog == Spec => ImplementsEventLog
<1>1. Init => Log!Init
  BY EmptySeq, ConcatEmptySeq DEF Init, Log!Init, Pending
<1>2. IInv /\ [Next]_vars => [Log!Next]_(Log!vars)
  BY StepMaps
<1> QED BY <1>1, <1>2, Invariance, PTL DEF Spec, ImplementsEventLog, Log!Spec
=============================================================================
