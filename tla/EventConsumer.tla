--------------------------- MODULE EventConsumer ---------------------------
(***************************************************************************)
(* The consuming half of the log-event path: the RabbitMQ queue that the   *)
(* listener declares, the listener process (listener-service/main.go and   *)
(* event/consumer.go), the logger's POST /log handler                      *)
(* (logger-service/cmd/api/handlers.go) and the MongoDB collection it      *)
(* inserts into.  The listener and RabbitMQ meet in link, inbox and queue; *)
(* the listener and the logger in attempt.                                 *)
(*                                                                         *)
(* A delivery that the client library has received when the connection     *)
(* drops is modelled as dropped with it: handing it over after the loss    *)
(* touches nothing of the broker's, so it is the same as handing it over   *)
(* just before.                                                            *)
(***************************************************************************)
EXTENDS Integers, Sequences

CONSTANTS
  Events,             \* the events ever published
  None,               \* "no event": the listener is handling nothing
  Kind,               \* Kind[e]: what the payload of e makes the code do
  MaxLoggerFaults,    \* bound on logger stops, insert errors and timeouts
  MaxListenerFaults   \* bound on SIGTERMs, crashes and lost connections

(* "event": decodes, is named neither "auth" nor fail:http; "auth": the    *)
(* payload's name is "auth"; "failing": carries fail:http or fail:all;     *)
(* "malformed": does not decode as JSON.                                   *)
Kinds == {"event", "auth", "failing", "malformed"}

ASSUME NoneAssumption == None \notin Events
ASSUME KindAssumption == Kind \in [Events -> Kinds]
ASSUME BoundsAssumption == MaxLoggerFaults \in Nat /\ MaxListenerFaults \in Nat

VARIABLES
  queue,       \* RabbitMQ: ready messages, in order
  inbox,       \* RabbitMQ: delivered to the listener and not yet settled
  link,        \* the listener's connection to RabbitMQ is open
  stage,       \* where the listener process is
  stopping,    \* SIGTERM has cancelled the listener's context
  current,     \* the event handleDelivery is posting, or None
  attempt,     \* the state of its POST /log
  loggerUp,    \* the logger accepts requests
  orphans,     \* orphans[e]: inserts for e whose end nobody will see
  stored       \* stored[e]: documents for e in MongoDB

(* History, read by no guard except arrived and outcome of an event that   *)
(* is published once; and the fault counters that bound the runs.          *)
VARIABLES
  arrived,         \* events routed to the queue, in order
  outcome,         \* outcome[e]: what became of e
  posted,          \* events for which a POST was attempted
  unsure,          \* unsure[e]: POSTs that ended without telling the
                   \* listener whether the entry was stored
  loggerFaults,
  listenerFaults

brokerVars   == <<queue, inbox, link, arrived, outcome>>
listenerVars == <<stage, stopping, current, attempt, posted, unsure>>
loggerVars   == <<loggerUp, orphans, stored>>
faultVars    == <<loggerFaults, listenerFaults>>
vars == <<brokerVars, listenerVars, loggerVars, faultVars>>

Stages   == {"down", "connected", "declared", "bound", "listening", "posting",
             "backoff"}
Attempts == {"none", "sent", "stored", "failed"}
Outcomes == {"unpublished", "queued", "acked", "rejected", "lost", "unroutable"}

Init ==
  /\ queue = <<>> /\ inbox = <<>> /\ link = FALSE
  /\ stage = "down" /\ stopping = FALSE
  /\ current = None /\ attempt = "none"
  /\ loggerUp = TRUE
  /\ orphans = [e \in Events |-> 0]
  /\ stored = [e \in Events |-> 0]
  /\ arrived = <<>>
  /\ outcome = [e \in Events |-> "unpublished"]
  /\ posted = {}
  /\ unsure = [e \in Events |-> 0]
  /\ loggerFaults = 0 /\ listenerFaults = 0

-----------------------------------------------------------------------------
(* RabbitMQ, as the listener's calls configure it *)

(* Qos(1, 0, false): at most one unsettled delivery *)
PrefetchTwo == 2

Prefetch == 1

(* The exchange routes to the queue once it is bound, and nowhere before. *)
Routable == stage \in {"bound", "listening", "posting", "backoff"} /\ link

Arrive(e) ==
  /\ outcome[e] = "unpublished"
  /\ IF Routable
     THEN /\ queue' = Append(queue, e)
          /\ arrived' = Append(arrived, e)
          /\ outcome' = [outcome EXCEPT ![e] = "queued"]
     ELSE /\ outcome' = [outcome EXCEPT ![e] = "unroutable"]
          /\ UNCHANGED <<queue, arrived>>
  /\ UNCHANGED <<inbox, link, listenerVars, loggerVars, faultVars>>

Deliver ==
  /\ link
  /\ stage \in {"listening", "posting", "backoff"}
  /\ queue # <<>>
  /\ Len(inbox) < Prefetch
  /\ inbox' = Append(inbox, Head(queue))
  /\ queue' = Tail(queue)
  /\ UNCHANGED <<link, arrived, outcome, listenerVars, loggerVars, faultVars>>

(* The queue is exclusive to the connection and not durable: with the      *)
(* connection goes the queue, and everything in it.                        *)
QueueDeleted ==
  /\ queue' = <<>> /\ inbox' = <<>> /\ link' = FALSE
  /\ outcome' = [e \in Events |-> IF outcome[e] = "queued" THEN "lost"
                                                           ELSE outcome[e]]
  /\ UNCHANGED arrived

(* basic.ack, basic.reject without requeue: the delivery is gone. *)
Settled(e, how) ==
  /\ inbox' = Tail(inbox)
  /\ outcome' = [outcome EXCEPT ![e] = how]
  /\ UNCHANGED <<queue, link, arrived>>

(* basic.nack with requeue: back to its place at the head of the queue. *)
RequeuedLast(e) ==
  /\ inbox' = Tail(inbox)
  /\ queue' = Append(queue, e)
  /\ UNCHANGED <<link, arrived, outcome>>

RequeueFalse(e) == Settled(e, "lost")

Requeued(e) ==
  /\ inbox' = Tail(inbox)
  /\ queue' = <<e>> \o queue
  /\ UNCHANGED <<link, arrived, outcome>>

-----------------------------------------------------------------------------
(* The listener process: start-up *)

Connect ==
  /\ stage = "down"
  /\ stage' = "connected" /\ link' = TRUE
  /\ UNCHANGED <<queue, inbox, arrived, outcome, stopping, current, attempt,
                 posted, unsure, loggerVars, faultVars>>

StartStep(from, to) ==
  /\ stage = from /\ link
  /\ stage' = to
  /\ UNCHANGED <<brokerVars, stopping, current, attempt, posted, unsure,
                 loggerVars, faultVars>>

DeclareQueue == StartStep("connected", "declared")
BindQueue    == StartStep("declared", "bound")
Consume      == StartStep("bound", "listening")

-----------------------------------------------------------------------------
(* The listener process: handling a delivery *)

Handling(e) ==
  /\ stage = "listening"
  /\ inbox # <<>>
  /\ e = Head(inbox)

RejectMalformed(e) ==
  /\ Handling(e) /\ Kind[e] = "malformed"
  /\ Settled(e, "rejected")
  /\ UNCHANGED <<listenerVars, loggerVars, faultVars>>

(* handlePayload returns nil for the name "auth": acknowledged, not logged *)
AckAuth(e) ==
  /\ Handling(e) /\ Kind[e] = "auth"
  /\ Settled(e, "acked")
  /\ UNCHANGED <<listenerVars, loggerVars, faultVars>>

(* logEvent: a request on a cancelled context fails before it is sent, one *)
(* to a stopped logger is refused.                                         *)
Post(e) ==
  /\ Handling(e) /\ Kind[e] \in {"event", "failing"}
  /\ stage' = "posting" /\ current' = e
  /\ attempt' = IF stopping \/ ~loggerUp THEN "failed" ELSE "sent"
  /\ posted' = posted \cup {e}
  /\ UNCHANGED <<brokerVars, stopping, unsure, loggerVars, faultVars>>

(* The deadline of 10 s, the cancelled context or a stopped logger ends    *)
(* the request; a handler that was running goes on without its caller.     *)
Unanswered(e) ==
  /\ stage = "posting" /\ current = e
  /\ attempt \in {"sent", "stored"}
  /\ IF stopping \/ ~loggerUp
     THEN UNCHANGED faultVars
     ELSE /\ loggerFaults < MaxLoggerFaults
          /\ loggerFaults' = loggerFaults + 1
          /\ UNCHANGED listenerFaults
  /\ attempt' = "failed"
  /\ unsure' = [unsure EXCEPT ![e] = @ + 1]
  /\ orphans' = IF attempt = "sent" THEN [orphans EXCEPT ![e] = @ + 1]
                                    ELSE orphans
  /\ UNCHANGED <<brokerVars, stage, stopping, current, posted, loggerUp, stored>>

Idle == current' = None /\ attempt' = "none"

(* 202 from the logger: Ack, which fails when the connection is gone *)
PostEnds(e) ==
  /\ stage = "posting" /\ current = e /\ attempt \in {"stored", "failed"}
  /\ IF link THEN Settled(e, "acked") ELSE UNCHANGED brokerVars
  /\ stage' = "listening" /\ Idle
  /\ UNCHANGED <<stopping, posted, unsure, loggerVars, faultVars>>

PostSucceeds(e) ==
  /\ stage = "posting" /\ current = e /\ attempt = "stored"
  /\ IF link THEN Settled(e, "acked") ELSE UNCHANGED brokerVars
  /\ stage' = "listening" /\ Idle
  /\ UNCHANGED <<stopping, posted, unsure, loggerVars, faultVars>>

(* any error: Nack with requeue, then the wait before the retry *)
PostFails(e) ==
  /\ stage = "posting" /\ current = e /\ attempt = "failed"
  /\ IF link THEN Requeued(e) /\ stage' = "backoff"
             ELSE UNCHANGED brokerVars /\ stage' = "listening"
  /\ Idle
  /\ UNCHANGED <<stopping, posted, unsure, loggerVars, faultVars>>

(* waitBeforeRetry: after 250 ms, or at once when the context is done *)
BackoffEndsOnStop ==
  /\ stage = "backoff" /\ stopping
  /\ stage' = "listening"
  /\ UNCHANGED <<brokerVars, stopping, current, attempt, posted, unsure,
                 loggerVars, faultVars>>

BackoffEnds ==
  /\ stage = "backoff"
  /\ stage' = "listening"
  /\ UNCHANGED <<brokerVars, stopping, current, attempt, posted, unsure,
                 loggerVars, faultVars>>

-----------------------------------------------------------------------------
(* The listener process: its ends *)

ProcessGone ==
  /\ QueueDeleted
  /\ stage' = "down" /\ stopping' = FALSE
  /\ Idle
  /\ UNCHANGED <<posted, unsure, loggerUp, stored>>

(* the select's ctx.Done() branch; it may be passed over for a delivery *)
ShutDownDrained ==
  /\ stage = "listening" /\ stopping /\ inbox = <<>>
  /\ ProcessGone
  /\ UNCHANGED <<orphans, faultVars>>

ShutDown ==
  /\ stage = "listening" /\ stopping
  /\ ProcessGone
  /\ UNCHANGED <<orphans, faultVars>>

(* a call of the start-up fails, or the delivery channel is closed *)
ExitClosed ==
  /\ stage \in {"connected", "declared", "bound", "listening"}
  /\ ~link
  /\ ProcessGone
  /\ UNCHANGED <<orphans, faultVars>>

ListenerFault ==
  /\ listenerFaults < MaxListenerFaults
  /\ listenerFaults' = listenerFaults + 1
  /\ UNCHANGED loggerFaults

Terminate ==
  /\ stage # "down" /\ ~stopping
  /\ stopping' = TRUE
  /\ ListenerFault
  /\ UNCHANGED <<brokerVars, stage, current, attempt, posted, unsure, loggerVars>>

LinkLost ==
  /\ link
  /\ QueueDeleted
  /\ ListenerFault
  /\ UNCHANGED <<listenerVars, loggerVars>>

Crash ==
  /\ stage # "down"
  /\ orphans' = [e \in Events |-> IF e = current /\ attempt = "sent"
                                  THEN orphans[e] + 1 ELSE orphans[e]]
  /\ ProcessGone
  /\ ListenerFault

-----------------------------------------------------------------------------
(* The logger's POST /log handler and MongoDB *)

(* WriteLog: the forced failure answers 503, else the entry is inserted *)
WriteLogAnswers200(e) ==
  /\ current = e /\ attempt = "sent"
  /\ attempt' = "failed"
  /\ IF Kind[e] = "failing"
     THEN UNCHANGED stored
     ELSE stored' = [stored EXCEPT ![e] = @ + 1]
  /\ UNCHANGED <<brokerVars, stage, stopping, current, posted, unsure, loggerUp,
                 orphans, faultVars>>

WriteLog(e) ==
  /\ current = e /\ attempt = "sent"
  /\ IF Kind[e] = "failing"
     THEN attempt' = "failed" /\ UNCHANGED stored
     ELSE attempt' = "stored" /\ stored' = [stored EXCEPT ![e] = @ + 1]
  /\ UNCHANGED <<brokerVars, stage, stopping, current, posted, unsure, loggerUp,
                 orphans, faultVars>>

LoggerFault ==
  /\ loggerFaults < MaxLoggerFaults
  /\ loggerFaults' = loggerFaults + 1
  /\ UNCHANGED listenerFaults

(* Insert returns an error, and the logger answers 400.  An error, or the  *)
(* end of Insert's 15 s, does not say that MongoDB has not inserted the    *)
(* entry or will not: that is left to OrphanEnds.                          *)
InsertFails(e) ==
  /\ current = e /\ attempt = "sent" /\ Kind[e] = "event"
  /\ attempt' = "failed"
  /\ unsure' = [unsure EXCEPT ![e] = @ + 1]
  /\ orphans' = [orphans EXCEPT ![e] = @ + 1]
  /\ LoggerFault
  /\ UNCHANGED <<brokerVars, stage, stopping, current, posted, loggerUp, stored>>

(* An insert nobody waits for ends: of a handler that lost its caller, for *)
(* Insert runs on a context of its own, or of one that answered 400.  It   *)
(* adds the entry or it does not.                                          *)
OrphanEnds(e) ==
  /\ orphans[e] > 0
  /\ orphans' = [orphans EXCEPT ![e] = @ - 1]
  /\ \/ Kind[e] = "event" /\ stored' = [stored EXCEPT ![e] = @ + 1]
     \/ UNCHANGED stored
  /\ UNCHANGED <<brokerVars, listenerVars, loggerUp, faultVars>>

LoggerStop ==
  /\ loggerUp
  /\ loggerUp' = FALSE
  /\ LoggerFault
  /\ UNCHANGED <<brokerVars, listenerVars, orphans, stored>>

LoggerStart ==
  /\ ~loggerUp
  /\ loggerUp' = TRUE
  /\ UNCHANGED <<brokerVars, listenerVars, orphans, stored, faultVars>>

-----------------------------------------------------------------------------
StartUp == Connect \/ DeclareQueue \/ BindQueue \/ Consume

Handle(e) ==
  \/ RejectMalformed(e) \/ AckAuth(e) \/ Post(e)
  \/ PostSucceeds(e) \/ PostFails(e)

(* Every step except a publisher's, so that a publisher can be composed in *)
Internal ==
  \/ StartUp
  \/ Deliver
  \/ \E e \in Events : Handle(e) \/ Unanswered(e)
  \/ BackoffEnds
  \/ ShutDown \/ ExitClosed \/ Terminate \/ LinkLost \/ Crash
  \/ \E e \in Events : WriteLog(e) \/ InsertFails(e) \/ OrphanEnds(e)
  \/ LoggerStop \/ LoggerStart

Next == (\E e \in Events : Arrive(e)) \/ Internal

Spec == Init /\ [][Next]_vars

(* RabbitMQ pushes deliveries, handlers and timers run, and Docker brings  *)
(* a logger that stopped back (restart: unless-stopped).  Nothing obliges  *)
(* a fault, or a listener that was stopped to be started again.  Only      *)
(* ShutDown needs strong fairness: Go's select picks at random among the   *)
(* ready cases, so a case that is ready again and again is picked.         *)
Fairness ==
  /\ WF_vars(DeclareQueue \/ BindQueue \/ Consume)
  /\ WF_vars(Deliver)
  /\ WF_vars(\E e \in Events : Handle(e))
  /\ WF_vars(\E e \in Events : WriteLog(e))
  /\ WF_vars(BackoffEnds)
  /\ WF_vars(ExitClosed)
  /\ WF_vars(LoggerStart)
  /\ SF_vars(ShutDown)

FairSpec == Spec /\ Fairness

-----------------------------------------------------------------------------
(* Properties *)

TypeOK ==
  /\ queue \in Seq(Events) /\ inbox \in Seq(Events) /\ Len(inbox) =< 1
  /\ link \in BOOLEAN
  /\ stage \in Stages
  /\ stopping \in BOOLEAN
  /\ current \in Events \cup {None}
  /\ attempt \in Attempts
  /\ loggerUp \in BOOLEAN
  /\ orphans \in [Events -> Nat]
  /\ stored \in [Events -> Nat]
  /\ arrived \in Seq(Events)
  /\ outcome \in [Events -> Outcomes]
  /\ posted \in SUBSET Events
  /\ unsure \in [Events -> Nat]
  /\ loggerFaults \in 0..MaxLoggerFaults
  /\ listenerFaults \in 0..MaxListenerFaults

(* An event the listener acknowledged, unless it is named "auth", has a    *)
(* document in MongoDB: the acknowledgement comes after the logger's 202,  *)
(* whatever retries, timeouts, restarts and orphaned handlers came before. *)
LoggedBeforeAcked ==
  \A e \in Events : outcome[e] = "acked" => Kind[e] = "auth" \/ stored[e] > 0

(* A second document for an event means a POST that left the listener      *)
(* unsure: its answer never came, or it was the 400 of an Insert that      *)
(* returned an error.  A lost acknowledgement, a crash and the retry after *)
(* a refused request or a 503 make no duplicates, late inserts included.   *)
CopiesBounded ==
  \A e \in Events : stored[e] =< 1 + unsure[e]

Pending == inbox \o queue

Before(e, f) ==
  \E i, j \in 1..Len(arrived) : i < j /\ arrived[i] = e /\ arrived[j] = f

(* What RabbitMQ still holds is exactly the unsettled events, once each,   *)
(* in the order they arrived: a requeued delivery regains its place and    *)
(* nothing is left behind by a lost connection.                            *)
InArrivalOrder ==
  /\ \A e \in Events :
       outcome[e] = "queued" <=> \E i \in 1..Len(Pending) : Pending[i] = e
  /\ \A i, j \in 1..Len(Pending) :
       i < j => Pending[i] # Pending[j] /\ Before(Pending[i], Pending[j])

(* No event is logged for the first time while an event that arrived       *)
(* before it still waits: the prefetch of 1 and the requeue at the head    *)
(* keep the order even when the write comes from an orphaned handler.      *)
NoOvertaking ==
  [][\A i, j \in DOMAIN arrived :
       /\ i < j
       /\ stored[arrived[j]] = 0 /\ stored'[arrived[j]] > 0
       => outcome[arrived[i]] # "queued"]_vars

(* What an operator reads off the pipeline diagram of the README: an event *)
(* the listener acknowledged has been logged.                              *)
AckedIsLogged == \A e \in Events : outcome[e] = "acked" => stored[e] > 0

(* The detailed path keeps the promise of EventLog. *)
Log == INSTANCE EventLog WITH
  Skippable <- {e \in Events : Kind[e] \in {"auth", "malformed"}},
  pending <- Pending, tried <- posted, log <- stored

ImplementsEventLog == Log!Spec

(* An event that makes the logger fail arrived no later and circulates. *)
Blocked(e) ==
  \E i, j \in DOMAIN arrived :
    /\ i =< j /\ arrived[j] = e
    /\ Kind[arrived[i]] = "failing" /\ outcome[arrived[i]] = "queued"

(* Everything that reached the queue leaves it, one way or another, unless *)
(* it is blocked.                                                          *)
QueuedIsSettled ==
  \A e \in Events :
    outcome[e] = "queued" ~> outcome[e] # "queued" \/ Blocked(e)

(* SIGTERM ends the listener, even while a failing event is redelivered    *)
(* again and again and the select may pick the delivery every time.        *)
ListenerStops == stopping ~> stage = "down"

(* scripts/verify-phase-4.sh, for outages of the logger at any point and   *)
(* of any sort: a queued event reaches MongoDB once the logger is back.    *)
(* Only a fault of the listener or its connection can lose the event.      *)
RetriedUntilLogged ==
  \A e \in Events :
    outcome[e] = "queued" /\ Kind[e] = "event" ~>
      \/ stored[e] > 0 \/ Blocked(e)
      \/ outcome[e] = "lost" /\ listenerFaults > 0

-----------------------------------------------------------------------------
(* The inductive invariant behind LoggedBeforeAcked, CopiesBounded,        *)
(* InArrivalOrder, NoOvertaking and ImplementsEventLog                     *)

(* The POST under way is for the delivery at hand; a 202 is behind a       *)
(* document.                                                               *)
AttemptInv ==
  /\ (stage = "posting") <=> (current # None)
  /\ (attempt = "none") <=> (current = None)
  /\ attempt = "stored" => stored[current] > 0
  /\ stage = "posting" /\ link => inbox # <<>> /\ Head(inbox) = current
  /\ stage = "posting" /\ ~link => outcome[current] = "lost"

(* RabbitMQ holds queued events only, and each of them once. *)
QueueInv ==
  /\ ~link => inbox = <<>> /\ queue = <<>>
  /\ stage = "down" => ~link
  /\ \A i \in 1..Len(inbox) : outcome[inbox[i]] = "queued"
  /\ \A i \in 1..Len(queue) : outcome[queue[i]] = "queued"
  /\ \A i, j \in 1..Len(queue) : i # j => queue[i] # queue[j]
  /\ \A i \in 1..Len(inbox), j \in 1..Len(queue) : inbox[i] # queue[j]

(* The one document an event is entitled to: its POST has just stored it,  *)
(* or no POST for it can follow any more.                                  *)
Entitled(e) ==
  \/ current = e /\ attempt = "stored"
  \/ current # e /\ outcome[e] \in {"acked", "lost"}

CopiesInv ==
  \A e \in Events :
    stored[e] + orphans[e] =< unsure[e] + (IF Entitled(e) THEN 1 ELSE 0)

(* An event arrives once; only what arrived can have any other end than    *)
(* to find no queue, and only what does not decode is rejected.            *)
ArrivedInv ==
  /\ \A i, j \in 1..Len(arrived) : i # j => arrived[i] # arrived[j]
  /\ \A e \in Events :
       outcome[e] \notin {"unpublished", "unroutable"} <=>
         \E i \in 1..Len(arrived) : arrived[i] = e
  /\ \A e \in Events : outcome[e] = "rejected" => Kind[e] = "malformed"

(* Every write follows a POST, and when its event was posted, nothing that *)
(* had arrived before was waiting any more.                                *)
PostedInv ==
  /\ current # None => current \in posted
  /\ \A e \in Events : stored[e] > 0 \/ orphans[e] > 0 => e \in posted
  /\ \A e \in posted : outcome[e] # "unpublished"
  /\ \A i, j \in 1..Len(arrived) :
       i < j /\ arrived[j] \in posted => outcome[arrived[i]] # "queued"

OrderInv == InArrivalOrder /\ ArrivedInv /\ PostedInv

IInv ==
  /\ TypeOK /\ AttemptInv /\ QueueInv
  /\ LoggedBeforeAcked /\ CopiesInv
  /\ OrderInv
=============================================================================
