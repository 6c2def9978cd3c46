--------------------------- MODULE LogTransports ---------------------------
(***************************************************************************)
(* Writing a log entry synchronously, from the broker through one of three *)
(* transports to the logger and MongoDB: HTTP (workflow.go Log), net/rpc   *)
(* (LogViaRPC) and gRPC (LogViaGRPC).  The three differ in how they meet a *)
(* logger that is away and in their time limits, and the limits do not     *)
(* nest: the insert may outlive every caller, the HTTP client's limit is   *)
(* the limit of the broker's own answer, and that one has been running     *)
(* since the header, while the body was read.  Time is counted in seconds, *)
(* per request, from the end of its header; a limit that is reached fires  *)
(* before the clock moves on.                                              *)
(***************************************************************************)
EXTENDS Integers

CONSTANTS
  Requests,        \* the submissions
  MaxLoggerStops   \* bound on stops of the logger

Transports == {"http", "rpc", "grpc"}

(* "blank": the name or the data is, or the body is no submission at all;  *)
(* "failing": the text holds fail:all or fail: and its transport           *)
Texts == {"plain", "blank", "failing"}

ASSUME StopsAssumption == MaxLoggerStops \in Nat

VARIABLES
  pc,          \* pc[r]: where the broker's handler is
  transport,   \* transport[r]: the way r was submitted
  text,        \* text[r]: what it says
  age,         \* age[r]: seconds since its header was read
  began,       \* began[r]: its age when the broker was through with the body
  answer,      \* answer[r]: the status that reached the client, 0 for none
  server,      \* server[r]: the logger's handler for r
  spent,       \* spent[r]: seconds since that handler began, while it runs
  stored,      \* stored[r]: documents for r in MongoDB
  loggerUp, loggerStops

requestVars == <<transport, text, age, began>>
brokerVars == <<pc, requestVars, answer>>
loggerVars == <<server, spent, stored>>
vars == <<brokerVars, loggerVars, loggerUp, loggerStops>>

Stages == {"idle", "reading", "dialling", "calling", "done"}

(* "dead": the process went away under the handler *)
HandlerStates == {"none", "running", "ok", "error", "dead"}

Init ==
  /\ pc = [r \in Requests |-> "idle"]
  /\ transport = [r \in Requests |-> "http"]
  /\ text = [r \in Requests |-> "plain"]
  /\ age = [r \in Requests |-> 0]
  /\ began = [r \in Requests |-> 0]
  /\ answer = [r \in Requests |-> 0]
  /\ server = [r \in Requests |-> "none"]
  /\ spent = [r \in Requests |-> 0]
  /\ stored = [r \in Requests |-> 0]
  /\ loggerUp = TRUE /\ loggerStops = 0

-----------------------------------------------------------------------------
(* Time limits, in seconds *)

LimitsWithoutDeadline == [http |-> 10, rpc |-> 15, grpc |-> 3]

(* http.Client.Timeout; the context of LogViaRPC, which also becomes the   *)
(* connection's deadline; the context of LogViaGRPC                        *)
Limits == [http |-> 10, rpc |-> 3, grpc |-> 3]

(* ReadTimeout and WriteTimeout of the broker's http.Server: the first runs *)
(* from the start of the request, the second from the end of its header    *)
ReadLimit == 10

WriteLimit == 10

(* the context of the logger's insert, on none of its callers' contexts *)
InsertLimit == 15

-----------------------------------------------------------------------------
(* The broker's handlers *)

(* When the limit of the transport's call strikes *)
Deadline(r) == began[r] + Limits[transport[r]]

(* The handler is over.  Past WriteTimeout it writes to a connection that  *)
(* delivers nothing any more.                                              *)
Answer(r, status) ==
  /\ pc' = [pc EXCEPT ![r] = "done"]
  /\ answer' = IF age[r] < WriteLimit THEN [answer EXCEPT ![r] = status]
                                      ELSE answer
  /\ UNCHANGED age

Reply(r, status) == Answer(r, status) /\ UNCHANGED <<transport, text, began>>

Submit(r) ==
  /\ pc[r] = "idle"
  /\ pc' = [pc EXCEPT ![r] = "reading"]
  /\ UNCHANGED <<requestVars, answer, loggerVars, loggerUp, loggerStops>>

(* readJSON returns: the submission, or an error, which is answered like a *)
(* blank one.  A body that was cut off may end so at any moment.           *)
Read(r, way, kind) ==
  /\ pc[r] = "reading" /\ age[r] < ReadLimit
  /\ transport' = [transport EXCEPT ![r] = way]
  /\ text' = [text EXCEPT ![r] = kind]
  /\ began' = [began EXCEPT ![r] = age[r]]
  /\ IF kind = "blank"
     THEN Answer(r, 400)
     ELSE pc' = [pc EXCEPT ![r] = "dialling"] /\ UNCHANGED <<age, answer>>
  /\ UNCHANGED <<loggerVars, loggerUp, loggerStops>>

BodyLate(r) ==
  /\ pc[r] = "reading" /\ age[r] >= ReadLimit
  /\ text' = [text EXCEPT ![r] = "blank"]
  /\ began' = [began EXCEPT ![r] = age[r]]
  /\ Answer(r, 400)
  /\ UNCHANGED <<transport, loggerVars, loggerUp, loggerStops>>

(* The request is on its way to a logger that is there. *)
Dial(r) ==
  /\ pc[r] = "dialling" /\ loggerUp
  /\ pc' = [pc EXCEPT ![r] = "calling"]
  /\ server' = [server EXCEPT ![r] = "running"]
  /\ UNCHANGED <<requestVars, answer, spent, stored, loggerUp, loggerStops>>

(* Connection refused.  grpc.WithBlock keeps dialling instead. *)
DialFails(r) ==
  /\ pc[r] = "dialling" /\ ~loggerUp
  /\ transport[r] # "grpc"
  /\ Reply(r, 502)
  /\ UNCHANGED <<loggerVars, loggerUp, loggerStops>>

(* The call returns: an HTTP status, an RPC error, a gRPC status. *)
Return(r) ==
  /\ pc[r] = "calling" /\ server[r] \in {"ok", "error"}
  /\ Reply(r, IF server[r] = "ok" THEN 202 ELSE 502)
  /\ UNCHANGED <<loggerVars, loggerUp, loggerStops>>

RedialWhenDead(r) ==
  /\ pc[r] = "calling" /\ server[r] = "dead"
  /\ pc' = [pc EXCEPT ![r] = "dialling"]
  /\ UNCHANGED <<requestVars, answer, loggerVars, loggerUp, loggerStops>>

(* The connection ends under the call: none of the transports repeats a    *)
(* request that may have reached a handler.                                *)
Disconnected(r) ==
  /\ pc[r] = "calling" /\ server[r] = "dead"
  /\ Reply(r, 502)
  /\ UNCHANGED <<loggerVars, loggerUp, loggerStops>>

TimeoutNoCall(r) ==
  /\ pc[r] = "dialling"
  /\ age[r] >= Deadline(r)
  /\ Reply(r, 502)
  /\ UNCHANGED <<loggerVars, loggerUp, loggerStops>>

Timeout(r) ==
  /\ pc[r] \in {"dialling", "calling"}
  /\ age[r] >= Deadline(r)
  /\ Reply(r, 502)
  /\ UNCHANGED <<loggerVars, loggerUp, loggerStops>>

-----------------------------------------------------------------------------
(* The logger's handlers: WriteLog, LogInfo and the gRPC WriteLog *)

Ends(r, how) ==
  /\ server[r] = "running"
  /\ server' = [server EXCEPT ![r] = how]
  /\ spent' = [spent EXCEPT ![r] = 0]

ForcedFailure(r) ==
  /\ text[r] = "failing"
  /\ Ends(r, "error")
  /\ UNCHANGED <<brokerVars, stored, loggerUp, loggerStops>>

Insert(r) ==
  /\ text[r] # "failing"
  /\ Ends(r, "ok")
  /\ stored' = [stored EXCEPT ![r] = @ + 1]
  /\ UNCHANGED <<brokerVars, loggerUp, loggerStops>>

(* MongoDB may have applied an insert that is reported as failed, and so   *)
(* may one whose process goes away.                                        *)
MaybeStored(r) ==
  \/ stored' = [stored EXCEPT ![r] = @ + 1]
  \/ UNCHANGED stored

InsertFails(r) ==
  /\ text[r] # "failing"
  /\ Ends(r, "error")
  /\ MaybeStored(r)
  /\ UNCHANGED <<brokerVars, loggerUp, loggerStops>>

Killed(r) ==
  /\ ~loggerUp
  /\ Ends(r, "dead")
  /\ IF text[r] = "failing" THEN UNCHANGED stored ELSE MaybeStored(r)
  /\ UNCHANGED <<brokerVars, loggerUp, loggerStops>>

LoggerStop ==
  /\ loggerUp /\ loggerStops < MaxLoggerStops
  /\ loggerUp' = FALSE
  /\ loggerStops' = loggerStops + 1
  /\ UNCHANGED <<brokerVars, loggerVars>>

LoggerStart ==
  /\ ~loggerUp
  /\ \A r \in Requests : server[r] # "running"
  /\ loggerUp' = TRUE
  /\ UNCHANGED <<brokerVars, loggerVars, loggerStops>>

-----------------------------------------------------------------------------
(* The clock *)

Waiting(r) == pc[r] \in {"dialling", "calling"}

DueInBroker(r) ==
  \/ pc[r] = "reading" /\ age[r] >= ReadLimit
  \/ Waiting(r) /\ age[r] >= Deadline(r)

Due(r) ==
  \/ pc[r] = "reading" /\ age[r] >= ReadLimit
  \/ Waiting(r) /\ age[r] >= Deadline(r)
  \/ spent[r] >= InsertLimit

(* Requests that are over stop ageing, which bounds the clock. *)
Ageing(r) == pc[r] = "reading" \/ Waiting(r) \/ server[r] = "running"

Tick ==
  /\ \A r \in Requests : ~Due(r)
  /\ \E r \in Requests : Ageing(r)
  /\ age' = [r \in Requests |-> IF Ageing(r) THEN age[r] + 1 ELSE age[r]]
  /\ spent' = [r \in Requests |-> IF server[r] = "running"
                                  THEN spent[r] + 1 ELSE spent[r]]
  /\ UNCHANGED <<pc, transport, text, began, answer, server, stored>>
  /\ UNCHANGED <<loggerUp, loggerStops>>

Broker(r) ==
  \/ Submit(r)
  \/ \E way \in Transports, kind \in Texts : Read(r, way, kind)
  \/ BodyLate(r)
  \/ Dial(r) \/ DialFails(r) \/ Return(r) \/ Disconnected(r) \/ Timeout(r)

Logger(r) == ForcedFailure(r) \/ Insert(r) \/ InsertFails(r) \/ Killed(r)

Next ==
  \/ \E r \in Requests : Broker(r) \/ Logger(r)
  \/ LoggerStop \/ LoggerStart
  \/ Tick

Spec == Init /\ [][Next]_vars

(* Timers fire and time passes; nothing else is owed, so that the answer   *)
(* does not depend on a logger that ever finishes a request.               *)
Fairness ==
  /\ \A r \in Requests : WF_vars(BodyLate(r)) /\ WF_vars(Timeout(r))
  /\ \A r \in Requests : WF_vars(Logger(r) /\ spent[r] >= InsertLimit)
  /\ WF_vars(Tick)

FairSpec == Spec /\ Fairness

-----------------------------------------------------------------------------
(* Properties *)

TypeOK ==
  /\ pc \in [Requests -> Stages]
  /\ transport \in [Requests -> Transports]
  /\ text \in [Requests -> Texts]
  /\ age \in [Requests -> 0..(ReadLimit + 10 + InsertLimit)]
  /\ began \in [Requests -> 0..ReadLimit]
  /\ answer \in [Requests -> {0, 202, 400, 502}]
  /\ server \in [Requests -> HandlerStates]
  /\ spent \in [Requests -> 0..InsertLimit]
  /\ stored \in [Requests -> Nat]
  /\ loggerUp \in BOOLEAN
  /\ loggerStops \in 0..MaxLoggerStops

(* Which answers WriteTimeout leaves to the client, the seconds its body   *)
(* took included.  Over RPC and gRPC it reads one unless the body took     *)
(* seven seconds or more.  Over HTTP the client's limit ends no sooner     *)
(* than WriteTimeout: a 502 that can be read is never that of a logger     *)
(* still at work, whose client finds the connection closed instead.        *)
AnswerInTime ==
  \A r \in Requests : pc[r] = "done" =>
    /\ answer[r] = 0 /\ transport[r] # "http" => began[r] >= 7
    /\ answer[r] = 502 /\ server[r] = "running" => transport[r] # "http"

(* What becomes of an entry is settled within the caller's limit and the   *)
(* insert's, counted from the end of the body: after that, a client that   *)
(* was told 502, or nothing, may look and decide.                          *)
LateEntriesBounded ==
  [][\A r \in Requests :
       stored'[r] # stored[r] =>
         age[r] - began[r] =< Limits[transport[r]] + InsertLimit]_vars

(* Every submission comes to an end in the broker, even when its body or   *)
(* the logger's answer never does.                                         *)
EverySubmissionAnswered ==
  \A r \in Requests : pc[r] = "reading" ~> pc[r] = "done"

(* A client without an answer knows as little as one with a 502. *)
Conclusion(r) ==
  IF pc[r] # "done" THEN "none"
  ELSE CASE answer[r] = 202 -> "yes"
         [] answer[r] = 400 -> "no"
         [] OTHER           -> "unsure"

Promise ==
  INSTANCE Submission WITH
    answer <- [r \in Requests |-> Conclusion(r)],
    effect <- stored

(* The three transports keep one promise: 202 for an entry that is stored, *)
(* 400 for one that never is, 502 for one that may be, now or later; and   *)
(* no entry is stored twice.                                               *)
KeepsPromise == Promise!Spec

-----------------------------------------------------------------------------
(* The inductive invariant behind KeepsPromise, AnswerInTime and           *)
(* LateEntriesBounded                                                      *)

(* The broker's handler and the logger's: who has begun, who has answered. *)
CallInv ==
  \A r \in Requests :
    /\ answer[r] # 0 => pc[r] = "done"
    /\ pc[r] \in {"idle", "reading", "dialling"} => server[r] = "none"
    /\ Waiting(r) => text[r] # "blank"
    /\ server[r] # "none" => text[r] # "blank"
    /\ answer[r] = 202 => server[r] = "ok"
    /\ answer[r] = 400 => text[r] = "blank"

(* Only a handler that is over has stored anything, and it did so once. *)
EntryInv ==
  \A r \in Requests :
    /\ stored[r] =< 1
    /\ server[r] \in {"none", "running"} => stored[r] = 0
    /\ server[r] = "ok" => stored[r] = 1

(* How old a request can be while someone works for it. *)
ClockInv ==
  \A r \in Requests :
    /\ pc[r] = "idle" => age[r] = 0
    /\ pc[r] = "reading" => age[r] =< ReadLimit
    /\ Waiting(r) => age[r] =< Deadline(r)
    /\ server[r] = "running" => age[r] =< Deadline(r) + spent[r]
    /\ server[r] # "running" => spent[r] = 0

IInv == TypeOK /\ CallInv /\ EntryInv /\ ClockInv /\ AnswerInTime
=============================================================================
