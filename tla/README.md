# Verification of the microservices lab

TLA+ models of the services in this repository, checked with TLC, and theorems
about them proved with TLAPS. File names below are relative to the repository.

## The system

| Component | State it keeps | Operations | Talks to |
| --- | --- | --- | --- |
| broker-service | one RabbitMQ connection, dialled at start-up | `POST /handle` (auth, log, mail, log-event, log-via-rpc), `POST /log-grpc` | all services below |
| listener-service | connection, channel, exclusive queue; the delivery at hand | select loop over deliveries and the cancelled context | RabbitMQ, `POST /log` of the logger |
| logger-service | MongoDB client; three servers (HTTP, net/rpc, gRPC) | `WriteLog`, `LogInfo`, gRPC `WriteLog` | MongoDB |
| authentication-service | PostgreSQL pool | `POST /authenticate` | PostgreSQL, `POST /log` |
| mail-service | SMTP settings | `POST /send` | SMTP server |
| front-end | none | renders one page | (browser calls the broker) |
| RabbitMQ, MongoDB, PostgreSQL | external | | |

All services share two patterns: `runHTTPServer` (serve until the context is
cancelled, then `Shutdown` for at most 10 s) and a connect loop with a counter
and a back-off. Docker restarts whatever exits.

What is hard here: the asynchronous log-event path (three processes, a queue
that dies with its consumer, retries, and two systems, RabbitMQ and MongoDB,
that are not updated together); time limits that do not nest (a 10 s client in
front of a 15 s insert); shutdown in the middle of all of this; one connection
shared by concurrent requests.

What makes each component correct:

- listener: nothing is acknowledged before it is logged; order is kept across
  retries; duplicates only where the outcome of an insert could not be known (an
  answer missed, or an error that MongoDB's work may hide behind); a logger
  outage is survived; SIGTERM ends it.
- log-event submissions: 202 means RabbitMQ routed the event unless the
  connection broke; 400 and 502 mean it never will; no channel leaks; every
  submission is answered.
- end to end: what an answer of the broker implies about MongoDB.
- synchronous transports: 202 means stored, on every transport; one document at
  most; what 502 leaves open is settled within known limits.
- logger process: a signal or one failed server ends it; HTTP and gRPC requests
  are drained first; the exit status is honest.
- login: accepted only if valid while it was pending, never without its log
  entry, never refused with one.
- mail: 202 means the SMTP server took it; never sent twice; until when a send
  can begin.
- every process: it rides out a restart of what it dials, outlasts its health
  check only behind a silent handshake, ends when it is told to with a status that
  says how, and serves again.
- all submissions: what an answer lets the client conclude about the effect.

## Modules

| Module | What it is |
| --- | --- |
| `EventLog` | abstract promise: a line of events, written and settled from the front, at least once, possibly discarded as a whole |
| `EventConsumer` | RabbitMQ's queue, the listener process, the logger's `/log` handler and MongoDB |
| `EventEmitter` | concurrent log-event submissions in the broker on the shared AMQP connection |
| `EventPipeline` | both composed: routing a frame is the event's arrival |
| `LogTransports` | a log entry over HTTP, net/rpc or gRPC, with its time limits |
| `LoggerLifecycle` | the logger's start, its three servers, their errors, the shutdown |
| `Authentication` | broker, authentication service, account and log entry of a login |
| `MailDelivery` | broker, mail service and SMTP server of a mail |
| `Submission` | abstract promise: what the broker's answer to a submission says about its effect |
| `ServiceProcess` | the process of the broker, the listener, the authentication and the mail service, and the front end: dial loop, HTTP server, shutdown, restart |
| `*Proofs` | theorems about the module of that name, with their TLAPS proofs (eight modules: all but the two abstract ones have one) |
| `MC*` | the constants' values for TLC |

An operator whose comment or name calls it a slip, or that stands directly
before the operator it varies (`PrefetchTwo`, `RequeuedLast`, `PostEnds`,
`CloseReported`, `LogFirst`, ...), is a plausible mistake: replacing the real definition
by it must violate a property, which is how the properties themselves are
tested. No specification uses them.

### EventConsumer

| Model | Code |
| --- | --- |
| `Connect`, `DeclareQueue`, `BindQueue`, `Consume` | `listener-service/main.go` `main`, `event/consumer.go` `NewConsumer`, `Listen` up to line 91 |
| `stage` "listening" | the select of `Listen`; "posting": inside `logEvent`; "backoff": inside `waitBeforeRetry` |
| `Deliver`, `Arrive`, `Settled`, `Requeued`, `QueueDeleted` | RabbitMQ, configured by `Qos(1)`, `QueueBind`, the exclusive queue |
| `RejectMalformed`, `AckAuth`, `Post`, `PostSucceeds`, `PostFails`, `BackoffEnds` | `handleDelivery`, `handlePayload`, `logEvent`, `waitBeforeRetry` |
| `Unanswered` | the 10 s deadline, the cancelled context, a logger that stopped under the request |
| `ShutDown`, `ExitClosed`, `Terminate`, `LinkLost`, `Crash` | the ends of the process, and `log.Fatal` |
| `WriteLog`, `InsertFails`, `OrphanEnds` | `logger-service/cmd/api/handlers.go`, `data/models.go` `Insert` (its context is its own, so it outlives the caller) |

Payloads are reduced to the four kinds the code distinguishes. `arrived`,
`outcome`, `posted` and `unsure` are history: what became of an event, and how
many requests ended without the listener knowing whether their document exists:
their answer was missed, or the logger answered the error of an insert. `Insert`
returns any error of its 15 s, also a lost reply of an insert MongoDB has applied,
so `InsertFails` leaves the document to `OrphanEnds`, like a handler nobody waits
for. A connection can be lost and the process can
crash at any point; because the queue is exclusive, both discard it.

Bounds: `MaxLoggerFaults` bounds logger stops, insert errors and timeouts,
`MaxListenerFaults` bounds SIGTERMs, crashes and lost connections. The safety
run has two faults of the first sort and one of the second, the liveness run
three and one: a timed-out request and the loss of the queue together let a late
write of the first event meet the second event's delivery on a new queue. One
failing event circulates without any bound, since a retry costs no fault.

### EventEmitter

`pc[e]` walks through `Submit` (validation), `OpenChannel`, `DeclareExchange`
(with the deferred `Close`), `OpenChannel` again, `Publish` and `CloseChannel`
(the deferred `Close` of `Push`). `conn` is "broken" between the loss of the
connection and the moment the library notices: a publish then still succeeds.
`wire` holds frames RabbitMQ has not processed. The bounds are the number of
submissions, `ChannelMax` (chosen below the number of submissions so that the
limit is hit) and `MaxBrokerFaults`.

### EventPipeline

The two components share no variable. `RouteAndArrive(e)` is the joint step:
RabbitMQ takes the frame from the publisher's connection and puts the event on
the listener's queue, or nowhere when no queue is bound. Malformed events are
excluded: the broker marshals what it publishes. The run has an ordinary event
and one that makes the logger fail for ever, behind which the other may starve
(`Consumer!Blocked`, the exception of `SubmittedIsLogged`); with an event named
auth as well TLC does not finish in minutes, so what `AcceptedIsAccounted` says of
such an event is shown by its theorem and, for the consuming half, by
`consumer_safety`.

### LogTransports

`pc[r]` is "reading" while `readJSON` waits for the body, then "dialling" and
"calling" in `Log`, `LogViaRPC` or `LogViaGRPC`; `server[r]` is the logger's handler
for it (`WriteLog`, `LogInfo`, the gRPC `WriteLog`). `age` counts seconds from the end
of the request's header, as `WriteTimeout` does; `began` is the age at which the
body was complete, from which the limits of the call count; `spent` are seconds of
the logger's handler. The limits are those of the code: 10 s for the body
(`ReadTimeout`) and for the answer (`WriteTimeout`), 10 s for the HTTP client, 3 s for
RPC and gRPC, 15 s for the insert, which is on no caller's context (and which is a
limit of MongoDB's driver, not of its server). A limit that is reached fires before
the clock moves, so `Tick` waits for it. `Answer` reaches the client only before
`WriteLimit`. Three consequences: the HTTP client's limit never ends before the
broker's own, so the 502 for its expiry cannot be read; an RPC or gRPC answer is
lost behind a body that took seven seconds or more (both `AnswerInTime`); and a 502,
or no answer, may be followed by the entry, at most 15 s after the handler began
(`LateEntriesBounded`). A client of the broker that hangs up is not modelled:
nobody sees its answer.
Submissions share only the logger's presence, which may change at any moment,
so a run with one of them shows what any of several can meet.

### LoggerLifecycle

`main` starts with the one ping of MongoDB (`Connected`, `PingFails`) and the
ports (`Open`, `ListenFails`). `server[s]` is where the goroutine of a server is, `cause[s]` why it ends,
`errCh` the buffered channel, `code` the exit status. A request of
net/rpc is served by a goroutine nobody waits for, also after its listener is
closed; HTTP (`Shutdown`) and gRPC (`GracefulStop`) drain for at most 10 s.
`Killed` is the second signal after `stop()`, or Docker's SIGKILL, whose ten
seconds are those of the drains. Bounds: two requests; three failures, one for
every server, which the size of the channel is about.

### Authentication

`step[r]` walks through `Authenticate` of the service (read, check, log);
`reply[r]` is its status, `answer[r]` the broker's. The account changes at any
moment, by the statements of `data/models.go` (`Update`, `ResetPassword`,
`Delete`, `InsertUser`), which no handler makes. A read that fails because the row is
missing or PostgreSQL is out is answered 401, as in the code. A broker that
gave up does not stop the handler. A 200 whose body is cut off is answered 400
(`RelayCut`): `EntriesFitAnswers` says what that leaves behind, an accepted login
that was logged. Bounds: two logins, three changes, one stop.

### MailDelivery

`step[r]` walks through `SendSMTPMessage` ("connecting", "sending"), `reply[r]` is
the mail service's status, `answer[r]` the broker's, `exchange[r]` what becomes of
the exchange with the SMTP server. The mail library runs that exchange in a
goroutine and lets its caller wait for `SendTimeout`; what is left behind then has
no deadline and is not cancelled. So the exchange is modelled apart from the
handler: `Fails` ends the handler alone, and `Taken` may come at any time while the
exchange is open, after the handler, its process or the broker has given up. Nor is
the handler's return owed after `SendTimeout`, since the library closes the client
before it returns. What the code does bound is the beginning: ten seconds of the
broker's client until the handler runs and ten of `ConnectTimeout`
(`SendsBeginInTime`); how late a mail is taken, it does not. The broker answers in
any case, on its client's ten seconds; those are its own `WriteTimeout` as well, so
that the 502 of that limit is produced but, as over HTTP above, cannot be read. As in
`LogTransports`, a limit that is reached fires before the clock moves on, and one
submission meets all that several would. The service's own validation is not
modelled: the broker has made the same check before it.

### Submission

`answer` and `effect` of each submission, and four steps: accept what has taken
effect, refuse what has not and never will, answer with a doubt, take effect
once. The modules map to it as follows:

| Module | effect | "yes" | "no" | "unsure" |
| --- | --- | --- | --- | --- |
| `LogTransports` | documents | 202 | 400 | 502, or no answer that could be read |
| `Authentication` | entries in the log | 202 | 401, or 400 for a blank field | 502, or 400 for a reply cut short |
| `MailDelivery` | mails taken | 202 | 400 | 502 |
| `EventEmitter` | events routed | 202 | 400, 502 | 202 on a connection that broke |

The last line is why 502 may be answered by a retry there and nowhere else.

### ServiceProcess

| Model | Code |
| --- | --- |
| `Loop`, `Dialled`, `Connected`, `DialFails`, `HandshakeFails`, `DialCancelled`, `BackOffEnds` | `connect` (broker, listener), `connectToDB` and `openDB` (authentication) |
| `Failed`, `MaxCounts`, `BackOff` | their counter and back-off |
| `ServerFails`, `ShutDown`, `Drained`, `DrainTimeout` | `runHTTPServer`, and the `log.Fatal` after it |
| `SetUp`, `SetUpFails` | the listener's calls from `NewConsumer` to `Consume`, and `log.Fatal` |
| `LinkLost` | the closed channel of deliveries in `Listen` |
| `Closes` | `ch.Cancel` and the deferred `Close` of channel and connection |
| `Exit` | `return` (0), `os.Exit(1)` and `log.Fatal` (1) in `main` |
| `Restart` | `restart: unless-stopped` in `project/docker-compose.yml` |

`service` is chosen initially, so that the run covers the five processes.
`backend` is what the process dials: "down" refuses or does not answer, "silent"
accepts a TCP connection and nothing more. `net.Dialer` ends with that
connection, hence the two stages of an AMQP dial: the library sets no deadline
for the handshake when it is given a `Dial` function of its own, so "handshaking"
has no limit and does not see the context. The calls on an established connection
("setup", "closing") see no context either, but a connection that stays silent is
ended by its heartbeats (`HeartbeatFails`). `elapsed` counts the seconds of dials,
handshakes and back-offs, `silence` those of the handshakes alone. A handshake
that nobody answers holds the process for ever: that is the one exception of
`StopsWhenAsked`, and `OutlastsHealthCheck` says how much of it the health check
notices. Of the processes that dial, compose probes the broker and the
authentication service.

Bounds: two changes of the backend (up, down and up again, from any first state),
one failure of the HTTP server, sixteen counted seconds of silence (`MaxSilence`:
one more than it takes to outlast the health check). The clock is bounded by the
counter and by `MaxSilence`.

## Runs

| Run | Shows |
| --- | --- |
| `consumer_safety` | type invariant, `LoggedBeforeAcked`, `CopiesBounded`, `InArrivalOrder`, `NoOvertaking`, and that `EventConsumer` implements `EventLog` |
| `consumer_live` | queued events leave the queue unless a failing one circulates before them; what `scripts/verify-phase-4.sh` tests once: events queued during an outage of the logger are logged (`RetriedUntilLogged`); SIGTERM ends the listener, whatever circulates |
| `consumer_auth` | violated: an event named "auth" is acknowledged without being logged |
| `emitter` | no channel leaks (`ChannelsReleased`); every submission is answered; `Submission` is implemented: 202 means routed unless the connection broke, 400 and 502 mean never |
| `emitter_reconnects` | violated: the broker never regains a lost connection |
| `pipeline` | `RefusedNeverLogged`, `AcceptedIsAccounted`; a submission made while the queue is bound ends in MongoDB, in a 502, with a connection, or waits behind an event that makes the logger fail (`SubmittedIsLogged`) |
| `pipeline_accepts` | violated: an event accepted before the queue is bound is never logged |
| `transports` | which answers can be read (`AnswerInTime`), when late entries come (`LateEntriesBounded`); the limits alone end every submission; `Submission` is implemented: 202 is behind a document, one document at most |
| `lifecycle` | `DrainedBeforeExit`, `HonestStatus`; a signal and a failed server end the process |
| `authentication` | `LoginWasValid`, `EntriesFitAnswers`; `Submission` is implemented: an accepted login has its one entry in the log |
| `mail` | `Submission` is implemented; a send begins within twenty seconds or never (`SendsBeginInTime`); the limits alone answer every submission |
| `service_process` | dialling lasts at least 55 s, 20 s for PostgreSQL, before it is given up (`GivesUpLate`), and the 100 s of the health check only with fifteen of silence among them (`OutlastsHealthCheck`); `CleanExit`; SIGTERM ends the process (`StopsWhenAsked`); it serves for good once what it dials stays up (`ServesAgain`) |

`CHECK_DEADLOCK FALSE` is set because a finite set of events is published once:
when all are settled and the fault budgets are used up, the system is idle.

### Fairness

RabbitMQ delivers what it may deliver, a running handler and a timer proceed,
heartbeats find a broken connection, and a stopped logger is started again
(`restart: unless-stopped`, or the script's `start`). No fault is fair, and a
listener that was stopped need not come back. `ShutDown` has strong fairness:
Go's select chooses at random among ready cases, so the `ctx.Done()` case, which
stays ready, cannot be passed over for ever; weak fairness is not enough, since
the case is not on offer while a delivery is being handled. The publisher's
handlers are goroutines of their own, hence fairness for each. In `LogTransports`
and `MailDelivery` only time passes and timers fire (`SendTimeout` not among them);
in `ServiceProcess` the main goroutine proceeds, time passes, the heartbeats of a
silent connection fail and Docker restarts what was not stopped, and neither a
request nor RabbitMQ owes anything; in `LoggerLifecycle` goroutines proceed and drains
time out, and no request owes an end. The composition
adds that compose starts the listener, so that the violation of
`AcceptedIsLogged` is not the listener's absence.

## Proofs

Every safety property that a passing run checks, and every refinement, is also a
theorem: TLC shows it on the instance of the run, TLAPS for every value of the
constants. Liveness stays with TLC.

| Module | Theorems | Hold for |
| --- | --- | --- |
| `EventConsumerProofs` | `TypeCorrect`, `AckedEventsAreLogged`, `DuplicatesAreExplained`, `QueueKeepsOrder` (`InArrivalOrder`), `NoneOvertakes` (`NoOvertaking`), `ListenerImplementsEventLog` | any events of any kinds, any fault bounds |
| `EventEmitterProofs` | `TypeCorrect`, `ChannelsAreReleased`, `EmitterKeepsPromise` | any set of submissions, finite or not, any channel limit, any fault bound |
| `EventPipelineProofs` | `PublisherAsAlone`, `ConsumerAsAlone`, `RefusedAreNeverLogged`, `AcceptedAreAccounted` | any events the broker can marshal, any bounds |
| `LogTransportsProofs` | `TypeCorrect`, `AnswersComeInTime`, `LateEntriesAreBounded`, `TransportsKeepPromise` | any submissions, any number of logger stops; the limits are the code's |
| `LoggerLifecycleProofs` | `TypeCorrect`, `ReportsFindRoom`, `DrainsBeforeExit`, `StatusIsHonest` | any requests, any number of failures |
| `AuthenticationProofs` | `TypeCorrect`, `LoginsAreValid`, `EntriesFit`, `LoginKeepsPromise` | any logins and passwords, any number of changes and stops |
| `MailDeliveryProofs` | `TypeCorrect`, `SendsAreBegunInTime`, `MailKeepsPromise` | any submissions, any number of stops |
| `ServiceProcessProofs` | `TypeCorrect`, `NeverGivesUpEarly`, `OnlySilenceOutlasts`, `CleanExitMeansClean` | the five services, any number of changes of what they dial |

The assumptions are the named `ASSUME`s of the modules: bounds are natural
numbers, `None`, `Blank` and `NoAccount` are not members of the sets they stand
outside of, `Kind` gives every event one of the four kinds, and, in the pipeline
only, no event is malformed (`MarshalAssumption`: the broker publishes what
`json.Marshal` returned). TLC evaluates them in every run.

All of them rest on one theorem per module, `Invariance`: `Spec => []IInv`, with
`IInv` at the end of the module itself. The step of its proof has a lemma per
conjunct and under it a step per action. None of the properties is inductive by
itself:

- `EventConsumer`. `AttemptInv` ties the request to the delivery (a 202 is behind
  a document, the event being posted is the head of the inbox); `QueueInv` says
  that RabbitMQ holds queued events only and each once, without which
  acknowledging an event might leave a second delivery of it behind; `CopiesInv`
  counts handlers that nobody waits for, and failed inserts that may yet prove
  applied, along with the documents, and names the
  one document an event is entitled to. For the order, `ArrivedInv` says that an
  event arrives once, and `PostedInv` that nothing which arrived before a posted
  event waits any more: that one, not the queue, is what holds an orphaned
  handler back from overtaking. The order itself is proved from five ways in which
  `Pending` can change (`LineStep`: one joins, one passes, the first leaves, all
  are dropped, nothing), so that the cases on actions are made once.
  `InArrivalOrder` is stated by index (`Before`), because the filter that would
  say it in a word is defined by recursion.
- `EventEmitter`. `ChannelInv` counts the handlers that hold a channel
  (`Holders`) and needs that they are finitely many; `WireInv` and `CallInv` say
  what has become of an event by the step its handler is at, without which the
  close of a channel would not show that its frame was routed.
- `EventPipeline`. Each half implements its own module (`PublisherAsAlone`,
  `ConsumerAsAlone`), so both `IInv`s hold in the composition without a proof of
  their steps. `RoutedInv` alone ties them together: what has been routed has
  arrived, at the queue or at none. The lemmas `PublisherIsOne` and
  `ConsumerIsOne` identify the instances of `EventPipeline` with those of the
  proof modules. A refused event was never routed, so it never arrived, so it was
  never posted, so nothing wrote it: each link belongs to another process.
- `LogTransports`, `Authentication`, `MailDelivery`. `CallInv` relates the
  broker's handler to the service's, `EntryInv` and `MailboxInv` the service's
  to what is stored or sent, `ClockInv` the age of a request to the limit that
  runs; `ValidInv` carries the moment at which a login was valid from the read of
  the account to the answer.
- `LoggerLifecycle`. `ReportInv`: only a server that went wrong reports, and
  returns then. With "no server reports twice" it gives `ReportsFindRoom`: the
  send on `errCh` never blocks although `main` reads one error at most, so
  `wg.Wait()` is not held up. `StatusInv` is what `main` knows at each stage,
  `DrainInv` that an unfinished request of HTTP or gRPC outlives its server only
  if the server failed or its drain ran out.
- `ServiceProcess`. `ClockInv` puts the seconds spent between the sum of the
  back-offs so far (`BackedOff`) and that sum plus the limits of the dials;
  and the silent handshakes; `GivesUpLate` is the lower end, `OutlastsHealthCheck`
  the upper.

The refinements (`EventLog`, and `Submission` four times) are proved from the
same invariants: initial states map to initial states, and every step maps to a
step of the abstract specification or to a stutter, one lemma per kind of step.

Left to TLC: the liveness properties (`EverySubmissionAnswered`,
`SubmittedIsLogged`, `QueuedIsSettled`, `RetriedUntilLogged`, `ListenerStops`,
`SignalEndsLogger`, `FailureEndsLogger`, `StopsWhenAsked`, `ServesAgain`), since
fairness is `ENABLED` in disguise and the prover does not reason about it; and
the three properties that the code violates. Safety theorems are about `Spec`
and hold for `FairSpec` with it.

## Plan

1. Further consequences in the composition: what `NoOvertaking` says of events
   in the order their 202s were sent.
2. The non-temporal parts of the liveness arguments (which step is possible
   while a promise is open), as lemmas next to what TLC checks.
3. The order of start-up in the compose file (`depends_on`, health checks).

## Not modelled

The rendering of pages and mails, telemetry and trace propagation (no behaviour
depends on them), generated protobuf code, and the queries of the data packages
that no handler calls (of those that write, the authentication service's are the
changes of an account, the logger's are left out). The order in which compose
starts the containers. Except in `LogTransports`, `MailDelivery` and
`ServiceProcess`, time is not measured: a limit is an action that may happen while
the limited operation runs.
