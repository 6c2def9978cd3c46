--------------------------- MODULE ServiceProcess ---------------------------
(***************************************************************************)
(* The process of a Go service from its start to its end: the loop that    *)
(* dials RabbitMQ (connect of the broker and of the listener) or           *)
(* PostgreSQL (connectToDB of the authentication service), the HTTP server *)
(* with its shutdown (runHTTPServer), and the restart by Docker.  The mail *)
(* service and the front end dial nothing, the listener serves no HTTP;    *)
(* the logger has a module of its own, LoggerLifecycle.  Time is counted   *)
(* in seconds; what is due happens before the clock moves on.              *)
(***************************************************************************)
EXTENDS Integers

CONSTANTS
  MaxBackendChanges,   \* bound on changes of the service that is dialled
  MaxServerFaults,     \* bound on failures of the HTTP server's listener
  MaxSilence           \* bound on the seconds spent in handshakes that count

ASSUME BoundsAssumption ==
  MaxBackendChanges \in Nat /\ MaxServerFaults \in Nat /\ MaxSilence \in Nat

Services == {"broker", "listener", "authentication", "mail", "front-end"}
OverRabbit == {"broker", "listener"}
OverPostgres == {"authentication"}
OverHTTP == Services \ {"listener"}

VARIABLES
  service,      \* which of the services this is
  stage,        \* where its main goroutine is
  timer,        \* seconds left of the dial, the back-off or the drain
  code,         \* the exit status
  counts,       \* failed attempts of this process
  elapsed,      \* seconds this process has dialled, shaken hands, backed off
  silence,      \* those of them in which a handshake waited for RabbitMQ
  signalled,    \* docker stop: SIGTERM, and no restart
  busy,         \* an HTTP request is in flight
  linked,       \* the AMQP connection of this process is intact
  backend,      \* RabbitMQ or PostgreSQL; "silent" accepts and says nothing
  backendChanges, serverFaults

mainVars == <<stage, timer, code>>
clockVars == <<counts, elapsed, silence>>
restVars == <<clockVars, signalled, busy, linked>>
worldVars == <<service, backend, backendChanges, serverFaults>>
vars == <<mainVars, restVars, worldVars>>

Backends == {"up", "down", "silent"}
Connecting == {"looping", "dialling", "handshaking", "backoff"}
Running == Connecting \cup {"setup", "serving", "draining", "closing"}

FirstStage(s) ==
  IF s \in OverRabbit \cup OverPostgres THEN "looping" ELSE "serving"

Init ==
  /\ service \in Services
  /\ stage = FirstStage(service) /\ timer = 0 /\ code = 0
  /\ counts = 0 /\ elapsed = 0 /\ silence = 0
  /\ signalled = FALSE /\ busy = FALSE /\ linked = FALSE
  /\ backend \in Backends
  /\ backendChanges = 0 /\ serverFaults = 0

-----------------------------------------------------------------------------
(* Limits, in seconds, and the number of attempts *)

(* the Timeout of net.Dialer, the context of openDB's ping *)
DialLimit == 5

(* the context of Shutdown *)
DrainLimit == 10

OneAttemptMore == IF service \in OverRabbit THEN 6 ELSE 11

(* counts > 5, counts > 10 *)
MaxCounts == IF service \in OverRabbit THEN 5 ELSE 10

BackOffLinear(n) == IF service \in OverRabbit THEN n ELSE 2

(* after the n-th failure: its square, or two seconds *)
BackOff(n) == IF service \in OverRabbit THEN n * n ELSE 2

Goto(where, seconds) ==
  stage' = where /\ timer' = seconds /\ UNCHANGED code

Exit(status) ==
  stage' = "exited" /\ timer' = 0 /\ code' = status

-----------------------------------------------------------------------------
(* The loop of connect and connectToDB *)

(* The context is looked at before each attempt. *)
Loop ==
  /\ stage = "looping"
  /\ IF signalled THEN Exit(0) ELSE Goto("dialling", DialLimit)
  /\ UNCHANGED <<restVars, worldVars>>

(* The Dialer is content with a TCP connection; the AMQP handshake that    *)
(* follows is under neither its limit nor the context.                     *)
Dialled ==
  /\ stage = "dialling" /\ service \in OverRabbit /\ backend # "down"
  /\ Goto("handshaking", 0)
  /\ UNCHANGED <<restVars, worldVars>>

(* The ping of openDB is under its limit and the context to its end. *)
Connected ==
  /\ stage = IF service \in OverRabbit THEN "handshaking" ELSE "dialling"
  /\ backend = "up"
  /\ linked' = (service \in OverRabbit)
  /\ Goto(IF service = "listener" THEN "setup" ELSE "serving", 0)
  /\ UNCHANGED <<clockVars, signalled, busy, worldVars>>

(* A failed attempt: give up, or back off. *)
Failed ==
  /\ counts' = counts + 1
  /\ IF counts + 1 > MaxCounts THEN Exit(1) ELSE Goto("backoff", BackOff(counts + 1))
  /\ UNCHANGED <<elapsed, silence, signalled, busy, linked, worldVars>>

DialFails ==
  /\ stage = "dialling" /\ ~signalled
  /\ \/ backend = "down"
     \/ backend = "silent" /\ service \in OverPostgres /\ timer = 0
  /\ Failed

HandshakeFails ==
  /\ stage = "handshaking" /\ backend = "down"
  /\ Failed

(* A cancelled dial has failed with context.Canceled, be it the last one;  *)
(* main takes that for the end it was asked for.                           *)
DialCancelled ==
  /\ stage = "dialling" /\ signalled
  /\ Exit(0)
  /\ UNCHANGED <<restVars, worldVars>>

BackOffEnds ==
  /\ stage = "backoff"
  /\ \/ signalled /\ Exit(0)
     \/ timer = 0 /\ Goto("looping", 0)
  /\ UNCHANGED <<restVars, worldVars>>

-----------------------------------------------------------------------------
(* Serving *)

(* NewConsumer and the calls of Listen before its loop: each waits for the *)
(* answer of RabbitMQ, or for the end of the connection, and for no        *)
(* context.                                                                *)
SetUp ==
  /\ stage = "setup" /\ backend = "up" /\ linked
  /\ Goto("serving", 0)
  /\ UNCHANGED <<restVars, worldVars>>

SetUpFails ==
  /\ stage = "setup" /\ ~linked
  /\ Exit(1)
  /\ UNCHANGED <<restVars, worldVars>>

Accept ==
  /\ stage = "serving" /\ service \in OverHTTP /\ ~busy
  /\ busy' = TRUE
  /\ UNCHANGED <<mainVars, clockVars, signalled, linked, worldVars>>

Finish ==
  /\ stage \in {"serving", "draining"} /\ busy
  /\ busy' = FALSE
  /\ UNCHANGED <<mainVars, clockVars, signalled, linked, worldVars>>

(* ListenAndServe returns an error, and log.Fatal follows. *)
ServerFails ==
  /\ stage = "serving" /\ service \in OverHTTP
  /\ serverFaults < MaxServerFaults
  /\ serverFaults' = serverFaults + 1
  /\ Exit(1)
  /\ UNCHANGED <<restVars, service, backend, backendChanges>>

LinkIgnored ==
  /\ stage = "serving" /\ service = "listener" /\ ~linked /\ signalled
  /\ Exit(0)
  /\ UNCHANGED <<restVars, worldVars>>

(* The listener's channel of deliveries is closed with its connection:     *)
(* Listen returns an error, and log.Fatal follows, unless the context is   *)
(* done as well.  The broker goes on without RabbitMQ.                     *)
LinkLost ==
  /\ stage = "serving" /\ service = "listener" /\ ~linked
  /\ Exit(IF signalled THEN 0 ELSE 1)
  /\ UNCHANGED <<restVars, worldVars>>

(* The context is done: Listen cancels its consumer, runHTTPServer shuts   *)
(* down.                                                                   *)
ShutDown ==
  /\ stage = "serving" /\ signalled
  /\ IF service \in OverHTTP THEN Goto("draining", DrainLimit)
                            ELSE Goto("closing", 0)
  /\ UNCHANGED <<restVars, worldVars>>

Drained ==
  /\ stage = "draining" /\ ~busy
  /\ IF service \in OverRabbit THEN Goto("closing", 0) ELSE Exit(0)
  /\ UNCHANGED <<restVars, worldVars>>

(* ch.Cancel and the deferred Close of the channel and of the connection   *)
(* are calls too.  Their errors change nothing.                            *)
Closes ==
  /\ stage = "closing" /\ (backend = "up" \/ ~linked)
  /\ Exit(0)
  /\ UNCHANGED <<restVars, worldVars>>

DrainForgiven ==
  /\ stage = "draining" /\ busy /\ timer = 0
  /\ Exit(0)
  /\ UNCHANGED <<restVars, worldVars>>

ShutdownUnbounded ==
  /\ stage = "draining" /\ ~busy /\ timer = 0
  /\ Exit(1)
  /\ UNCHANGED <<restVars, worldVars>>

(* Shutdown reports its expired context, and log.Fatal follows. *)
DrainTimeout ==
  /\ stage = "draining" /\ busy /\ timer = 0
  /\ Exit(1)
  /\ UNCHANGED <<restVars, worldVars>>

-----------------------------------------------------------------------------
(* Docker, the service that is dialled, and the clock *)

Signal ==
  /\ stage \in Running /\ ~signalled
  /\ signalled' = TRUE
  /\ UNCHANGED <<mainVars, clockVars, busy, linked, worldVars>>

(* docker stop runs out of patience. *)
Kill ==
  /\ stage \in Running /\ signalled
  /\ Exit(137)
  /\ UNCHANGED <<restVars, worldVars>>

(* restart: unless-stopped, whatever the exit status *)
Restart ==
  /\ stage = "exited" /\ ~signalled
  /\ stage' = FirstStage(service) /\ timer' = 0 /\ code' = 0
  /\ counts' = 0 /\ elapsed' = 0 /\ silence' = 0
  /\ busy' = FALSE /\ linked' = FALSE
  /\ UNCHANGED <<signalled, worldVars>>

BackendChanges ==
  /\ backendChanges < MaxBackendChanges
  /\ backendChanges' = backendChanges + 1
  /\ backend' \in Backends \ {backend}
  /\ linked' \in {FALSE, linked /\ backend' # "down"}
  /\ UNCHANGED <<mainVars, clockVars, signalled, busy, service, serverFaults>>

(* Heartbeats that are missing end a connection, once it is established.   *)
HeartbeatFails ==
  /\ linked /\ backend = "silent"
  /\ linked' = FALSE
  /\ UNCHANGED <<mainVars, clockVars, signalled, busy, worldVars>>

(* Nothing is due while a handshake waits.                                 *)
Silence ==
  /\ stage = "handshaking" /\ backend = "silent" /\ silence < MaxSilence
  /\ silence' = silence + 1 /\ elapsed' = elapsed + 1
  /\ UNCHANGED <<mainVars, counts, signalled, busy, linked, worldVars>>

Tick ==
  /\ timer > 0
  /\ stage # "draining" => ~signalled
  /\ timer' = timer - 1
  /\ elapsed' = IF stage \in Connecting THEN elapsed + 1 ELSE elapsed
  /\ UNCHANGED <<stage, code, counts, silence, signalled, busy, linked, worldVars>>

Proceed ==
  \/ Loop \/ Dialled \/ Connected \/ DialFails \/ HandshakeFails
  \/ DialCancelled \/ BackOffEnds
  \/ SetUp \/ SetUpFails \/ LinkLost
  \/ ShutDown \/ Drained \/ DrainTimeout \/ Closes

Next ==
  \/ Proceed
  \/ Accept \/ Finish \/ ServerFails
  \/ Signal \/ Kill \/ Restart \/ BackendChanges \/ HeartbeatFails
  \/ Silence \/ Tick

Spec == Init /\ [][Next]_vars

(* The goroutine runs, time passes, Docker restarts what it must, and the  *)
(* AMQP library's heartbeats notice a dead connection.  No request is owed *)
(* an end, and no SIGKILL or RabbitMQ that comes back.                     *)
Fairness ==
  WF_vars(Proceed) /\ WF_vars(Tick) /\ WF_vars(Restart) /\ WF_vars(HeartbeatFails)

FairSpec == Spec /\ Fairness

-----------------------------------------------------------------------------
(* Properties *)

TypeOK ==
  /\ service \in Services
  /\ stage \in Running \cup {"exited"}
  /\ timer \in 0..25
  /\ code \in {0, 1, 137}
  /\ counts \in 0..(MaxCounts + 1)
  /\ elapsed \in Nat /\ silence \in 0..MaxSilence
  /\ signalled \in BOOLEAN /\ busy \in BOOLEAN /\ linked \in BOOLEAN
  /\ backend \in Backends
  /\ backendChanges \in 0..MaxBackendChanges
  /\ serverFaults \in 0..MaxServerFaults

Patience == IF service \in OverRabbit THEN 55 ELSE 20

(* A service that gives up dialling has tried for a while, even if every   *)
(* attempt was refused at once: 1 + 4 + 9 + 16 + 25 seconds for RabbitMQ,  *)
(* twenty for PostgreSQL.  A shorter restart of either is ridden out.      *)
GivesUpLate ==
  [][stage' = "exited" /\ stage \in Connecting /\ code' = 1 =>
       elapsed >= Patience]_vars

(* A service still dials when the twentieth probe of compose's health      *)
(* check fails, and ends the start of all that depends on it, only if      *)
(* RabbitMQ has kept its handshakes waiting for fifteen seconds: attempts  *)
(* that take their full limit and the back-offs between them leave that    *)
(* much.  (The check probes the broker and the authentication service; the *)
(* listener runs the same loop.)                                           *)
OutlastsHealthCheck ==
  stage \in Connecting /\ elapsed >= 20 * 5 => silence >= 15

(* The exit status is 0 only for a process that was asked to end and has   *)
(* answered every request it took.                                         *)
CleanExit ==
  stage = "exited" /\ code = 0 => signalled /\ ~busy

(* SIGTERM ends the process by itself, wherever it is: in a dial, in a     *)
(* back-off of 25 seconds, behind a request that does not end, in the      *)
(* calls that open and close its connection.  Only a RabbitMQ that accepts *)
(* connections and says nothing can hold it, as long as it shakes hands.   *)
StopsWhenAsked ==
  signalled ~> \/ stage = "exited"
               \/ stage = "handshaking" /\ backend = "silent"

(* Once what it dials stays up, a service that is not stopped serves for   *)
(* good; the listener does so on a connection that is intact.              *)
ServesAgain ==
  <>[](backend = "up" /\ ~signalled)
    => <>[](stage = "serving" /\ (service = "listener" => linked))

-----------------------------------------------------------------------------
(* The inductive invariant behind GivesUpLate, OutlastsHealthCheck and     *)
(* CleanExit                                                               *)

(* The seconds of the first n back-offs: 1 + 4 + ... + n * n, or 2 * n. *)
BackedOff(n) ==
  IF service \in OverRabbit THEN (n * (n + 1) * (2 * n + 1)) \div 6 ELSE 2 * n

(* After counts failures, the back-offs are behind the process and, of the *)
(* dials, at most what their limit allows and the handshakes have cost;    *)
(* what the timer has left is yet to come.                                 *)
ClockInv ==
  /\ stage \in {"looping", "handshaking"} => timer = 0
  /\ stage \in Connecting => counts =< MaxCounts
  /\ stage \in Connecting \ {"backoff"} => BackedOff(counts) =< elapsed
  /\ stage = "backoff" => BackedOff(counts) =< elapsed + timer
  /\ stage \in {"looping", "backoff"} =>
       elapsed + timer =< BackedOff(counts) + DialLimit * counts + silence
  /\ stage \in {"dialling", "handshaking"} =>
       elapsed + timer =< BackedOff(counts) + DialLimit * (counts + 1) + silence

(* Only a service that serves takes requests; only a stopped one drains. *)
ServerInv ==
  /\ busy => service \in OverHTTP /\ stage \notin Connecting \cup {"closing"}
  /\ stage \in {"draining", "closing"} => signalled

IInv == TypeOK /\ ClockInv /\ ServerInv /\ CleanExit
=============================================================================
