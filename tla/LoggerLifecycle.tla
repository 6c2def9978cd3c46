-------------------------- MODULE LoggerLifecycle --------------------------
(***************************************************************************)
(* The life of a logger process (logger-service/cmd/api/main.go and        *)
(* grpc.go): the ping of MongoDB, the goroutines that run its three        *)
(* servers, the channel of their errors, the wait group, the cancelled     *)
(* context, and the requests in flight.  SIGTERM and the failure of any    *)
(* server end the process; each server winds down in its own way.          *)
(***************************************************************************)
EXTENDS Integers, Sequences

CONSTANTS
  Requests,         \* requests of other services
  MaxServerFaults   \* bound on failures of Accept

ASSUME FaultsAssumption == MaxServerFaults \in Nat

Servers == {"http", "rpc", "grpc"}

VARIABLES
  signalled,    \* history: SIGTERM or an interrupt arrived
  ctxDone,      \* the context is cancelled, by a signal or by stop()
  server,       \* server[s]: where the goroutine running s is
  cause,        \* cause[s]: why s ended or will end, "none" for no error
  errCh,        \* the buffered channel of errors
  main,         \* where the main goroutine is
  code,         \* the exit status, once main has settled on one
  connected,    \* the MongoDB client
  at,           \* at[r]: what became of request r
  via,          \* via[r]: the server that took it
  serverFaults

processVars == <<signalled, ctxDone, main, code, connected>>
serverVars == <<server, cause, errCh>>
requestVars == <<at, via>>
vars == <<processVars, serverVars, requestVars, serverFaults>>

ErrChTwo == 2

(* errCh := make(chan error, 3) *)
ErrChCapacity == 3

(* "waiting": in wg.Wait(), or in the Disconnect that follows *)
MainStages == {"pinging", "opening", "select", "waiting", "exited"}

(* "draining": http.Server.Shutdown or GracefulStop; "sending": at the     *)
(* statement errCh <- err; "returned": wg.Done() ran                       *)
ServerStates == {"unopened", "serving", "draining", "sending", "returned"}

Init ==
  /\ signalled = FALSE /\ ctxDone = FALSE
  /\ server = [s \in Servers |-> "unopened"]
  /\ cause = [s \in Servers |-> "none"]
  /\ errCh = <<>>
  /\ main = "pinging" /\ code = 0 /\ connected = FALSE
  /\ at = [r \in Requests |-> "away"]
  /\ via = [r \in Requests |-> "http"]
  /\ serverFaults = 0

Running(s) == \E r \in Requests : at[r] = "running" /\ via[r] = s

-----------------------------------------------------------------------------
(* Start-up: connectToMongo, the listeners of RPC and gRPC, the goroutines *)

Connected ==
  /\ main = "pinging"
  /\ main' = "opening" /\ connected' = TRUE
  /\ UNCHANGED <<signalled, ctxDone, code, serverVars, requestVars, serverFaults>>

(* One attempt, which log.Fatal follows; one that the signal cancelled is  *)
(* a clean end.                                                            *)
PingFails ==
  /\ main = "pinging"
  /\ main' = "exited"
  /\ \/ code' = 1
     \/ ctxDone /\ code' = 0
  /\ UNCHANGED <<signalled, ctxDone, connected, serverVars, requestVars, serverFaults>>

(* A signal that came before finds the servers all the same. *)
Open ==
  /\ main = "opening"
  /\ main' = "select"
  /\ server' = [s \in Servers |-> "serving"]
  /\ UNCHANGED <<signalled, ctxDone, code, connected, cause, errCh, requestVars, serverFaults>>

ListenFails(s) ==
  /\ main = "opening" /\ s # "http"
  /\ serverFaults < MaxServerFaults
  /\ serverFaults' = serverFaults + 1
  /\ cause' = [cause EXCEPT ![s] = "failed"]
  /\ main' = "exited" /\ code' = 1
  /\ UNCHANGED <<signalled, ctxDone, connected, server, errCh, requestVars>>

-----------------------------------------------------------------------------
(* Requests.  An exit of the process takes every goroutine with it.        *)

(* HTTP and gRPC take no new request once they drain; a client of net/rpc  *)
(* keeps its connection after the listener is closed, and may call again.  *)
Accept(r, s) ==
  /\ main \in {"select", "waiting"} /\ at[r] = "away"
  /\ server[s] = "serving" \/ s = "rpc"
  /\ at' = [at EXCEPT ![r] = "running"]
  /\ via' = [via EXCEPT ![r] = s]
  /\ UNCHANGED <<processVars, serverVars, serverFaults>>

(* Disconnect waits for operations that run, then fails the others. *)
Finish(r) ==
  /\ main # "exited" /\ at[r] = "running"
  /\ \E how \in IF connected THEN {"answered"} ELSE {"answered", "refused"} :
       at' = [at EXCEPT ![r] = how]
  /\ UNCHANGED <<via, processVars, serverVars, serverFaults>>

-----------------------------------------------------------------------------
(* The goroutines of the servers *)

(* Up to stop() a signal cancels the context, and a second one is ignored. *)
Signal ==
  /\ main \in {"pinging", "opening", "select"} /\ ~signalled
  /\ signalled' = TRUE /\ ctxDone' = TRUE
  /\ UNCHANGED <<main, code, connected, serverVars, requestVars, serverFaults>>

(* stop() restores what a signal does by default; and Docker follows its   *)
(* SIGTERM with a SIGKILL after ten seconds, as long as a drain may take.  *)
Killed ==
  /\ main = "waiting"
  /\ signalled' = TRUE
  /\ main' = "exited" /\ code' = 137
  /\ UNCHANGED <<ctxDone, connected, serverVars, requestVars, serverFaults>>

(* Accept fails.  With the context done, RPC and gRPC take that for the    *)
(* closed listener and return nil; HTTP reports any error of its own, and  *)
(* may drain first, when its select finds the context done as well.        *)
Fail(s) ==
  /\ main # "exited" /\ server[s] = "serving"
  /\ serverFaults < MaxServerFaults
  /\ serverFaults' = serverFaults + 1
  /\ \E next \in IF ~ctxDone THEN {"sending"}
                 ELSE IF s = "http" THEN {"sending", "draining"} ELSE {"returned"} :
       server' = [server EXCEPT ![s] = next]
  /\ cause' = [cause EXCEPT ![s] = "failed"]
  /\ UNCHANGED <<processVars, errCh, requestVars>>

(* The context is done: HTTP stops accepting and drains, as gRPC does; RPC *)
(* closes the listener and returns, with its connections still served.     *)
WindDown(s) ==
  /\ main # "exited" /\ ctxDone /\ server[s] = "serving"
  /\ server' = [server EXCEPT ![s] = IF s = "rpc" THEN "returned" ELSE "draining"]
  /\ UNCHANGED <<cause, errCh, processVars, requestVars, serverFaults>>

(* Shutdown or GracefulStop returns once no request of s is running. *)
Drained(s) ==
  /\ main # "exited" /\ server[s] = "draining" /\ ~Running(s)
  /\ server' = [server EXCEPT ![s] = IF cause[s] = "failed"
                                     THEN "sending" ELSE "returned"]
  /\ UNCHANGED <<cause, errCh, processVars, requestVars, serverFaults>>

(* Ten seconds are over: Shutdown gives an error, which is reported; gRPC  *)
(* is stopped, and Serve returns without an error.                         *)
DrainTimeout(s) ==
  /\ main # "exited" /\ server[s] = "draining" /\ Running(s)
  /\ server' = [server EXCEPT ![s] = IF s = "http" THEN "sending" ELSE "returned"]
  /\ cause' = [cause EXCEPT ![s] = "overrun"]
  /\ UNCHANGED <<errCh, processVars, requestVars, serverFaults>>

SendAndServe(s) ==
  /\ main # "exited" /\ server[s] = "sending"
  /\ Len(errCh) < ErrChCapacity
  /\ errCh' = Append(errCh, s)
  /\ server' = [server EXCEPT ![s] = IF ctxDone THEN "returned" ELSE "serving"]
  /\ UNCHANGED <<cause, processVars, requestVars, serverFaults>>

(* errCh <- err, then the deferred wg.Done() *)
Send(s) ==
  /\ main # "exited" /\ server[s] = "sending"
  /\ Len(errCh) < ErrChCapacity
  /\ errCh' = Append(errCh, s)
  /\ server' = [server EXCEPT ![s] = "returned"]
  /\ UNCHANGED <<cause, processVars, requestVars, serverFaults>>

-----------------------------------------------------------------------------
(* The goroutine of main *)

MainErrorSilent ==
  /\ main = "select" /\ errCh # <<>>
  /\ errCh' = Tail(errCh)
  /\ ctxDone' = TRUE /\ main' = "waiting"
  /\ UNCHANGED <<signalled, code, connected, server, cause, requestVars, serverFaults>>

MainErrorWithoutStop ==
  /\ main = "select" /\ errCh # <<>>
  /\ errCh' = Tail(errCh)
  /\ main' = "waiting" /\ code' = 1
  /\ UNCHANGED <<signalled, ctxDone, connected, server, cause, requestVars, serverFaults>>

(* case err := <-errCh: stop() cancels the context for the other servers *)
MainError ==
  /\ main = "select" /\ errCh # <<>>
  /\ errCh' = Tail(errCh)
  /\ ctxDone' = TRUE /\ main' = "waiting" /\ code' = 1
  /\ UNCHANGED <<signalled, connected, server, cause, requestVars, serverFaults>>

(* case <-ctx.Done(), also when an error is there as well *)
MainDone ==
  /\ main = "select" /\ ctxDone
  /\ main' = "waiting" /\ code' = 0
  /\ UNCHANGED <<signalled, ctxDone, connected, serverVars, requestVars, serverFaults>>

WaitSkipped ==
  /\ main = "waiting" /\ connected
  /\ IF code = 1
     THEN main' = "exited" /\ UNCHANGED connected
     ELSE connected' = FALSE /\ UNCHANGED main
  /\ UNCHANGED <<signalled, ctxDone, code, serverVars, requestVars, serverFaults>>

(* wg.Wait() returns.  After an error, log.Fatal exits and runs no defer;  *)
(* otherwise main disconnects from MongoDB first, and then returns.        *)
WaitEnds ==
  /\ main = "waiting" /\ connected
  /\ \A s \in Servers : server[s] = "returned"
  /\ IF code = 1
     THEN main' = "exited" /\ UNCHANGED connected
     ELSE connected' = FALSE /\ UNCHANGED main
  /\ UNCHANGED <<signalled, ctxDone, code, serverVars, requestVars, serverFaults>>

(* The deferred Disconnect is over; its error is fatal too. *)
Exit ==
  /\ main = "waiting" /\ ~connected
  /\ main' = "exited" /\ code' \in {0, 1}
  /\ UNCHANGED <<signalled, ctxDone, connected, serverVars, requestVars, serverFaults>>

Goroutine(s) == WindDown(s) \/ Drained(s) \/ DrainTimeout(s) \/ Send(s)

Main ==
  \/ Connected \/ PingFails \/ Open
  \/ MainError \/ MainDone \/ WaitEnds \/ Exit

Next ==
  \/ Signal \/ Killed
  \/ \E r \in Requests : Finish(r) \/ \E s \in Servers : Accept(r, s)
  \/ \E s \in Servers : ListenFails(s) \/ Fail(s) \/ Goroutine(s)
  \/ Main

Spec == Init /\ [][Next]_vars

(* The ping ends, goroutines proceed and the ten seconds pass; no request  *)
(* is owed an end.                                                         *)
Fairness == WF_vars(Main) /\ \A s \in Servers : WF_vars(Goroutine(s))

FairSpec == Spec /\ Fairness

-----------------------------------------------------------------------------
(* Properties *)

(* No server reports twice, so that the channel has room for each. *)
TypeOK ==
  /\ signalled \in BOOLEAN /\ ctxDone \in BOOLEAN /\ connected \in BOOLEAN
  /\ server \in [Servers -> ServerStates]
  /\ cause \in [Servers -> {"none", "failed", "overrun"}]
  /\ errCh \in Seq(Servers)
  /\ \A i, j \in 1..Len(errCh) : errCh[i] = errCh[j] => i = j
  /\ main \in MainStages
  /\ code \in {0, 1, 137}
  /\ at \in [Requests -> {"away", "running", "answered", "refused"}]
  /\ via \in [Requests -> Servers]
  /\ serverFaults \in 0..MaxServerFaults

(* The process left r without an answer, or without MongoDB. *)
Interrupted(r) ==
  \/ at[r] = "refused"
  \/ at[r] = "running" /\ (main = "exited" \/ ~connected)

(* Unless it is killed, the logger interrupts no request that HTTP or gRPC *)
(* took, except on a server that failed or after the full ten seconds.     *)
(* The connections of net/rpc have no such protection.                     *)
DrainedBeforeExit ==
  \A r \in Requests :
    Interrupted(r) /\ code # 137 => via[r] = "rpc" \/ cause[via[r]] # "none"

(* Status 0 is for a process that was asked to end; status 1 for one whose *)
(* server failed or could not drain, or that could not reach or leave      *)
(* MongoDB.  So a supervisor sees the end of a server as a failure, unless *)
(* a signal came too.                                                      *)
HonestStatus ==
  main = "exited" =>
    /\ code = 0 => signalled
    /\ code = 1 => ~connected \/ \E s \in Servers : cause[s] # "none"

(* SIGTERM ends the process, whatever requests and servers do: neither a   *)
(* request that never finishes nor an unread error keeps it.               *)
SignalEndsLogger == signalled ~> main = "exited"

(* A server that fails does not leave a process with the other two: the    *)
(* process ends, and its supervisor starts all three again.                *)
FailureEndsLogger ==
  \A s \in Servers : cause[s] = "failed" ~> main = "exited"

-----------------------------------------------------------------------------
(* The inductive invariant behind TypeOK, DrainedBeforeExit and            *)
(* HonestStatus                                                            *)

Reported(s) == \E i \in 1..Len(errCh) : errCh[i] = s

(* Only a server that went wrong reports, and its goroutine then ends. *)
ReportInv ==
  \A s \in Servers :
    /\ server[s] = "sending" \/ Reported(s) => cause[s] # "none"
    /\ Reported(s) => server[s] = "returned"
    /\ main \in {"pinging", "opening"} => server[s] = "unopened"

(* What main knows when it settles on a status, and that it disconnects    *)
(* only on its way to status 0.                                            *)
StatusInv ==
  /\ main \in {"pinging", "opening", "select"} => code = 0 /\ (ctxDone => signalled)
  /\ main \in {"opening", "select"} => connected
  /\ main = "pinging" => ~connected
  /\ main = "waiting" => code \in {0, 1}
  /\ main = "waiting" /\ code = 1 => connected /\ \E s \in Servers : cause[s] # "none"
  /\ main \in {"waiting", "exited"} /\ code = 0 => signalled

AllReturned == \A s \in Servers : server[s] = "returned"

(* Unless it is killed, main leaves MongoDB and the process only after all *)
(* goroutines, and those of HTTP and gRPC leave a request that runs only   *)
(* when they failed or ran out of time.                                    *)
DrainInv ==
  /\ main \in {"pinging", "opening"} => \A r \in Requests : at[r] = "away"
  /\ main = "waiting" /\ ~connected => AllReturned
  /\ main = "exited" /\ code # 137 =>
       AllReturned \/ \A r \in Requests : at[r] = "away"
  /\ \A r \in Requests :
       at[r] = "refused" \/ (at[r] = "running" /\ server[via[r]] = "returned") =>
         via[r] = "rpc" \/ cause[via[r]] # "none"

IInv == TypeOK /\ ReportInv /\ StatusInv /\ DrainInv /\ HonestStatus
=============================================================================
