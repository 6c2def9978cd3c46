----------------------- MODULE LoggerLifecycleProofs -----------------------
(***************************************************************************)
(* Machine-checked proofs about LoggerLifecycle, for every set of requests *)
(* and any number of failures of the servers.                              *)
(***************************************************************************)
EXTENDS LoggerLifecycle, TLAPS

USE FaultsAssumption DEF Servers, MainStages, ServerStates

-----------------------------------------------------------------------------
(* The channel of errors *)

(* A report goes behind those that are there. *)
LEMMA Sends ==
  ASSUME TypeOK, ReportInv, NEW s \in Servers, Send(s)
  PROVE  /\ errCh' \in Seq(Servers)
         /\ \A i, j \in 1..Len(errCh') : errCh'[i] = errCh'[j] => i = j
         /\ \A q \in Servers : Reported(q)' => Reported(q) \/ q = s
         /\ cause[s] # "none"
<1> USE DEF TypeOK
<1>1. /\ errCh' = Append(errCh, s) /\ errCh \in Seq(Servers)
      /\ server[s] = "sending"
  BY DEF Send
<1>2. /\ errCh' \in Seq(Servers)
      /\ Len(errCh') = Len(errCh) + 1
      /\ errCh'[Len(errCh) + 1] = s
      /\ \A i \in 1..Len(errCh) : errCh'[i] = errCh[i]
  BY <1>1
<1>3. ~Reported(s) /\ cause[s] # "none"
  BY <1>1 DEF ReportInv
<1>4. \A i \in 1..Len(errCh) : errCh[i] # s
  BY <1>3 DEF Reported
<1>5. \A q \in Servers : Reported(q)' => Reported(q) \/ q = s
  BY <1>2 DEF Reported
<1>6. \A i, j \in 1..Len(errCh') : errCh'[i] = errCh'[j] => i = j
  BY <1>1, <1>2, <1>4
<1> QED BY <1>2, <1>3, <1>5, <1>6

(* main takes the first of them. *)
LEMMA Receives ==
  ASSUME TypeOK, ReportInv, errCh # <<>>, errCh' = Tail(errCh)
  PROVE  /\ errCh' \in Seq(Servers)
         /\ \A i, j \in 1..Len(errCh') : errCh'[i] = errCh'[j] => i = j
         /\ \A q \in Servers : Reported(q)' => Reported(q)
         /\ \E s \in Servers : cause[s] # "none"
<1> USE DEF TypeOK
<1>1. /\ errCh' \in Seq(Servers)
      /\ Len(errCh') = Len(errCh) - 1
      /\ \A i \in 1..Len(errCh') : errCh'[i] = errCh[i + 1]
  OBVIOUS
<1>2. \A q \in Servers : Reported(q)' => Reported(q)
  BY <1>1 DEF Reported
<1>3. \A i, j \in 1..Len(errCh') : errCh'[i] = errCh'[j] => i = j
  BY <1>1
<1>4. Reported(errCh[1]) /\ errCh[1] \in Servers
  BY DEF Reported
<1>5. cause[errCh[1]] # "none"
  BY <1>4 DEF ReportInv
<1> QED BY <1>1, <1>2, <1>3, <1>4, <1>5

LEMMA ReportStep ==
  ASSUME TypeOK, ReportInv, [Next]_vars
  PROVE  ReportInv'
<1> USE DEF TypeOK
<1>1. ASSUME NEW s \in Servers, Send(s) PROVE ReportInv'
  <2>1. /\ server' = [server EXCEPT ![s] = "returned"]
        /\ UNCHANGED <<cause, main>> /\ server[s] = "sending"
    BY <1>1 DEF Send, processVars
  <2>2. cause[s] # "none" /\ \A q \in Servers : Reported(q)' => Reported(q) \/ q = s
    BY <1>1, Sends
  <2>3. ASSUME NEW q \in Servers
        PROVE  /\ server'[q] = "sending" \/ Reported(q)' => cause'[q] # "none"
               /\ Reported(q)' => server'[q] = "returned"
               /\ main' \in {"pinging", "opening"} => server'[q] = "unopened"
    BY <2>1, <2>2 DEF ReportInv
  <2> QED BY <2>3 DEF ReportInv
<1>2. CASE MainError
  BY <1>2, Receives DEF MainError, ReportInv
<1>3. ASSUME NEW s \in Servers, Fail(s) \/ WindDown(s) \/ Drained(s) \/ DrainTimeout(s)
      PROVE  ReportInv'
  <2>1. /\ \E next \in ServerStates : server' = [server EXCEPT ![s] = next]
        /\ UNCHANGED <<errCh, main>>
        /\ server[s] \notin {"unopened", "returned"}
        /\ server'[s] = "sending" => cause'[s] # "none"
        /\ \A q \in Servers : cause[q] # "none" => cause'[q] # "none"
    BY <1>3 DEF Fail, WindDown, Drained, DrainTimeout, processVars
  <2> QED BY <2>1 DEF ReportInv, Reported
<1>4. ASSUME NEW s \in Servers, ListenFails(s) PROVE ReportInv'
  BY <1>4 DEF ListenFails, ReportInv, Reported
<1>5. CASE Open
  BY <1>5 DEF Open, ReportInv, Reported
<1>6. CASE UNCHANGED serverVars /\ (main' \in {"pinging", "opening"} =>
                                    main \in {"pinging", "opening"})
  BY <1>6 DEF serverVars, ReportInv, Reported
<1> QED
  BY <1>1, <1>2, <1>3, <1>4, <1>5, <1>6
     DEF Next, Main, Goroutine, Signal, Killed, Finish, Accept, Connected,
         PingFails, MainDone, WaitEnds, Exit, vars, processVars

LEMMA TypeStep ==
  ASSUME TypeOK, ReportInv, [Next]_vars
  PROVE  TypeOK'
<1> USE DEF TypeOK, processVars, serverVars, requestVars
<1>1. CASE Signal \/ Killed
  <2>1. signalled' \in BOOLEAN /\ ctxDone' \in BOOLEAN
    BY <1>1 DEF Signal, Killed
  <2> QED BY <1>1, <2>1 DEF Signal, Killed
<1>2. ASSUME NEW r \in Requests, Finish(r) PROVE TypeOK'
  BY <1>2 DEF Finish
<1>3. ASSUME NEW r \in Requests, NEW s \in Servers, Accept(r, s) PROVE TypeOK'
  BY <1>3 DEF Accept
<1>4. ASSUME NEW s \in Servers, ListenFails(s) \/ Fail(s) PROVE TypeOK'
  <2>1. serverFaults' \in 0..MaxServerFaults
    BY <1>4 DEF ListenFails, Fail
  <2> QED BY <1>4, <2>1 DEF ListenFails, Fail
<1>5. ASSUME NEW s \in Servers, WindDown(s) \/ Drained(s) \/ DrainTimeout(s)
      PROVE  TypeOK'
  BY <1>5 DEF WindDown, Drained, DrainTimeout
<1>6. ASSUME NEW s \in Servers, Send(s) PROVE TypeOK'
  <2>1. /\ errCh' \in Seq(Servers)
        /\ \A i, j \in 1..Len(errCh') : errCh'[i] = errCh'[j] => i = j
    BY <1>6, Sends
  <2> QED BY <1>6, <2>1 DEF Send
<1>7. CASE MainError
  <2>1. /\ errCh' \in Seq(Servers)
        /\ \A i, j \in 1..Len(errCh') : errCh'[i] = errCh'[j] => i = j
    BY <1>7, Receives DEF MainError
  <2> QED BY <1>7, <2>1 DEF MainError
<1>8. CASE Connected \/ PingFails \/ Open
  <2>1. connected' \in BOOLEAN
    BY <1>8 DEF Connected, PingFails, Open
  <2> QED BY <1>8, <2>1 DEF Connected, PingFails, Open
<1>9. CASE MainDone \/ WaitEnds \/ Exit
  <2>1. connected' \in BOOLEAN
    BY <1>9 DEF MainDone, WaitEnds, Exit
  <2> QED BY <1>9, <2>1 DEF MainDone, WaitEnds, Exit
<1>10. CASE UNCHANGED vars
  BY <1>10 DEF vars
<1> QED
  BY <1>1, <1>2, <1>3, <1>4, <1>5, <1>6, <1>7, <1>8, <1>9, <1>10
     DEF Next, Main, Goroutine

-----------------------------------------------------------------------------
(* The status *)

(* Why a server ended is not forgotten. *)
LEMMA CausesStay ==
  ASSUME TypeOK, [Next]_vars
  PROVE  \A s \in Servers : cause[s] # "none" => cause'[s] # "none"
BY DEF TypeOK, Next, Main, Goroutine, Signal, Killed, Finish, Accept, ListenFails,
       Fail, WindDown, Drained, DrainTimeout, Send, Connected, PingFails, Open,
       MainError, MainDone, WaitEnds, Exit, vars, processVars, serverVars, requestVars

LEMMA StatusStep ==
  ASSUME TypeOK, ReportInv, StatusInv, HonestStatus, [Next]_vars
  PROVE  StatusInv' /\ HonestStatus'
<1> USE DEF StatusInv, HonestStatus, processVars, serverVars, requestVars
<1>1. \A s \in Servers : cause[s] # "none" => cause'[s] # "none"
  BY CausesStay
<1>2. CASE Signal \/ Killed
  BY <1>1, <1>2 DEF Signal, Killed
<1>3. CASE UNCHANGED processVars
  BY <1>1, <1>3
<1>4. ASSUME NEW s \in Servers, ListenFails(s) PROVE StatusInv' /\ HonestStatus'
  BY <1>4 DEF ListenFails, TypeOK
<1>5. CASE MainError
  BY <1>1, <1>5, Receives DEF MainError
<1>6. CASE Connected \/ PingFails \/ Open
  BY <1>1, <1>6 DEF Connected, PingFails, Open
<1>7. CASE MainDone \/ WaitEnds \/ Exit
  BY <1>1, <1>7 DEF MainDone, WaitEnds, Exit
<1> QED
  BY <1>2, <1>3, <1>4, <1>5, <1>6, <1>7
     DEF Next, Main, Goroutine, Finish, Accept, Fail, WindDown, Drained,
         DrainTimeout, Send, vars

-----------------------------------------------------------------------------
(* Requests and the drain *)

LEMMA DrainStep ==
  ASSUME TypeOK, ReportInv, StatusInv, DrainInv, [Next]_vars
  PROVE  DrainInv'
<1> USE DEF TypeOK, DrainInv, AllReturned, processVars, serverVars, requestVars
<1>1. CASE Signal \/ Killed
  BY <1>1 DEF Signal, Killed
<1>2. ASSUME NEW r \in Requests, Finish(r) PROVE DrainInv'
  BY <1>2 DEF Finish, StatusInv
<1>3. ASSUME NEW r \in Requests, NEW s \in Servers, Accept(r, s) PROVE DrainInv'
  BY <1>3 DEF Accept
<1>4. ASSUME NEW s \in Servers, ListenFails(s) \/ Fail(s) PROVE DrainInv'
  BY <1>4 DEF ListenFails, Fail
<1>5. ASSUME NEW s \in Servers, WindDown(s) \/ Drained(s) \/ DrainTimeout(s)
      PROVE  DrainInv'
  <2>1. CASE WindDown(s)
    BY <2>1 DEF WindDown
  <2>2. CASE Drained(s)
    BY <2>2 DEF Drained, Running
  <2>3. CASE DrainTimeout(s)
    BY <2>3 DEF DrainTimeout
  <2> QED BY <1>5, <2>1, <2>2, <2>3
<1>6. ASSUME NEW s \in Servers, Send(s) PROVE DrainInv'
  BY <1>6 DEF Send, ReportInv
<1>7. CASE MainError \/ MainDone
  BY <1>7 DEF MainError, MainDone, StatusInv
<1>8. CASE Connected \/ PingFails \/ Open
  BY <1>8 DEF Connected, PingFails, Open
<1>9. CASE WaitEnds \/ Exit
  BY <1>9 DEF WaitEnds, Exit
<1>10. CASE UNCHANGED vars
  BY <1>10 DEF vars
<1> QED
  BY <1>1, <1>2, <1>3, <1>4, <1>5, <1>6, <1>7, <1>8, <1>9, <1>10
     DEF Next, Main, Goroutine

-----------------------------------------------------------------------------
(* The invariant and what follows from it *)

LEMMA InvInit == Init => IInv
<1> SUFFICES ASSUME Init PROVE IInv
  OBVIOUS
<1>1. errCh \in Seq(Servers) /\ Len(errCh) = 0
  BY DEF Init
<1>2. TypeOK
  <2>1. signalled \in BOOLEAN /\ ctxDone \in BOOLEAN /\ connected \in BOOLEAN
    BY DEF Init
  <2>2. \A i, j \in 1..Len(errCh) : errCh[i] = errCh[j] => i = j
    BY <1>1
  <2> QED BY <1>1, <2>1, <2>2 DEF Init, TypeOK
<1>3. ReportInv
  BY <1>1 DEF Init, ReportInv, Reported
<1>4. StatusInv /\ DrainInv /\ HonestStatus
  BY DEF Init, StatusInv, DrainInv, HonestStatus
<1> QED BY <1>2, <1>3, <1>4 DEF IInv

LEMMA InvStep == IInv /\ [Next]_vars => IInv'
BY TypeStep, ReportStep, StatusStep, DrainStep DEF IInv

(* The inductive invariant holds in every reachable state: goroutines,     *)
(* their reports, main's status and the requests fit each other.           *)
THEOREM Invariance == Spec => []IInv
<1>1. Init => IInv
  BY InvInit
<1>2. IInv /\ [Next]_vars => IInv'
  BY InvStep
<1> QED BY <1>1, <1>2, PTL DEF Spec

(* Every variable keeps its type, and no server reports twice. *)
THEOREM TypeCorrect == Spec => []TypeOK
<1>1. IInv => TypeOK
  BY DEF IInv
<1> QED BY <1>1, Invariance, PTL

(* errCh <- err in main.go never blocks: a goroutine that reports finds    *)
(* room, even if main has stopped reading, so wg.Wait() is not held up.    *)
THEOREM ReportsFindRoom ==
  Spec => [](\A s \in Servers : server[s] = "sending" => Len(errCh) < ErrChCapacity)
<1>1. IInv => \A s \in Servers : server[s] = "sending" => Len(errCh) < ErrChCapacity
  <2> SUFFICES ASSUME IInv, NEW s \in Servers, server[s] = "sending",
                      ~(Len(errCh) < ErrChCapacity)
               PROVE  FALSE
    OBVIOUS
  <2>1. \A i \in 1..Len(errCh) : errCh[i] \in Servers /\ errCh[i] # s
    BY DEF IInv, TypeOK, ReportInv, Reported
  <2>2. 1 \in 1..Len(errCh) /\ 2 \in 1..Len(errCh) /\ 3 \in 1..Len(errCh)
    BY DEF IInv, TypeOK, ErrChCapacity
  <2>3. errCh[1] # errCh[2] /\ errCh[1] # errCh[3] /\ errCh[2] # errCh[3]
    BY <2>2 DEF IInv, TypeOK
  <2> QED BY <2>1, <2>2, <2>3
<1> QED BY <1>1, Invariance, PTL

(* Shutdown and GracefulStop, which the goroutines run before they return, *)
(* protect every request of HTTP and gRPC for the ten seconds they have.   *)
THEOREM DrainsBeforeExit == Spec => []DrainedBeforeExit
<1>1. IInv => DrainedBeforeExit
  BY DEF IInv, TypeOK, DrainInv, StatusInv, AllReturned, DrainedBeforeExit, Interrupted
<1> QED BY <1>1, Invariance, PTL

(* main ends with status 0 only if it was asked to, and with status 1 only *)
(* if a server or MongoDB failed it.                                       *)
THEOREM StatusIsHonest == Spec => []HonestStatus
<1>1. IInv => HonestStatus
  BY DEF IInv
<1> QED BY <1>1, Invariance, PTL
=============================================================================
