------------------------ MODULE ServiceProcessProofs ------------------------
(***************************************************************************)
(* Machine-checked proofs about ServiceProcess, for any number of changes  *)
(* of the service that is dialled and of failures of the HTTP server.      *)
(***************************************************************************)
EXTENDS ServiceProcess, TLAPS

USE BoundsAssumption
    DEF Services, OverRabbit, OverPostgres, OverHTTP, Backends, Connecting, Running,
        DialLimit, DrainLimit, MaxCounts

-----------------------------------------------------------------------------
(* The back-offs *)

LEMMA BackedOffSteps ==
  ASSUME service \in Services, counts \in 0..(MaxCounts - 1)
  PROVE  /\ BackedOff(counts) \in Nat
         /\ BackedOff(counts + 1) = BackedOff(counts) + BackOff(counts + 1)
         /\ BackOff(counts + 1) \in 0..25
<1>1. CASE service \in OverRabbit
  <2>1. counts \in 0..4
    BY <1>1
  <2>2. CASE counts = 0
    BY <1>1, <2>2 DEF BackedOff, BackOff
  <2>3. CASE counts = 1
    BY <1>1, <2>3 DEF BackedOff, BackOff
  <2>4. CASE counts = 2
    BY <1>1, <2>4 DEF BackedOff, BackOff
  <2>5. CASE counts = 3
    BY <1>1, <2>5 DEF BackedOff, BackOff
  <2>6. CASE counts = 4
    BY <1>1, <2>6 DEF BackedOff, BackOff
  <2> QED BY <2>1, <2>2, <2>3, <2>4, <2>5, <2>6
<1>2. CASE service \notin OverRabbit
  BY <1>2 DEF BackedOff, BackOff
<1> QED BY <1>1, <1>2

(* All of them take as long as a service is patient. *)
LEMMA BackedOffInAll ==
  ASSUME service \in Services
  PROVE  BackedOff(MaxCounts) = Patience
<1>1. CASE service \in OverRabbit
  BY <1>1 DEF BackedOff, Patience
<1>2. CASE service \notin OverRabbit
  BY <1>2 DEF BackedOff, Patience
<1> QED BY <1>1, <1>2

(* Some of them take no longer. *)
LEMMA BackedOffSoFar ==
  ASSUME service \in Services, counts \in 0..MaxCounts
  PROVE  BackedOff(counts) \in 0..Patience
<1>1. CASE service \in OverRabbit
  <2>1. counts \in 0..5
    BY <1>1
  <2>2. CASE counts \in {0, 1, 2}
    BY <1>1, <2>2 DEF BackedOff, Patience
  <2>3. CASE counts \in {3, 4, 5}
    BY <1>1, <2>3 DEF BackedOff, Patience
  <2> QED BY <2>1, <2>2, <2>3
<1>2. CASE service \notin OverRabbit
  BY <1>2 DEF BackedOff, Patience
<1> QED BY <1>1, <1>2

LEMMA NothingBackedOff ==
  ASSUME service \in Services
  PROVE  BackedOff(0) = 0
BY DEF BackedOff

-----------------------------------------------------------------------------
(* Types and the clock *)

LEMMA FailedStep ==
  ASSUME TypeOK, ClockInv, stage \in {"dialling", "handshaking"}, Failed
  PROVE  TypeOK' /\ ClockInv'
<1> USE DEF TypeOK, ClockInv
<1>1. /\ counts' = counts + 1 /\ counts \in 0..MaxCounts
      /\ UNCHANGED <<service, elapsed, silence>>
  BY DEF Failed, worldVars
<1>2. CASE counts = MaxCounts
  <2>1. stage' = "exited" /\ timer' = 0 /\ code' = 1
    BY <1>1, <1>2 DEF Failed, Exit
  <2>2. ClockInv'
    BY <2>1
  <2>3. TypeOK'
    BY <1>1, <2>1 DEF Failed, worldVars
  <2> QED BY <2>2, <2>3
<1>3. CASE counts # MaxCounts
  <2>1. /\ counts \in 0..(MaxCounts - 1)
        /\ stage' = "backoff" /\ timer' = BackOff(counts + 1) /\ UNCHANGED code
    BY <1>1, <1>3 DEF Failed, Goto
  <2>2. /\ BackedOff(counts) \in Nat
        /\ BackedOff(counts + 1) = BackedOff(counts) + BackOff(counts + 1)
        /\ BackOff(counts + 1) \in 0..25
    BY <2>1, BackedOffSteps
  <2>3. BackedOff(counts)' = BackedOff(counts + 1)
    BY <1>1 DEF BackedOff
  <2>4. ClockInv'
    BY <1>1, <2>1, <2>2, <2>3
  <2>5. TypeOK'
    BY <1>1, <2>1, <2>2 DEF Failed, worldVars
  <2> QED BY <2>4, <2>5
<1> QED BY <1>2, <1>3

LEMMA ClockStep ==
  ASSUME TypeOK, ClockInv, [Next]_vars
  PROVE  TypeOK' /\ ClockInv'
<1> USE DEF TypeOK, ClockInv, mainVars, clockVars, restVars, worldVars, Exit, Goto
<1>1. UNCHANGED <<service, counts>> =>
        BackedOff(counts)' = BackedOff(counts) /\ UNCHANGED MaxCounts
  BY DEF BackedOff
<1>2. stage \in Connecting => BackedOff(counts) \in Nat
  BY BackedOffSoFar DEF Patience
<1>3. CASE Loop
  BY <1>1, <1>2, <1>3 DEF Loop
<1>4. CASE Dialled
  BY <1>1, <1>2, <1>4 DEF Dialled
<1>5. CASE Connected
  <2>1. linked' \in BOOLEAN
    BY <1>5 DEF Connected
  <2> QED BY <1>5, <2>1 DEF Connected
<1>6. CASE DialFails \/ HandshakeFails
  BY <1>6, FailedStep DEF DialFails, HandshakeFails
<1>7. CASE DialCancelled
  BY <1>7 DEF DialCancelled
<1>8. CASE BackOffEnds
  BY <1>1, <1>2, <1>8 DEF BackOffEnds
<1>9. CASE ShutDown \/ Drained \/ DrainTimeout \/ Closes
  BY <1>9 DEF ShutDown, Drained, DrainTimeout, Closes
<1>10. CASE Accept \/ Finish
  <2>1. busy' \in BOOLEAN
    BY <1>10 DEF Accept, Finish
  <2> QED BY <1>1, <1>10, <2>1 DEF Accept, Finish
<1>11. CASE ServerFails
  <2>1. serverFaults' \in 0..MaxServerFaults
    BY <1>11 DEF ServerFails
  <2> QED BY <1>11, <2>1 DEF ServerFails
<1>12. CASE Signal
  <2>1. signalled' \in BOOLEAN
    BY <1>12 DEF Signal
  <2> QED BY <1>1, <1>12, <2>1 DEF Signal
<1>13. CASE Kill
  BY <1>13 DEF Kill
<1>14. CASE Restart
  <2>1. busy' \in BOOLEAN /\ linked' \in BOOLEAN
    BY <1>14 DEF Restart
  <2>2. BackedOff(counts)' = 0
    BY <1>14, NothingBackedOff DEF Restart, BackedOff
  <2>3. TypeOK'
    BY <1>14, <2>1 DEF Restart, FirstStage
  <2>4. ClockInv'
    BY <1>14, <2>2 DEF Restart, FirstStage
  <2> QED BY <2>3, <2>4
<1>15. CASE BackendChanges
  <2>1. linked' \in BOOLEAN
    BY <1>15 DEF BackendChanges
  <2>2. backendChanges' \in 0..MaxBackendChanges
    BY <1>15 DEF BackendChanges
  <2> QED BY <1>1, <1>15, <2>1, <2>2 DEF BackendChanges
<1>16. CASE HeartbeatFails
  <2>1. linked' \in BOOLEAN
    BY <1>16 DEF HeartbeatFails
  <2> QED BY <1>1, <1>16, <2>1 DEF HeartbeatFails
<1>17. CASE Silence
  BY <1>1, <1>2, <1>17 DEF Silence
<1>18. CASE Tick
  BY <1>1, <1>2, <1>18 DEF Tick
<1>19. CASE UNCHANGED vars
  BY <1>1, <1>19 DEF vars
<1>20. CASE SetUp \/ SetUpFails \/ LinkLost
  BY <1>20 DEF SetUp, SetUpFails, LinkLost
<1> QED
  BY <1>3, <1>4, <1>5, <1>6, <1>7, <1>8, <1>9, <1>10, <1>11, <1>12, <1>13,
     <1>14, <1>15, <1>16, <1>17, <1>18, <1>19, <1>20 DEF Next, Proceed

-----------------------------------------------------------------------------
(* Requests and the exit status *)

LEMMA ServerStep ==
  ASSUME TypeOK, ServerInv, CleanExit, [Next]_vars
  PROVE  ServerInv' /\ CleanExit'
<1> USE DEF TypeOK, ServerInv, CleanExit, mainVars, clockVars, restVars, worldVars,
            Exit, Goto
<1>1. CASE Loop \/ Dialled \/ Connected \/ DialCancelled \/ BackOffEnds
  BY <1>1 DEF Loop, Dialled, Connected, DialCancelled, BackOffEnds
<1>2. CASE DialFails \/ HandshakeFails
  BY <1>2 DEF DialFails, HandshakeFails, Failed
<1>3. CASE SetUp \/ SetUpFails \/ LinkLost
  BY <1>3 DEF SetUp, SetUpFails, LinkLost
<1>4. CASE Accept \/ Finish \/ ServerFails
  BY <1>4 DEF Accept, Finish, ServerFails
<1>5. CASE Signal \/ Kill
  BY <1>5 DEF Signal, Kill
<1>6. CASE Restart
  BY <1>6 DEF Restart, FirstStage
<1>7. CASE ShutDown \/ Drained \/ DrainTimeout \/ Closes
  BY <1>7 DEF ShutDown, Drained, DrainTimeout, Closes
<1>8. CASE UNCHANGED <<service, stage, code, signalled, busy>>
  BY <1>8
<1> QED
  BY <1>1, <1>2, <1>3, <1>4, <1>5, <1>6, <1>7, <1>8
     DEF Next, Proceed, BackendChanges, HeartbeatFails, Silence, Tick, vars

-----------------------------------------------------------------------------
(* The invariant and what follows from it *)

LEMMA InvInit == Init => IInv
<1> SUFFICES ASSUME Init PROVE IInv
  OBVIOUS
<1>1. signalled \in BOOLEAN /\ busy \in BOOLEAN /\ linked \in BOOLEAN
  BY DEF Init
<1>2. TypeOK
  BY <1>1 DEF Init, FirstStage, TypeOK
<1>3. BackedOff(counts) = 0
  BY NothingBackedOff DEF Init
<1>4. ClockInv
  BY <1>3 DEF Init, FirstStage, ClockInv
<1>5. ServerInv /\ CleanExit
  BY DEF Init, FirstStage, ServerInv, CleanExit
<1> QED BY <1>2, <1>4, <1>5 DEF IInv

LEMMA InvStep == IInv /\ [Next]_vars => IInv'
BY ClockStep, ServerStep DEF IInv

(* The inductive invariant holds in every reachable state: stages, timers, *)
(* attempts and seconds fit each other.                                    *)
THEOREM Invariance == Spec => []IInv
<1>1. Init => IInv
  BY InvInit
<1>2. IInv /\ [Next]_vars => IInv'
  BY InvStep
<1> QED BY <1>1, <1>2, PTL DEF Spec

(* Every variable keeps its type; no wait is longer than 25 seconds and no *)
(* process makes more attempts than connect and connectToDB allow.         *)
THEOREM TypeCorrect == Spec => []TypeOK
<1>1. IInv => TypeOK
  BY DEF IInv
<1> QED BY <1>1, Invariance, PTL

(* connect and connectToDB never give up before their back-offs add up, no *)
(* matter how quickly the attempts fail.                                   *)
THEOREM NeverGivesUpEarly == Spec => GivesUpLate
<1>1. IInv /\ [Next]_vars =>
        [stage' = "exited" /\ stage \in Connecting /\ code' = 1 => elapsed >= Patience]_vars
  <2> SUFFICES ASSUME IInv, Next, stage' = "exited", stage \in Connecting, code' = 1
               PROVE  elapsed >= Patience
    OBVIOUS
  <2>1. DialFails \/ HandshakeFails
    <3>1. ~(Loop \/ Dialled \/ Connected \/ DialCancelled \/ BackOffEnds)
      BY DEF Loop, Dialled, Connected, DialCancelled, BackOffEnds, Exit, Goto
    <3>2. ~(SetUp \/ SetUpFails \/ LinkLost \/ ServerFails \/ Restart)
      BY DEF SetUp, SetUpFails, LinkLost, ServerFails, Restart
    <3>3. ~(Accept \/ Finish \/ Signal \/ BackendChanges \/ HeartbeatFails \/ Silence
            \/ Tick)
      BY DEF Accept, Finish, Signal, BackendChanges, HeartbeatFails, Silence, Tick,
             mainVars
    <3>4. ~Kill
      BY DEF Kill, Exit
    <3>5. ~(ShutDown \/ Drained \/ DrainTimeout \/ Closes)
      BY DEF ShutDown, Drained, DrainTimeout, Closes
    <3> QED BY <3>1, <3>2, <3>3, <3>4, <3>5 DEF Next, Proceed
  <2>2. counts + 1 > MaxCounts /\ stage \in {"dialling", "handshaking"}
    BY <2>1 DEF DialFails, HandshakeFails, Failed, Goto
  <2>3. counts = MaxCounts /\ BackedOff(counts) =< elapsed
    BY <2>2 DEF IInv, TypeOK, ClockInv
  <2>4. BackedOff(counts) = Patience
    BY <2>3, BackedOffInAll DEF IInv, TypeOK
  <2> QED BY <2>3, <2>4 DEF Patience, IInv, TypeOK
<1> QED BY <1>1, Invariance, PTL DEF Spec, GivesUpLate

(* Full dials and back-offs alone never take as long as compose's health   *)
(* check has patience: fifteen seconds of it can only be handshakes that   *)
(* RabbitMQ kept waiting, whatever it does in between.                     *)
THEOREM OnlySilenceOutlasts == Spec => []OutlastsHealthCheck
<1>1. IInv => OutlastsHealthCheck
  <2> SUFFICES ASSUME IInv, stage \in Connecting, elapsed >= 100
               PROVE  silence >= 15
    BY DEF OutlastsHealthCheck
  <2>1. /\ counts \in 0..MaxCounts
        /\ timer \in Nat /\ elapsed \in Nat /\ silence \in Nat
    BY DEF IInv, TypeOK, ClockInv
  <2>2. BackedOff(counts) \in 0..Patience
    BY <2>1, BackedOffSoFar DEF IInv, TypeOK
  <2>3. elapsed + timer =< BackedOff(counts) + 5 * (counts + 1) + silence
    BY <2>1, <2>2 DEF IInv, ClockInv, Patience
  <2> QED BY <2>1, <2>2, <2>3 DEF Patience
<1> QED BY <1>1, Invariance, PTL

(* Status 0 means that SIGTERM came and every request has its answer.      *)
THEOREM CleanExitMeansClean == Spec => []CleanExit
<1>1. IInv => CleanExit
  BY DEF IInv
<1> QED BY <1>1, Invariance, PTL
=============================================================================
