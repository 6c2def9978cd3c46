------------------------ MODULE LogTransportsProofs ------------------------
(***************************************************************************)
(* Machine-checked proofs about LogTransports, for every set of            *)
(* submissions and any number of stops of the logger.                      *)
(***************************************************************************)
EXTENDS LogTransports, TLAPS

USE StopsAssumption

-----------------------------------------------------------------------------
(* Type correctness and the clock *)

LEMMA LimitsBounded ==
  \A way \in Transports : Limits[way] \in Nat /\ Limits[way] =< 10
BY DEF Transports, Limits

LEMMA DeadlineBounded ==
  ASSUME TypeOK, NEW r \in Requests
  PROVE  /\ Deadline(r) \in Nat /\ Deadline(r) =< began[r] + 10
         /\ transport[r] = "http" => Deadline(r) = began[r] + 10
         /\ transport[r] # "http" => Deadline(r) = began[r] + 3
BY DEF TypeOK, Deadline, Limits, Transports, ReadLimit

LEMMA InvInit == Init => IInv
<1> SUFFICES ASSUME Init PROVE IInv
  OBVIOUS
<1>1. TypeOK
  BY DEF Init, TypeOK, Stages, Transports, Texts, HandlerStates, ReadLimit, InsertLimit
<1>2. CallInv /\ EntryInv
  BY DEF Init, CallInv, EntryInv, Waiting
<1>3. ClockInv /\ AnswerInTime
  BY DEF Init, ClockInv, AnswerInTime, Waiting
<1> QED BY <1>1, <1>2, <1>3 DEF IInv

(* The steps of the broker's handler that answer without a look at the     *)
(* request.                                                                *)
Ending(r) == DialFails(r) \/ Return(r) \/ Disconnected(r) \/ Timeout(r)

(* The end of a handler, and what its client reads. *)
LEMMA AnswerGiven ==
  ASSUME TypeOK, NEW r \in Requests, NEW status \in {202, 400, 502},
         Answer(r, status)
  PROVE  /\ pc' = [pc EXCEPT ![r] = "done"]
         /\ pc' \in [Requests -> Stages]
         /\ answer' \in [Requests -> {0, 202, 400, 502}]
         /\ \A q \in Requests : q # r => answer'[q] = answer[q]
         /\ age[r] < WriteLimit => answer'[r] = status
         /\ age[r] >= WriteLimit => answer'[r] = answer[r]
         /\ UNCHANGED age
BY DEF Answer, TypeOK, Stages, WriteLimit, ReadLimit, InsertLimit

(* What all endings have in common. *)
LEMMA EndingAnswers ==
  ASSUME TypeOK, NEW r \in Requests, Ending(r)
  PROVE  /\ Waiting(r)
         /\ Answer(r, 502) \/ (server[r] = "ok" /\ Answer(r, 202))
         /\ UNCHANGED <<transport, text, began, server, spent, stored>>
         /\ UNCHANGED <<loggerUp, loggerStops>>
<1>1. Waiting(r)
  BY DEF Ending, DialFails, Return, Disconnected, Timeout, Waiting
<1>2. Answer(r, 502) \/ (server[r] = "ok" /\ Answer(r, 202))
  <2>1. CASE Return(r)
    <3>1. Answer(r, IF server[r] = "ok" THEN 202 ELSE 502)
      BY <2>1 DEF Return, Reply
    <3>2. CASE server[r] = "ok"
      BY <3>1, <3>2 DEF Answer
    <3>3. CASE server[r] # "ok"
      BY <3>1, <3>3 DEF Answer
    <3> QED BY <3>2, <3>3
  <2>2. CASE DialFails(r) \/ Disconnected(r) \/ Timeout(r)
    BY <2>2 DEF DialFails, Disconnected, Timeout, Reply, Answer
  <2> QED BY <2>1, <2>2 DEF Ending
<1>3. /\ UNCHANGED <<transport, text, began, server, spent, stored>>
      /\ UNCHANGED <<loggerUp, loggerStops>>
  BY DEF Ending, DialFails, Return, Disconnected, Timeout, Reply, loggerVars
<1> QED BY <1>1, <1>2, <1>3

(* A handler of the broker, running or ending, keeps types and limits. *)
LEMMA ClockStep ==
  ASSUME TypeOK, CallInv, ClockInv, [Next]_vars
  PROVE  TypeOK' /\ ClockInv'
<1> USE DEF TypeOK, ClockInv, Waiting, Deadline, vars, brokerVars, requestVars, loggerVars
<1>1. ASSUME NEW r \in Requests, Submit(r) PROVE TypeOK' /\ ClockInv'
  BY <1>1 DEF Submit, Stages, ReadLimit
<1>2. ASSUME NEW r \in Requests, NEW way \in Transports, NEW kind \in Texts,
             Read(r, way, kind)
      PROVE  TypeOK' /\ ClockInv'
  <2>1. /\ transport' \in [Requests -> Transports] /\ text' \in [Requests -> Texts]
        /\ began' \in [Requests -> 0..ReadLimit] /\ began'[r] = age[r]
        /\ UNCHANGED <<age, server, spent, stored, loggerUp, loggerStops>>
    BY <1>2 DEF Read, Answer, ReadLimit, InsertLimit
  <2>2. /\ pc' \in [Requests -> Stages]
        /\ answer' \in [Requests -> {0, 202, 400, 502}]
    <3>1. CASE kind = "blank"
      BY <1>2, <3>1, AnswerGiven DEF Read
    <3>2. CASE kind # "blank"
      BY <1>2, <3>2 DEF Read, Stages
    <3> QED BY <3>1, <3>2
  <2>3. TypeOK'
    BY <2>1, <2>2
  <2>4. pc'[r] \in {"done", "dialling"} /\ server[r] # "running"
    BY <1>2 DEF Read, Answer, CallInv
  <2>5. \A q \in Requests :
          q # r => UNCHANGED <<pc[q], transport[q], began[q]>>
    BY <1>2 DEF Read, Answer
  <2>6. Limits'[transport'[r]] \in Nat /\ Limits' = Limits
    BY <2>1, LimitsBounded DEF Limits
  <2>7. ClockInv'
    BY <2>1, <2>4, <2>5, <2>6 DEF InsertLimit, ReadLimit
  <2> QED BY <2>3, <2>7
<1>3. ASSUME NEW r \in Requests, BodyLate(r) PROVE TypeOK' /\ ClockInv'
  <2>1. /\ text' \in [Requests -> Texts]
        /\ began' \in [Requests -> 0..ReadLimit]
        /\ pc' = [pc EXCEPT ![r] = "done"]
        /\ UNCHANGED <<transport, age, server, spent, stored, loggerUp, loggerStops>>
    BY <1>3 DEF BodyLate, Answer, Texts, ReadLimit, InsertLimit
  <2>2. /\ pc' \in [Requests -> Stages]
        /\ answer' \in [Requests -> {0, 202, 400, 502}]
    BY <1>3, AnswerGiven DEF BodyLate
  <2>3. TypeOK'
    BY <2>1, <2>2
  <2>4. server[r] # "running" /\ \A q \in Requests : q # r => began'[q] = began[q]
    BY <1>3 DEF BodyLate, CallInv
  <2>5. ClockInv'
    BY <2>1, <2>4 DEF Limits
  <2> QED BY <2>3, <2>5
<1>4. ASSUME NEW r \in Requests, Dial(r) PROVE TypeOK' /\ ClockInv'
  <2>1. age[r] =< Deadline(r) + spent[r]
    BY <1>4, DeadlineBounded DEF Dial, InsertLimit
  <2> QED BY <1>4, <2>1 DEF Dial, HandlerStates, Stages, Limits
<1>5. ASSUME NEW r \in Requests, Ending(r) PROVE TypeOK' /\ ClockInv'
  <2>1. /\ pc' = [pc EXCEPT ![r] = "done"] /\ pc' \in [Requests -> Stages]
        /\ answer' \in [Requests -> {0, 202, 400, 502}]
        /\ UNCHANGED <<transport, text, age, began, server, spent, stored>>
        /\ UNCHANGED <<loggerUp, loggerStops>>
    BY <1>5, EndingAnswers, AnswerGiven
  <2> QED BY <2>1 DEF Limits
<1>6. ASSUME NEW r \in Requests, Logger(r) PROVE TypeOK' /\ ClockInv'
  BY <1>6 DEF Logger, ForcedFailure, Insert, InsertFails, Killed, MaybeStored, Ends,
              HandlerStates, InsertLimit, Limits
<1>7. CASE LoggerStop \/ LoggerStart
  <2>1. loggerUp' \in BOOLEAN
    BY <1>7 DEF LoggerStop, LoggerStart
  <2>2. loggerStops' \in 0..MaxLoggerStops
    BY <1>7 DEF LoggerStop, LoggerStart
  <2> QED BY <1>7, <2>1, <2>2 DEF LoggerStop, LoggerStart, Limits
<1>8. CASE Tick
  <2>1. UNCHANGED <<pc, transport, text, began, answer, server, stored, loggerUp, loggerStops>>
    BY <1>8 DEF Tick
  <2>2. ASSUME NEW r \in Requests
        PROVE  /\ age'[r] \in 0..(ReadLimit + 10 + InsertLimit)
               /\ spent'[r] \in 0..InsertLimit
               /\ pc[r] = "idle" => age'[r] = 0
               /\ pc[r] = "reading" => age'[r] =< ReadLimit
               /\ Waiting(r) => age'[r] =< Deadline(r)
               /\ server[r] = "running" => age'[r] =< Deadline(r) + spent'[r]
               /\ server[r] # "running" => spent'[r] = 0
    <3>1. /\ pc[r] = "reading" => age[r] < ReadLimit
          /\ Waiting(r) => age[r] < Deadline(r)
          /\ spent[r] < InsertLimit
      BY <1>8, DeadlineBounded DEF Tick, Due, ReadLimit, InsertLimit
    <3>2. /\ age'[r] = IF Ageing(r) THEN age[r] + 1 ELSE age[r]
          /\ spent'[r] = IF server[r] = "running" THEN spent[r] + 1 ELSE spent[r]
      BY <1>8 DEF Tick
    <3>3. /\ age[r] \in Nat /\ spent[r] \in Nat
          /\ Deadline(r) \in Nat /\ Deadline(r) =< 20
          /\ pc[r] = "idle" => server[r] = "none"
      BY DeadlineBounded DEF InsertLimit, ReadLimit, CallInv
    <3> HIDE DEF Deadline
    <3>4. CASE server[r] = "running"
      BY <3>1, <3>2, <3>3, <3>4 DEF Ageing, ReadLimit, InsertLimit
    <3>5. CASE server[r] # "running"
      BY <3>1, <3>2, <3>3, <3>5 DEF Ageing, ReadLimit, InsertLimit
    <3> QED BY <3>4, <3>5
  <2>3. /\ age' \in [Requests -> 0..(ReadLimit + 10 + InsertLimit)]
        /\ spent' \in [Requests -> 0..InsertLimit]
    BY <1>8, <2>2 DEF Tick
  <2>4. TypeOK'
    BY <2>1, <2>3
  <2>5. ClockInv'
    BY <2>1, <2>2 DEF Limits
  <2> QED BY <2>4, <2>5
<1>9. CASE UNCHANGED vars
  BY <1>9 DEF Limits
<1> QED
  BY <1>1, <1>2, <1>3, <1>4, <1>5, <1>6, <1>7, <1>8, <1>9 DEF Next, Broker, Ending

-----------------------------------------------------------------------------
(* Who has begun, who has answered *)

LEMMA CallStep ==
  ASSUME TypeOK, CallInv, [Next]_vars
  PROVE  CallInv'
<1> USE DEF CallInv, Waiting, vars, brokerVars, requestVars, loggerVars
<1>1. ASSUME NEW r \in Requests, Submit(r) PROVE CallInv'
  BY <1>1 DEF Submit, TypeOK
<1>2. ASSUME NEW r \in Requests, NEW way \in Transports, NEW kind \in Texts,
             Read(r, way, kind)
      PROVE  CallInv'
  <2>1. answer[r] = 0 /\ server[r] = "none" /\ UNCHANGED server
    BY <1>2 DEF Read, TypeOK
  <2>2. CASE kind = "blank"
    <3>1. /\ pc'[r] = "done" /\ text'[r] = "blank" /\ answer'[r] \in {0, 400}
          /\ \A q \in Requests : q # r => UNCHANGED <<pc[q], text[q], answer[q]>>
      BY <1>2, <2>1, <2>2 DEF Read, Answer, TypeOK
    <3> QED BY <2>1, <3>1
  <2>3. CASE kind # "blank"
    BY <1>2, <2>1, <2>3 DEF Read, TypeOK
  <2> QED BY <2>2, <2>3
<1>3. ASSUME NEW r \in Requests, BodyLate(r) PROVE CallInv'
  <2>1. answer[r] = 0 /\ server[r] = "none" /\ UNCHANGED server
    BY <1>3 DEF BodyLate, TypeOK
  <2>2. /\ pc'[r] = "done" /\ text'[r] = "blank" /\ answer'[r] \in {0, 400}
        /\ \A q \in Requests : q # r => UNCHANGED <<pc[q], text[q], answer[q]>>
    BY <1>3, <2>1 DEF BodyLate, Answer, TypeOK
  <2> QED BY <2>1, <2>2
<1>4. ASSUME NEW r \in Requests, Dial(r) PROVE CallInv'
  BY <1>4 DEF Dial, TypeOK
<1>5. ASSUME NEW r \in Requests, Ending(r) PROVE CallInv'
  <2>1. /\ pc'[r] = "done" /\ text[r] # "blank" /\ answer[r] = 0
        /\ answer'[r] \in {0, 502} \/ (server[r] = "ok" /\ answer'[r] \in {0, 202})
        /\ \A q \in Requests : q # r => UNCHANGED <<pc[q], answer[q]>>
        /\ UNCHANGED <<text, server>>
    BY <1>5, EndingAnswers DEF Answer, TypeOK
  <2> QED BY <2>1
<1>6. ASSUME NEW r \in Requests, Logger(r) PROVE CallInv'
  BY <1>6 DEF Logger, ForcedFailure, Insert, InsertFails, Killed, Ends, TypeOK
<1>7. CASE LoggerStop \/ LoggerStart \/ Tick \/ UNCHANGED vars
  BY <1>7 DEF LoggerStop, LoggerStart, Tick
<1> QED BY <1>1, <1>2, <1>3, <1>4, <1>5, <1>6, <1>7 DEF Next, Broker, Ending

-----------------------------------------------------------------------------
(* What is stored *)

LEMMA EntryStep ==
  ASSUME TypeOK, CallInv, EntryInv, [Next]_vars
  PROVE  EntryInv'
<1> USE DEF TypeOK, CallInv, EntryInv, vars, brokerVars, loggerVars
<1>1. ASSUME NEW r \in Requests, Dial(r) PROVE EntryInv'
  BY <1>1 DEF Dial
<1>2. ASSUME NEW r \in Requests, Logger(r) PROVE EntryInv'
  BY <1>2 DEF Logger, ForcedFailure, Insert, InsertFails, Killed, MaybeStored, Ends
<1>3. CASE UNCHANGED <<server, stored>>
  BY <1>3
<1> QED
  BY <1>1, <1>2, <1>3
     DEF Next, Broker, Submit, Read, BodyLate, DialFails, Return, Disconnected, Timeout,
         Reply, LoggerStop, LoggerStart, Tick

-----------------------------------------------------------------------------
(* Which answers can be read *)

LEMMA AnswerStep ==
  ASSUME TypeOK, CallInv, ClockInv, AnswerInTime, [Next]_vars
  PROVE  AnswerInTime'
<1> USE DEF AnswerInTime, vars, brokerVars, requestVars, loggerVars
<1>1. ASSUME NEW r \in Requests, NEW way \in Transports, NEW kind \in Texts,
             Read(r, way, kind)
      PROVE  AnswerInTime'
  <2>1. \A q \in Requests :
          q # r => UNCHANGED <<pc[q], transport[q], began[q], answer[q], server[q]>>
    BY <1>1 DEF Read, Answer, TypeOK
  <2>2. pc'[r] = "done" => answer'[r] = 400
    <3>1. CASE kind = "blank"
      BY <1>1, <3>1, AnswerGiven DEF Read, ReadLimit, WriteLimit
    <3>2. CASE kind # "blank"
      BY <1>1, <3>2 DEF Read, TypeOK
    <3> QED BY <3>1, <3>2
  <2> QED BY <2>1, <2>2
<1>2. ASSUME NEW r \in Requests, BodyLate(r) PROVE AnswerInTime'
  <2>1. \A q \in Requests :
          q # r => UNCHANGED <<pc[q], transport[q], began[q], answer[q], server[q]>>
    BY <1>2 DEF BodyLate, Answer, TypeOK
  <2>2. began'[r] >= 7 /\ answer'[r] \in {0, 400}
    BY <1>2 DEF BodyLate, Answer, TypeOK, CallInv, ReadLimit, InsertLimit
  <2> QED BY <2>1, <2>2
<1>3. ASSUME NEW r \in Requests, Ending(r) PROVE AnswerInTime'
  <2>1. /\ \A q \in Requests : q # r => UNCHANGED <<pc[q], answer[q]>>
        /\ UNCHANGED <<transport, began, server>>
    BY <1>3, EndingAnswers DEF Answer, TypeOK
  <2>2. Waiting(r) /\ age[r] \in Nat /\ began[r] \in Nat /\ age[r] =< Deadline(r)
    BY <1>3, EndingAnswers DEF TypeOK, ClockInv, ReadLimit, InsertLimit
  <2>3. answer'[r] = 0 /\ transport[r] # "http" => began[r] >= 7
    <3>1. age[r] < WriteLimit => answer'[r] # 0
      BY <1>3, EndingAnswers, AnswerGiven
    <3> QED BY <2>2, <3>1, DeadlineBounded DEF WriteLimit
  <2>4. answer'[r] = 502 /\ server[r] = "running" => transport[r] # "http"
    <3>1. server[r] = "running" => age[r] >= Deadline(r)
      BY <1>3, <2>2 DEF Ending, DialFails, Return, Disconnected, Timeout, CallInv, Waiting
    <3>2. age[r] >= WriteLimit => answer'[r] = 0
      <4>1. answer[r] = 0
        BY <2>2 DEF CallInv, Waiting
      <4> QED BY <1>3, <4>1, EndingAnswers, AnswerGiven
    <3> QED BY <2>2, <3>1, <3>2, DeadlineBounded DEF WriteLimit
  <2> QED BY <2>1, <2>3, <2>4
<1>4. ASSUME NEW r \in Requests, Dial(r) PROVE AnswerInTime'
  BY <1>4 DEF Dial, TypeOK
<1>5. ASSUME NEW r \in Requests, Submit(r) PROVE AnswerInTime'
  BY <1>5 DEF Submit, TypeOK
<1>6. ASSUME NEW r \in Requests, Logger(r) PROVE AnswerInTime'
  BY <1>6 DEF Logger, ForcedFailure, Insert, InsertFails, Killed, Ends, TypeOK
<1>7. CASE LoggerStop \/ LoggerStart \/ Tick \/ UNCHANGED vars
  BY <1>7 DEF LoggerStop, LoggerStart, Tick
<1> QED BY <1>1, <1>2, <1>3, <1>4, <1>5, <1>6, <1>7 DEF Next, Broker, Ending

LEMMA InvStep == IInv /\ [Next]_vars => IInv'
BY ClockStep, CallStep, EntryStep, AnswerStep DEF IInv

(* The inductive invariant holds in every reachable state: the two         *)
(* handlers of an entry, its document and the clocks fit each other.       *)
THEOREM Invariance == Spec => []IInv
<1>1. Init => IInv
  BY InvInit
<1>2. IInv /\ [Next]_vars => IInv'
  BY InvStep
<1> QED BY <1>1, <1>2, PTL DEF Spec

(* Every variable keeps its type, and no request is worked for beyond the  *)
(* sum of its limits.                                                      *)
THEOREM TypeCorrect == Spec => []TypeOK
<1>1. IInv => TypeOK
  BY DEF IInv
<1> QED BY <1>1, Invariance, PTL

-----------------------------------------------------------------------------
(* The time limits *)

(* Over RPC and gRPC a client reads an answer unless its body took seven   *)
(* seconds or more; over HTTP it never reads the 502 of a logger still at  *)
(* work, for WriteTimeout is up when the limit of the call is.             *)
THEOREM AnswersComeInTime == Spec => []AnswerInTime
<1>1. IInv => AnswerInTime
  BY DEF IInv
<1> QED BY <1>1, Invariance, PTL

(* An entry that comes after its 502 comes within the caller's limit and   *)
(* the limit of Insert, counted from the end of the body, whatever the     *)
(* logger does.                                                            *)
THEOREM LateEntriesAreBounded == Spec => LateEntriesBounded
<1>1. ASSUME IInv, [Next]_vars, NEW r \in Requests, stored'[r] # stored[r]
      PROVE  age[r] - began[r] =< Limits[transport[r]] + InsertLimit
  <2>1. ASSUME NEW q \in Requests, Logger(q)
        PROVE  age[r] - began[r] =< Limits[transport[r]] + InsertLimit
    <3>1. server[r] = "running"
      BY <1>1, <2>1
         DEF Logger, ForcedFailure, Insert, InsertFails, Killed, MaybeStored, Ends,
             IInv, TypeOK
    <3>2. age[r] =< Deadline(r) + spent[r]
      BY <1>1, <3>1 DEF IInv, ClockInv
    <3>3. /\ age[r] \in Nat /\ began[r] \in Nat /\ spent[r] \in 0..InsertLimit
          /\ Limits[transport[r]] \in Nat
      BY <1>1, LimitsBounded DEF IInv, TypeOK, ReadLimit, InsertLimit
    <3> QED BY <3>2, <3>3 DEF Deadline, InsertLimit
  <2>2. CASE UNCHANGED stored
    BY <1>1, <2>2
  <2> QED
    BY <1>1, <2>1, <2>2
       DEF Next, Broker, Submit, Read, BodyLate, Dial, DialFails, Return, Disconnected,
           Timeout, Reply, LoggerStop, LoggerStart, Tick, vars, loggerVars
<1>2. IInv /\ [Next]_vars =>
        [\A r \in Requests :
           stored'[r] # stored[r] =>
             age[r] - began[r] =< Limits[transport[r]] + InsertLimit]_vars
  BY <1>1
<1> QED BY <1>2, Invariance, PTL DEF Spec, LateEntriesBounded

-----------------------------------------------------------------------------
(* The promise of Submission *)

(* A function that differs from another at one argument only. *)
LEMMA ChangedAt ==
  ASSUME NEW S, NEW f, NEW g, NEW r \in S,
         f = [q \in S |-> f[q]], g = [q \in S |-> g[q]],
         \A q \in S : q # r => g[q] = f[q]
  PROVE  g = [f EXCEPT ![r] = g[r]]
OBVIOUS

(* A handler ends, and nothing else is told to anyone. *)
LEMMA AnswerMaps ==
  ASSUME TypeOK, NEW r \in Requests, NEW status \in {202, 400, 502}, NEW word,
         pc[r] # "done", Answer(r, status), UNCHANGED stored, Conclusion(r)' = word
  PROVE  Promise!Reply(r, word)
<1> DEFINE old == [q \in Requests |-> Conclusion(q)]
           new == [q \in Requests |-> Conclusion(q)']
<1>1. new = [old EXCEPT ![r] = new[r]]
  <2>1. \A q \in Requests : q # r => new[q] = old[q]
    BY AnswerGiven DEF TypeOK, Conclusion
  <2> HIDE DEF old, new
  <2>2. old = [q \in Requests |-> old[q]] /\ new = [q \in Requests |-> new[q]]
    BY DEF old, new
  <2> QED BY <2>1, <2>2, ChangedAt
<1>2. Conclusion(r) = "none" /\ new[r] = word
  BY DEF Conclusion
<1> QED BY <1>1, <1>2 DEF Promise!Reply

(* What each status stands for, if the client reads it. *)
LEMMA EndMaps ==
  ASSUME TypeOK, CallInv, NEW r \in Requests, NEW status \in {202, 400, 502},
         pc[r] # "done", Answer(r, status), UNCHANGED stored,
         status = 202 => stored[r] = 1, status = 400 => stored[r] = 0
  PROVE  Promise!Next
<1>1. pc'[r] = "done" /\ answer[r] = 0
  BY AnswerGiven DEF TypeOK, CallInv
<1>2. CASE answer'[r] = 0 \/ status = 502
  <2>1. answer'[r] \in {0, 502}
    BY <1>1, <1>2, AnswerGiven DEF Answer, TypeOK
  <2>2. Conclusion(r)' = "unsure"
    BY <1>1, <2>1 DEF Conclusion
  <2> QED BY <2>2, AnswerMaps DEF Promise!Doubt, Promise!Next
<1>3. CASE answer'[r] # 0 /\ status = 202
  <2>1. answer'[r] = 202
    BY <1>1, <1>3, AnswerGiven DEF Answer, TypeOK
  <2>2. Conclusion(r)' = "yes"
    BY <1>1, <2>1 DEF Conclusion
  <2> QED BY <1>3, <2>2, AnswerMaps DEF Promise!Accept, Promise!Next
<1>4. CASE answer'[r] # 0 /\ status = 400
  <2>1. answer'[r] = 400
    BY <1>1, <1>4, AnswerGiven DEF Answer, TypeOK
  <2>2. Conclusion(r)' = "no"
    BY <1>1, <2>1 DEF Conclusion
  <2> QED BY <1>4, <2>2, AnswerMaps DEF Promise!Refuse, Promise!Next
<1> QED BY <1>2, <1>3, <1>4

(* A step within the handlers that tells nobody anything. *)
LEMMA SilentMaps ==
  ASSUME NEW r \in Requests, pc[r] # "done", UNCHANGED <<answer, stored>>,
         \A q \in Requests : q # r => pc'[q] = pc[q], pc'[r] # "done"
  PROVE  UNCHANGED Promise!vars
BY DEF Promise!vars, Conclusion

LEMMA StepMaps ==
  ASSUME IInv, [Next]_vars
  PROVE  [Promise!Next]_(Promise!vars)
<1> USE DEF IInv, vars, brokerVars, requestVars, loggerVars
<1>1. ASSUME NEW r \in Requests, Submit(r) \/ Dial(r)
      PROVE  [Promise!Next]_(Promise!vars)
  <2>1. /\ pc[r] # "done" /\ pc'[r] # "done" /\ UNCHANGED <<answer, stored>>
        /\ \A q \in Requests : q # r => pc'[q] = pc[q]
    BY <1>1 DEF Submit, Dial, TypeOK
  <2> QED BY <2>1, SilentMaps
<1>2. ASSUME NEW r \in Requests, NEW way \in Transports, NEW kind \in Texts,
             Read(r, way, kind)
      PROVE  [Promise!Next]_(Promise!vars)
  <2>1. pc[r] # "done" /\ stored[r] = 0 /\ UNCHANGED stored
    BY <1>2 DEF Read, CallInv, EntryInv
  <2>2. CASE kind = "blank"
    <3>1. Answer(r, 400)
      BY <1>2, <2>2 DEF Read
    <3> QED BY <2>1, <3>1, EndMaps
  <2>3. CASE kind # "blank"
    <3>1. /\ pc'[r] # "done" /\ UNCHANGED answer
          /\ \A q \in Requests : q # r => pc'[q] = pc[q]
      BY <1>2, <2>3 DEF Read, TypeOK
    <3> QED BY <2>1, <3>1, SilentMaps
  <2> QED BY <2>2, <2>3
<1>3. ASSUME NEW r \in Requests, BodyLate(r)
      PROVE  [Promise!Next]_(Promise!vars)
  <2>1. /\ pc[r] # "done" /\ stored[r] = 0 /\ UNCHANGED stored
        /\ Answer(r, 400)
    BY <1>3 DEF BodyLate, CallInv, EntryInv
  <2> QED BY <2>1, EndMaps
<1>4. ASSUME NEW r \in Requests, Ending(r)
      PROVE  [Promise!Next]_(Promise!vars)
  <2>1. pc[r] # "done" /\ UNCHANGED stored
    BY <1>4, EndingAnswers DEF Waiting
  <2>2. CASE Answer(r, 502)
    BY <2>1, <2>2, EndMaps
  <2>3. CASE server[r] = "ok" /\ Answer(r, 202)
    <3>1. stored[r] = 1
      BY <2>3 DEF EntryInv
    <3> QED BY <2>1, <2>3, <3>1, EndMaps
  <2> QED BY <1>4, <2>2, <2>3, EndingAnswers
<1>5. ASSUME NEW r \in Requests, Logger(r)
      PROVE  [Promise!Next]_(Promise!vars)
  <2>1. UNCHANGED <<pc, answer>> /\ server[r] = "running"
    BY <1>5 DEF Logger, ForcedFailure, Insert, InsertFails, Killed, Ends
  <2>2. CASE UNCHANGED stored
    BY <2>1, <2>2 DEF Promise!vars, Conclusion
  <2>3. CASE stored' = [stored EXCEPT ![r] = @ + 1]
    <3>1. stored[r] = 0 /\ answer[r] # 400
      BY <2>1 DEF CallInv, EntryInv
    <3>2. stored' = [stored EXCEPT ![r] = 1]
      BY <2>3, <3>1
    <3>3. Conclusion(r) # "no"
      BY <3>1 DEF Conclusion, TypeOK
    <3>4. UNCHANGED [q \in Requests |-> Conclusion(q)]
      BY <2>1 DEF Conclusion
    <3>5. Promise!Perform(r)
      BY <3>1, <3>2, <3>3, <3>4 DEF Promise!Perform
    <3> QED BY <3>5 DEF Promise!Next
  <2> QED
    BY <1>5, <2>2, <2>3
       DEF Logger, ForcedFailure, Insert, InsertFails, Killed, MaybeStored
<1>6. CASE UNCHANGED <<pc, answer, stored>>
  BY <1>6 DEF Promise!vars, Conclusion
<1> QED
  BY <1>1, <1>2, <1>3, <1>4, <1>5, <1>6
     DEF Next, Broker, Ending, LoggerStop, LoggerStart, Tick

(* HTTP, net/rpc and gRPC keep the promise of Submission: 202 stands for   *)
(* the one document, 400 for none, 502 or no answer for either.            *)
THEOREM TransportsKeepPromise == Spec => KeepsPromise
<1>1. Init => Promise!Init
  BY DEF Init, Promise!Init, Conclusion
<1>2. IInv /\ [Next]_vars => [Promise!Next]_(Promise!vars)
  BY StepMaps
<1> QED BY <1>1, <1>2, Invariance, PTL DEF Spec, KeepsPromise, Promise!Spec
=============================================================================
