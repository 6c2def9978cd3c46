------------------------- MODULE MailDeliveryProofs -------------------------
(***************************************************************************)
(* Machine-checked proofs about MailDelivery, for every set of submissions *)
(* and any number of stops of the mail service.                            *)
(***************************************************************************)
EXTENDS MailDelivery, TLAPS

USE StopsAssumption DEF Working, Mails, Exchanges

-----------------------------------------------------------------------------
(* Type correctness and the clock *)

LEMMA InvInit == Init => IInv
<1> SUFFICES ASSUME Init PROVE IInv
  OBVIOUS
<1>1. TypeOK
  BY DEF Init, TypeOK
<1>2. CallInv /\ MailboxInv /\ ClockInv
  BY DEF Init, CallInv, MailboxInv, ClockInv
<1> QED BY <1>1, <1>2 DEF IInv

LEMMA ClockStep ==
  ASSUME TypeOK, CallInv, ClockInv, [Next]_vars
  PROVE  TypeOK' /\ ClockInv'
<1> USE DEF TypeOK, ClockInv, vars, brokerVars, smtpVars, mailVars, processVars
<1>1. ASSUME NEW r \in Requests, NEW what \in Mails, Submit(r, what)
      PROVE  TypeOK' /\ ClockInv'
  BY <1>1 DEF Submit, Answer
<1>2. ASSUME NEW r \in Requests, Broker(r) PROVE TypeOK' /\ ClockInv'
  BY <1>2 DEF Broker, Relay, Refused, Disconnected, GiveUp, Answer
<1>3. ASSUME NEW r \in Requests, Arrive(r) \/ Connected(r) \/ Smtp(r)
      PROVE  TypeOK' /\ ClockInv'
  <2>1. CASE Arrive(r) \/ Connected(r)
    BY <2>1 DEF Arrive, Connected, Goto, CallInv
  <2>2. CASE Smtp(r)
    BY <2>2 DEF Smtp, Taken, Closed, SmtpStep
  <2> QED BY <1>3, <2>1, <2>2
<1>4. ASSUME NEW r \in Requests, Sent(r) \/ Fails(r) \/ Killed(r)
      PROVE  TypeOK' /\ ClockInv'
  BY <1>4 DEF Sent, Fails, Killed, Return, Goto
<1>5. CASE MailStop \/ MailStart
  <2>1. mailUp' \in BOOLEAN
    BY <1>5 DEF MailStop, MailStart
  <2>2. mailStops' \in 0..MaxMailStops
    BY <1>5 DEF MailStop, MailStart
  <2> QED BY <1>5, <2>1, <2>2 DEF MailStop, MailStart
<1>6. CASE Tick
  <2>1. /\ \A r \in Requests : ~Due(r)
        /\ age' = [r \in Requests |-> IF Counted(r) THEN age[r] + 1 ELSE age[r]]
        /\ spent' = [r \in Requests |-> IF step[r] = "connecting" THEN spent[r] + 1
                                                                 ELSE spent[r]]
        /\ UNCHANGED <<brokerVars, step, reply, smtpVars, processVars>>
    BY <1>6 DEF Tick
  <2>2. ASSUME NEW r \in Requests
        PROVE  /\ pc[r] = "asking" => age[r] < 10
               /\ step[r] = "connecting" => spent[r] < 10
    BY <2>1 DEF Due, ClientLimit, ConnectLimit
  <2>3. age' \in [Requests -> Nat] /\ spent' \in [Requests -> 0..10]
    BY <2>1, <2>2
  <2>4. ClockInv'
    BY <2>1, <2>2 DEF Counted, CallInv
  <2> QED BY <2>1, <2>3, <2>4
<1>7. CASE UNCHANGED vars
  BY <1>7
<1> QED BY <1>1, <1>2, <1>3, <1>4, <1>5, <1>6, <1>7 DEF Next, Service

-----------------------------------------------------------------------------
(* Who has begun, who has answered *)

LEMMA CallStep ==
  ASSUME TypeOK, CallInv, [Next]_vars
  PROVE  CallInv'
<1> USE DEF TypeOK, CallInv, vars, brokerVars, smtpVars, mailVars
<1>1. ASSUME NEW r \in Requests, NEW what \in Mails, Submit(r, what) PROVE CallInv'
  BY <1>1 DEF Submit, Answer
<1>2. ASSUME NEW r \in Requests, Broker(r) PROVE CallInv'
  BY <1>2 DEF Broker, Relay, Refused, Disconnected, GiveUp, Answer
<1>3. ASSUME NEW r \in Requests, Service(r) PROVE CallInv'
  BY <1>3 DEF Service, Arrive, Connected, Sent, Fails, Killed, Return, Goto
<1>4. ASSUME NEW r \in Requests, Smtp(r) PROVE CallInv'
  BY <1>4 DEF Smtp, Taken, Closed, SmtpStep
<1>5. CASE MailStop \/ MailStart \/ Tick \/ UNCHANGED vars
  BY <1>5 DEF MailStop, MailStart, Tick
<1> QED BY <1>1, <1>2, <1>3, <1>4, <1>5 DEF Next

-----------------------------------------------------------------------------
(* What the SMTP server took *)

LEMMA MailboxStep ==
  ASSUME TypeOK, CallInv, MailboxInv, [Next]_vars
  PROVE  MailboxInv'
<1> USE DEF TypeOK, CallInv, MailboxInv, vars, smtpVars, mailVars
<1>1. ASSUME NEW r \in Requests, Service(r) PROVE MailboxInv'
  BY <1>1 DEF Service, Arrive, Connected, Sent, Fails, Killed, Return, Goto
<1>2. ASSUME NEW r \in Requests, Smtp(r) PROVE MailboxInv'
  BY <1>2 DEF Smtp, Taken, Closed, SmtpStep
<1>3. CASE UNCHANGED <<step, reply, exchange, mailbox>>
  BY <1>3
<1> QED
  BY <1>1, <1>2, <1>3
     DEF Next, Submit, Broker, Relay, Refused, Disconnected, GiveUp, MailStop,
         MailStart, Tick

LEMMA InvStep == IInv /\ [Next]_vars => IInv'
BY ClockStep, CallStep, MailboxStep DEF IInv

(* The inductive invariant holds in every reachable state: the two         *)
(* handlers of a mail, the SMTP server and the clocks fit each other.      *)
THEOREM Invariance == Spec => []IInv
<1>1. Init => IInv
  BY InvInit
<1>2. IInv /\ [Next]_vars => IInv'
  BY InvStep
<1> QED BY <1>1, <1>2, PTL DEF Spec

(* Every variable keeps its type; no connecting outlasts its ten seconds.  *)
THEOREM TypeCorrect == Spec => []TypeOK
<1>1. IInv => TypeOK
  BY DEF IInv
<1> QED BY <1>1, Invariance, PTL

-----------------------------------------------------------------------------
(* The time limits *)

(* However the service, the broker and the SMTP server delay each other,   *)
(* the exchange for a mail begins within twenty seconds or never.          *)
THEOREM SendsAreBegunInTime == Spec => SendsBeginInTime
<1>1. ASSUME IInv, [Next]_vars, NEW r \in Requests,
             exchange[r] = "none", exchange'[r] # "none"
      PROVE  age[r] =< 10 + 10
  <2>1. ASSUME NEW q \in Requests, Connected(q) PROVE age[r] =< 20
    <3>1. step[r] = "connecting"
      BY <1>1, <2>1 DEF Connected, IInv, TypeOK
    <3>2. age[r] \in Nat /\ spent[r] \in 0..10
      BY <1>1 DEF IInv, TypeOK
    <3> QED BY <1>1, <3>1, <3>2 DEF IInv, ClockInv
  <2>2. ASSUME NEW q \in Requests, Smtp(q) PROVE FALSE
    BY <1>1, <2>2 DEF Smtp, Taken, Closed, SmtpStep, IInv, TypeOK
  <2>3. CASE UNCHANGED exchange
    BY <1>1, <2>3
  <2> QED
    BY <1>1, <2>1, <2>2, <2>3
       DEF Next, Submit, Broker, Relay, Refused, Disconnected, GiveUp, Service, Arrive,
           Sent, Fails, Killed, MailStop, MailStart, Tick, vars, mailVars, smtpVars
<1>2. IInv /\ [Next]_vars =>
        [\A r \in Requests :
           exchange[r] = "none" /\ exchange'[r] # "none" => age[r] =< 10 + 10]_vars
  BY <1>1
<1> QED BY <1>2, Invariance, PTL DEF Spec, SendsBeginInTime

-----------------------------------------------------------------------------
(* The promise of Submission *)

(* A function that differs from another at one argument only. *)
LEMMA ChangedAt ==
  ASSUME NEW S, NEW f, NEW g, NEW r \in S,
         f = [q \in S |-> f[q]], g = [q \in S |-> g[q]],
         \A q \in S : q # r => g[q] = f[q]
  PROVE  g = [f EXCEPT ![r] = g[r]]
OBVIOUS

(* The broker's handler writes its status, nothing else is told to anyone. *)
LEMMA AnswerMaps ==
  ASSUME TypeOK, NEW r \in Requests, NEW status, NEW word,
         answer[r] = 0, answer' = [answer EXCEPT ![r] = status], UNCHANGED mailbox,
         Conclusion(r)' = word
  PROVE  Promise!Reply(r, word)
<1> DEFINE old == [q \in Requests |-> Conclusion(q)]
           new == [q \in Requests |-> Conclusion(q)']
<1>1. new = [old EXCEPT ![r] = new[r]]
  <2>1. \A q \in Requests : q # r => new[q] = old[q]
    BY DEF TypeOK, Conclusion
  <2> HIDE DEF old, new
  <2>2. old = [q \in Requests |-> old[q]] /\ new = [q \in Requests |-> new[q]]
    BY DEF old, new
  <2> QED BY <2>1, <2>2, ChangedAt
<1>2. Conclusion(r) = "none" /\ new[r] = word
  BY DEF Conclusion
<1> QED BY <1>1, <1>2 DEF Promise!Reply

(* What each status stands for. *)
LEMMA AcceptMaps ==
  ASSUME TypeOK, NEW r \in Requests, answer[r] = 0,
         answer' = [answer EXCEPT ![r] = 202], UNCHANGED mailbox, mailbox[r] = 1
  PROVE  Promise!Next
<1>1. Conclusion(r)' = "yes"
  BY DEF TypeOK, Conclusion
<1> QED BY <1>1, AnswerMaps DEF Promise!Accept, Promise!Next

LEMMA RefuseMaps ==
  ASSUME TypeOK, NEW r \in Requests, answer[r] = 0,
         answer' = [answer EXCEPT ![r] = 400], UNCHANGED mailbox, mailbox[r] = 0
  PROVE  Promise!Next
<1>1. Conclusion(r)' = "no"
  BY DEF TypeOK, Conclusion
<1> QED BY <1>1, AnswerMaps DEF Promise!Refuse, Promise!Next

LEMMA DoubtMaps ==
  ASSUME TypeOK, NEW r \in Requests, answer[r] = 0,
         answer' = [answer EXCEPT ![r] = 502], UNCHANGED mailbox
  PROVE  Promise!Next
<1>1. Conclusion(r)' = "unsure"
  BY DEF TypeOK, Conclusion
<1> QED BY <1>1, AnswerMaps DEF Promise!Doubt, Promise!Next

LEMMA StepMaps ==
  ASSUME IInv, [Next]_vars
  PROVE  [Promise!Next]_(Promise!vars)
<1> USE DEF IInv, vars, brokerVars, smtpVars, mailVars
<1>1. ASSUME NEW r \in Requests, NEW what \in Mails, Submit(r, what)
      PROVE  [Promise!Next]_(Promise!vars)
  <2>1. CASE what = "blank"
    <3>1. /\ answer' = [answer EXCEPT ![r] = 400] /\ answer[r] = 0
          /\ mailbox[r] = 0 /\ UNCHANGED mailbox
      BY <1>1, <2>1 DEF Submit, Answer, CallInv, MailboxInv
    <3> QED BY <3>1, RefuseMaps
  <2>2. CASE what # "blank"
    BY <1>1, <2>2 DEF Submit, Promise!vars, Conclusion
  <2> QED BY <2>1, <2>2
<1>2. ASSUME NEW r \in Requests, Relay(r)
      PROVE  [Promise!Next]_(Promise!vars)
  <2>1. answer[r] = 0 /\ UNCHANGED mailbox
    BY <1>2 DEF Relay, CallInv
  <2>2. CASE reply[r] = 202
    <3>1. answer' = [answer EXCEPT ![r] = 202] /\ mailbox[r] = 1
      BY <1>2, <2>2 DEF Relay, Answer, MailboxInv
    <3> QED BY <2>1, <3>1, AcceptMaps
  <2>3. CASE reply[r] # 202
    <3>1. answer' = [answer EXCEPT ![r] = 502]
      BY <1>2, <2>3 DEF Relay, Answer
    <3> QED BY <2>1, <3>1, DoubtMaps
  <2> QED BY <2>2, <2>3
<1>3. ASSUME NEW r \in Requests, Refused(r) \/ Disconnected(r) \/ GiveUp(r)
      PROVE  [Promise!Next]_(Promise!vars)
  <2>1. /\ answer[r] = 0 /\ UNCHANGED mailbox
        /\ answer' = [answer EXCEPT ![r] = 502]
    BY <1>3 DEF Refused, Disconnected, GiveUp, Answer, CallInv
  <2> QED BY <2>1, DoubtMaps
<1>4. ASSUME NEW r \in Requests, Taken(r)
      PROVE  [Promise!Next]_(Promise!vars)
  <2>1. mailbox[r] = 0 /\ answer[r] # 400 /\ UNCHANGED answer
    <3>1. mailbox[r] = 0
      BY <1>4 DEF Taken, SmtpStep, MailboxInv
    <3>2. answer[r] # 400
      BY <1>4 DEF Taken, CallInv
    <3> QED BY <1>4, <3>1, <3>2 DEF Taken, SmtpStep
  <2>2. mailbox' = [mailbox EXCEPT ![r] = 1]
    BY <1>4, <2>1 DEF Taken
  <2>3. Conclusion(r) # "no"
    BY <2>1 DEF Conclusion, TypeOK
  <2>4. UNCHANGED [q \in Requests |-> Conclusion(q)]
    BY <2>1 DEF Conclusion
  <2>5. Promise!Perform(r)
    BY <2>1, <2>2, <2>3, <2>4 DEF Promise!Perform
  <2> QED BY <2>5 DEF Promise!Next
<1>5. CASE UNCHANGED <<answer, mailbox>>
  BY <1>5 DEF Promise!vars, Conclusion
<1> QED
  BY <1>1, <1>2, <1>3, <1>4, <1>5
     DEF Next, Broker, Service, Arrive, Connected, Sent, Fails, Killed, Smtp, Closed,
         SmtpStep, MailStop, MailStart, Tick

(* The broker's answer about a mail keeps the promise of Submission: 202   *)
(* stands for one mail taken, 400 for none ever, 502 for either.           *)
THEOREM MailKeepsPromise == Spec => KeepsPromise
<1>1. Init => Promise!Init
  BY DEF Init, Promise!Init, Conclusion
<1>2. IInv /\ [Next]_vars => [Promise!Next]_(Promise!vars)
  BY StepMaps
<1> QED BY <1>1, <1>2, Invariance, PTL DEF Spec, KeepsPromise, Promise!Spec
=============================================================================
