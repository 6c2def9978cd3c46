------------------------ MODULE AuthenticationProofs ------------------------
(***************************************************************************)
(* Machine-checked proofs about Authentication, for every set of           *)
(* submissions and of passwords and any number of changes and stops.       *)
(***************************************************************************)
EXTENDS Authentication, TLAPS

USE BlankAssumption, BoundsAssumption, NoAccountAssumption DEF Working

-----------------------------------------------------------------------------
(* Type correctness *)

(* What the statements of the package data leave is an account. *)
LEMMA AccountTypes ==
  ASSUME NEW user \in Accounts, user # NoAccount
  PROVE  /\ user \in Users /\ user.password \in Passwords /\ user.active \in BOOLEAN
         /\ [user EXCEPT !.active = ~@] \in Accounts
         /\ \A password \in Passwords : [user EXCEPT !.password = password] \in Accounts
BY DEF Accounts, Users

LEMMA TypeInit == Init => TypeOK
<1> SUFFICES ASSUME Init PROVE TypeOK
  OBVIOUS
<1>1. NoAccount \in Accounts
  BY DEF Accounts
<1> QED BY <1>1 DEF Init, TypeOK

(* A change touches the account, its counter and the history. *)
LEMMA TypeChange ==
  ASSUME TypeOK, NEW user \in Accounts, ChangeTo(user)
  PROVE  TypeOK'
<1>1. valid' \in [Requests -> BOOLEAN]
  BY DEF ChangeTo
<1>2. account' \in Accounts /\ changes' \in 0..MaxChanges /\ stops' \in 0..MaxStops
  BY DEF ChangeTo, TypeOK
<1>3. dbUp' \in BOOLEAN /\ authUp' \in BOOLEAN
  BY DEF ChangeTo, TypeOK
<1> QED
  BY <1>1, <1>2, <1>3 DEF ChangeTo, TypeOK, brokerVars, authVars, loggerVars

(* Any change of the account is a change to an account. *)
LEMMA Changing ==
  ASSUME TypeOK, Update \/ ResetPassword \/ Delete \/ InsertUser
  PROVE  \E user \in Accounts : ChangeTo(user)
<1>1. NoAccount \in Accounts /\ Users \subseteq Accounts
  BY DEF Accounts
<1>2. CASE Update
  BY <1>2, AccountTypes DEF Update, TypeOK
<1>3. CASE ResetPassword
  BY <1>3, AccountTypes DEF ResetPassword, TypeOK
<1>4. CASE Delete \/ InsertUser
  BY <1>1, <1>4 DEF Delete, InsertUser
<1> QED BY <1>2, <1>3, <1>4

LEMMA TypeStep ==
  ASSUME TypeOK, [Next]_vars
  PROVE  TypeOK'
<1> USE DEF TypeOK, vars, brokerVars, authVars, loggerVars, worldVars
<1>1. ASSUME NEW r \in Requests, NEW password \in Passwords \cup {Blank},
             Submit(r, password)
      PROVE  TypeOK'
  <2>1. valid' \in [Requests -> BOOLEAN]
    BY <1>1 DEF Submit, Accepts, RightPassword
  <2> QED BY <1>1, <2>1 DEF Submit, Answer
<1>2. ASSUME NEW r \in Requests, Relay(r) \/ RelayCut(r) \/ GiveUp(r) PROVE TypeOK'
  <2>1. \E status \in {202, 400, 401, 502} : Answer(r, status)
    BY <1>2 DEF Relay, RelayCut, GiveUp
  <2> QED BY <1>2, <2>1 DEF Relay, RelayCut, GiveUp, Answer
<1>3. ASSUME NEW r \in Requests, Service(r) PROVE TypeOK'
  BY <1>3
     DEF Service, Arrive, ReadUser, ReadFails, Check, PostEntry, Logged, NotLogged,
         Killed, Return
<1>4. ASSUME NEW r \in Requests, Store(r) \/ StoreFails(r) PROVE TypeOK'
  BY <1>4 DEF Store, StoreFails
<1>5. CASE Update \/ ResetPassword \/ Delete \/ InsertUser
  BY <1>5, Changing, TypeChange
<1>6. CASE Stop \/ DbStart \/ AuthStart
  <2>1. dbUp' \in BOOLEAN /\ authUp' \in BOOLEAN
    BY <1>6 DEF Stop, DbStart, AuthStart
  <2>2. stops' \in 0..MaxStops
    BY <1>6 DEF Stop, DbStart, AuthStart
  <2> QED BY <1>6, <2>1, <2>2 DEF Stop, DbStart, AuthStart
<1>7. CASE UNCHANGED vars
  BY <1>7
<1> QED BY <1>1, <1>2, <1>3, <1>4, <1>5, <1>6, <1>7 DEF Next, Broker

-----------------------------------------------------------------------------
(* How far the three handlers are *)

LEMMA CallStep ==
  ASSUME TypeOK, CallInv, [Next]_vars
  PROVE  CallInv'
<1> USE DEF TypeOK, CallInv, vars, brokerVars, authVars, loggerVars
<1>1. ASSUME NEW r \in Requests, NEW password \in Passwords \cup {Blank},
             Submit(r, password)
      PROVE  CallInv'
  BY <1>1 DEF Submit, Answer
<1>2. ASSUME NEW r \in Requests, Relay(r) \/ RelayCut(r) \/ GiveUp(r) PROVE CallInv'
  BY <1>2 DEF Relay, RelayCut, GiveUp, Answer
<1>3. ASSUME NEW r \in Requests, Arrive(r) \/ ReadUser(r) \/ ReadFails(r) PROVE CallInv'
  BY <1>3 DEF Arrive, ReadUser, ReadFails, Return
<1>4. ASSUME NEW r \in Requests, Check(r) PROVE CallInv'
  BY <1>4 DEF Check, PostEntry, Return
<1>5. ASSUME NEW r \in Requests, Logged(r) \/ NotLogged(r) \/ Killed(r) PROVE CallInv'
  BY <1>5 DEF Logged, NotLogged, Killed, Return
<1>6. ASSUME NEW r \in Requests, Store(r) \/ StoreFails(r) PROVE CallInv'
  BY <1>6 DEF Store, StoreFails
<1>7. ASSUME NEW user \in Accounts, ChangeTo(user) PROVE CallInv'
  BY <1>7 DEF ChangeTo
<1>8. CASE Stop \/ DbStart \/ AuthStart \/ UNCHANGED vars
  BY <1>8 DEF Stop, DbStart, AuthStart
<1> QED
  BY <1>1, <1>2, <1>3, <1>4, <1>5, <1>6, <1>7, <1>8, Changing
     DEF Next, Broker, Service

-----------------------------------------------------------------------------
(* What is in the log *)

LEMMA EntryStep ==
  ASSUME TypeOK, CallInv, EntryInv, [Next]_vars
  PROVE  EntryInv'
<1> USE DEF TypeOK, CallInv, EntryInv, vars, loggerVars
<1>1. ASSUME NEW r \in Requests, Check(r) PROVE EntryInv'
  BY <1>1 DEF Check, PostEntry
<1>2. ASSUME NEW r \in Requests, Store(r) \/ StoreFails(r) PROVE EntryInv'
  BY <1>2 DEF Store, StoreFails
<1>3. CASE UNCHANGED loggerVars
  BY <1>3
<1> QED
  BY <1>1, <1>2, <1>3
     DEF Next, Broker, Submit, Relay, RelayCut, GiveUp, Service, Arrive, ReadUser,
         ReadFails, Logged, NotLogged, Killed, Update, ResetPassword, Delete,
         InsertUser, ChangeTo, Stop, DbStart, AuthStart

-----------------------------------------------------------------------------
(* What is accepted was right while it was pending *)

LEMMA ValidStep ==
  ASSUME TypeOK, CallInv, ValidInv, [Next]_vars
  PROVE  ValidInv'
<1> USE DEF TypeOK, CallInv, ValidInv, vars, brokerVars, authVars, loggerVars, worldVars
<1>1. ASSUME NEW r \in Requests, NEW password \in Passwords \cup {Blank},
             Submit(r, password)
      PROVE  ValidInv'
  <2>1. /\ given' = [given EXCEPT ![r] = password] /\ UNCHANGED <<account, seen, step, entry>>
        /\ valid' = [valid EXCEPT ![r] = Accepts(account, password)]
        /\ \A q \in Requests : q # r => pc'[q] = pc[q]
    BY <1>1 DEF Submit, Answer
  <2>2. ASSUME NEW q \in Requests, q # r
        PROVE  /\ given'[q] = given[q] /\ (valid'[q] <=> valid[q])
               /\ pc'[q] = pc[q]
    BY <2>1, <2>2
  <2>3. /\ given'[r] = password /\ (valid'[r] <=> Accepts(account, password))
        /\ step[r] = "none" /\ entry[r] = "none"
    BY <1>1, <2>1 DEF Submit
  <2> QED BY <2>1, <2>2, <2>3 DEF Accepts, RightPassword
<1>2. ASSUME NEW r \in Requests, Relay(r) \/ RelayCut(r) \/ GiveUp(r) PROVE ValidInv'
  BY <1>2 DEF Relay, RelayCut, GiveUp, Answer, Accepts, RightPassword
<1>3. ASSUME NEW r \in Requests, Arrive(r) \/ ReadUser(r) \/ ReadFails(r)
      PROVE  ValidInv'
  BY <1>3 DEF Arrive, ReadUser, ReadFails, Return, Accepts, RightPassword
<1>4. ASSUME NEW r \in Requests, Check(r) PROVE ValidInv'
  BY <1>4 DEF Check, PostEntry, Return, Accepts, RightPassword
<1>5. ASSUME NEW r \in Requests, Logged(r) \/ NotLogged(r) \/ Killed(r)
      PROVE  ValidInv'
  BY <1>5 DEF Logged, NotLogged, Killed, Return, Accepts, RightPassword
<1>6. ASSUME NEW r \in Requests, Store(r) \/ StoreFails(r) PROVE ValidInv'
  BY <1>6 DEF Store, StoreFails, Accepts, RightPassword
<1>7. ASSUME NEW user \in Accounts, ChangeTo(user) PROVE ValidInv'
  BY <1>7 DEF ChangeTo, Accepts, RightPassword
<1>8. CASE Stop \/ DbStart \/ AuthStart \/ UNCHANGED vars
  BY <1>8 DEF Stop, DbStart, AuthStart, Accepts, RightPassword
<1> QED
  BY <1>1, <1>2, <1>3, <1>4, <1>5, <1>6, <1>7, <1>8, Changing DEF Next, Broker, Service

LEMMA InvInit == Init => IInv
<1> SUFFICES ASSUME Init PROVE IInv
  OBVIOUS
<1>1. CallInv /\ EntryInv /\ ValidInv
  BY DEF Init, CallInv, EntryInv, ValidInv
<1> QED BY <1>1, TypeInit DEF IInv

LEMMA InvStep == IInv /\ [Next]_vars => IInv'
BY TypeStep, CallStep, EntryStep, ValidStep DEF IInv

(* The inductive invariant holds in every reachable state: the three       *)
(* handlers of a login, the account as it was read and the entry in the    *)
(* log fit each other.                                                     *)
THEOREM Invariance == Spec => []IInv
<1>1. Init => IInv
  BY InvInit
<1>2. IInv /\ [Next]_vars => IInv'
  BY InvStep
<1> QED BY <1>1, <1>2, PTL DEF Spec

(* Every variable keeps its type, whatever happens to the account. *)
THEOREM TypeCorrect == Spec => []TypeOK
<1>1. IInv => TypeOK
  BY DEF IInv
<1> QED BY <1>1, Invariance, PTL

(* authenticateUser lets nobody in, and logs nobody, whose password and    *)
(* active flag were not right at one moment while the login was pending.   *)
THEOREM LoginsAreValid == Spec => []LoginWasValid
<1>1. IInv => LoginWasValid
  BY DEF IInv, TypeOK, CallInv, EntryInv, ValidInv, LoginWasValid
<1> QED BY <1>1, Invariance, PTL

(* A login that was refused, or incomplete, is not in the log, nor will be *)
(* without another submission; a complete one that was answered 400 is.    *)
THEOREM EntriesFit == Spec => []EntriesFitAnswers
<1>1. IInv => EntriesFitAnswers
  <2> SUFFICES ASSUME IInv, NEW r \in Requests
               PROVE  /\ answer[r] = 401 \/ given[r] = Blank =>
                           entries[r] = 0 /\ entry[r] # "running"
                      /\ answer[r] = 400 /\ given[r] # Blank =>
                           entries[r] = 1 /\ valid[r]
    BY DEF EntriesFitAnswers
  <2>1. answer[r] = 401 \/ given[r] = Blank => entry[r] = "none"
    BY DEF IInv, CallInv
  <2>2. answer[r] = 400 /\ given[r] # Blank => entry[r] = "ok"
    BY DEF IInv, CallInv
  <2>3. entry[r] = "ok" => entries[r] = 1 /\ valid[r]
    BY DEF IInv, EntryInv, ValidInv
  <2>4. entry[r] = "none" => entries[r] = 0
    BY DEF IInv, EntryInv
  <2> QED BY <2>1, <2>2, <2>3, <2>4
<1> QED BY <1>1, Invariance, PTL

-----------------------------------------------------------------------------
(* The promise of Submission *)

(* A function that differs from another at one argument only. *)
LEMMA ChangedAt ==
  ASSUME NEW S, NEW f, NEW g, NEW r \in S,
         f = [q \in S |-> f[q]], g = [q \in S |-> g[q]],
         \A q \in S : q # r => g[q] = f[q]
  PROVE  g = [f EXCEPT ![r] = g[r]]
OBVIOUS

(* The broker's handler writes its status, nothing else is told to anyone. *)
LEMMA AnswerMaps ==
  ASSUME TypeOK, NEW r \in Requests, NEW status, NEW word,
         answer[r] = 0, answer' = [answer EXCEPT ![r] = status], UNCHANGED entries,
         \A q \in Requests : q # r => given'[q] = given[q],
         Conclusion(r)' = word
  PROVE  Promise!Reply(r, word)
<1> DEFINE old == [q \in Requests |-> Conclusion(q)]
           new == [q \in Requests |-> Conclusion(q)']
<1>1. new = [old EXCEPT ![r] = new[r]]
  <2>1. \A q \in Requests : q # r => new[q] = old[q]
    BY DEF TypeOK, Conclusion, Refused
  <2> HIDE DEF old, new
  <2>2. old = [q \in Requests |-> old[q]] /\ new = [q \in Requests |-> new[q]]
    BY DEF old, new
  <2> QED BY <2>1, <2>2, ChangedAt
<1>2. Conclusion(r) = "none"
  BY DEF Conclusion, Refused
<1>3. new[r] = word
  OBVIOUS
<1> QED BY <1>1, <1>2, <1>3 DEF Promise!Reply

LEMMA StepMaps ==
  ASSUME IInv, [Next]_vars
  PROVE  [Promise!Next]_(Promise!vars)
<1> USE DEF IInv, vars, brokerVars, authVars, loggerVars
<1>1. ASSUME NEW r \in Requests, NEW password \in Passwords \cup {Blank},
             Submit(r, password)
      PROVE  [Promise!Next]_(Promise!vars)
  <2>1. answer[r] = 0 /\ entries[r] = 0 /\ UNCHANGED entries
    BY <1>1 DEF Submit, CallInv, EntryInv
  <2>2. /\ \A q \in Requests : q # r => given'[q] = given[q]
        /\ given'[r] = password
    BY <1>1 DEF Submit, TypeOK
  <2>3. CASE password = Blank
    <3>1. answer' = [answer EXCEPT ![r] = 400]
      BY <1>1, <2>3 DEF Submit, Answer
    <3>2. Conclusion(r)' = "no"
      BY <2>2, <2>3, <3>1 DEF Conclusion, Refused, TypeOK
    <3> QED BY <2>1, <2>2, <3>1, <3>2, AnswerMaps DEF Promise!Refuse, Promise!Next
  <2>4. CASE password # Blank
    <3>1. UNCHANGED answer
      BY <1>1, <2>4 DEF Submit
    <3>2. \A q \in Requests : Conclusion(q)' = Conclusion(q)
      BY <2>1, <2>2, <3>1 DEF Conclusion, Refused
    <3> QED BY <2>1, <3>2 DEF Promise!vars
  <2> QED BY <2>3, <2>4
<1>2. ASSUME NEW r \in Requests, Relay(r) PROVE [Promise!Next]_(Promise!vars)
  <2>1. answer[r] = 0 /\ UNCHANGED <<given, entries>>
    BY <1>2 DEF Relay, CallInv
  <2>2. CASE reply[r] = 200
    <3>1. answer' = [answer EXCEPT ![r] = 202]
      BY <1>2, <2>2 DEF Relay, Answer
    <3>2. Conclusion(r)' = "yes"
      BY <3>1 DEF Conclusion, Refused, TypeOK
    <3>3. entries[r] = 1
      BY <2>2 DEF CallInv, EntryInv
    <3> QED BY <2>1, <3>1, <3>2, <3>3, AnswerMaps DEF Promise!Accept, Promise!Next
  <2>3. CASE reply[r] = 401
    <3>1. answer' = [answer EXCEPT ![r] = 401]
      BY <1>2, <2>3 DEF Relay, Answer
    <3>2. Conclusion(r)' = "no"
      <4>1. answer'[r] = 401
        BY <3>1 DEF TypeOK
      <4>2. Refused(r)'
        BY <4>1 DEF Refused
      <4> QED BY <4>1, <4>2 DEF Conclusion
    <3>3. entries[r] = 0
      BY <2>3 DEF CallInv, EntryInv
    <3> QED BY <2>1, <3>1, <3>2, <3>3, AnswerMaps DEF Promise!Refuse, Promise!Next
  <2>4. CASE reply[r] \notin {200, 401}
    <3>1. answer' = [answer EXCEPT ![r] = 502]
      BY <1>2, <2>4 DEF Relay, Answer
    <3>2. Conclusion(r)' = "unsure"
      BY <1>2, <2>1, <3>1 DEF Conclusion, Refused, TypeOK, Relay, CallInv
    <3> QED BY <2>1, <3>1, <3>2, AnswerMaps DEF Promise!Doubt, Promise!Next
  <2> QED BY <2>2, <2>3, <2>4
<1>3. ASSUME NEW r \in Requests, RelayCut(r) \/ GiveUp(r)
      PROVE  [Promise!Next]_(Promise!vars)
  <2>1. answer[r] = 0 /\ given[r] # Blank /\ UNCHANGED <<given, entries>>
    BY <1>3 DEF RelayCut, GiveUp, CallInv
  <2>2. CASE answer' = [answer EXCEPT ![r] = 400]
    <3>1. Conclusion(r)' = "unsure"
      BY <2>1, <2>2 DEF Conclusion, Refused, TypeOK
    <3> QED BY <2>1, <2>2, <3>1, AnswerMaps DEF Promise!Doubt, Promise!Next
  <2>3. CASE answer' = [answer EXCEPT ![r] = 502]
    <3>1. Conclusion(r)' = "unsure"
      BY <2>1, <2>3 DEF Conclusion, Refused, TypeOK
    <3> QED BY <2>1, <2>3, <3>1, AnswerMaps DEF Promise!Doubt, Promise!Next
  <2> QED BY <1>3, <2>2, <2>3 DEF RelayCut, GiveUp, Answer
<1>4. ASSUME NEW r \in Requests, entry[r] = "running", UNCHANGED <<given, answer>>,
             entries' = [entries EXCEPT ![r] = @ + 1]
      PROVE  [Promise!Next]_(Promise!vars)
  <2>1. entries[r] = 0 /\ answer[r] # 401 /\ given[r] # Blank
    BY <1>4 DEF CallInv, EntryInv
  <2>2. entries' = [entries EXCEPT ![r] = 1]
    BY <1>4, <2>1
  <2>3. Conclusion(r) # "no"
    BY <2>1 DEF Conclusion, Refused, TypeOK
  <2>4. UNCHANGED [q \in Requests |-> Conclusion(q)]
    BY <1>4 DEF Conclusion, Refused
  <2>5. Promise!Perform(r)
    BY <2>1, <2>2, <2>3, <2>4 DEF Promise!Perform
  <2> QED BY <2>5 DEF Promise!Next
<1>5. CASE UNCHANGED <<given, answer, entries>>
  BY <1>5 DEF Promise!vars, Conclusion, Refused
<1>6. ASSUME NEW r \in Requests, Store(r) \/ StoreFails(r)
      PROVE  [Promise!Next]_(Promise!vars)
  BY <1>4, <1>5, <1>6 DEF Store, StoreFails
<1>7. ASSUME NEW r \in Requests, Service(r) PROVE UNCHANGED <<given, answer, entries>>
  BY <1>7
     DEF Service, Arrive, ReadUser, ReadFails, Check, Logged, NotLogged, Killed
<1>8. ASSUME NEW user \in Accounts, ChangeTo(user)
      PROVE  UNCHANGED <<given, answer, entries>>
  BY <1>8 DEF ChangeTo
<1>9. CASE Stop \/ DbStart \/ AuthStart \/ UNCHANGED vars
  BY <1>5, <1>9 DEF Stop, DbStart, AuthStart
<1> QED
  BY <1>1, <1>2, <1>3, <1>5, <1>6, <1>7, <1>8, <1>9, Changing DEF Next, Broker

(* The broker's answer to a login keeps the promise of Submission for its  *)
(* entry in the log: 202 stands for one, a refusal for none ever.          *)
THEOREM LoginKeepsPromise == Spec => KeepsPromise
<1>1. Init => Promise!Init
  BY DEF Init, Promise!Init, Conclusion, Refused
<1>2. IInv /\ [Next]_vars => [Promise!Next]_(Promise!vars)
  BY StepMaps
<1> QED BY <1>1, <1>2, Invariance, PTL DEF Spec, KeepsPromise, Promise!Spec
=============================================================================
