--------------------------- MODULE Authentication ---------------------------
(***************************************************************************)
(* Logging in: the broker's Authenticate, the authentication service, the  *)
(* account in PostgreSQL and the entry "... logged in" in the logger.  The *)
(* service reads the account, checks what it read, logs, and only then     *)
(* answers; meanwhile the account may change, either process may give up   *)
(* or go away, and the logger works on no one's time but its own.          *)
(***************************************************************************)
EXTENDS Naturals

CONSTANTS
  Requests,          \* submissions, all of them about one account
  Passwords,
  NoAccount, Blank,  \* no such user; an empty e-mail address or password
  MaxChanges,        \* bound on changes of the account
  MaxStops           \* bound on stops of PostgreSQL and of the service

ASSUME BlankAssumption == Blank \notin Passwords
ASSUME BoundsAssumption == MaxChanges \in Nat /\ MaxStops \in Nat

Users == [password : Passwords, active : BOOLEAN]

ASSUME NoAccountAssumption == NoAccount \notin Users

Accounts == Users \cup {NoAccount}

VARIABLES
  pc,         \* pc[r]: "idle", "asked" or "done", in the broker
  given,      \* given[r]: the password r carries
  answer,     \* answer[r]: the broker's status, 0 for none
  step,       \* step[r]: where the service's handler for r is
  seen,       \* seen[r]: the account as that handler read it
  reply,      \* reply[r]: the service's status, 0 for none
  entry,      \* entry[r]: the logger's handler for r
  entries,    \* entries[r]: documents for r in MongoDB
  account, dbUp, authUp,
  valid,      \* history: r was right at a moment from its submission to the read
  changes, stops

brokerVars == <<pc, given, answer>>
authVars == <<step, seen, reply>>
loggerVars == <<entry, entries>>
worldVars == <<account, dbUp, authUp, changes, stops>>
vars == <<brokerVars, authVars, loggerVars, worldVars, valid>>

Working == {"reading", "checking", "logging"}

Init ==
  /\ pc = [r \in Requests |-> "idle"]
  /\ given = [r \in Requests |-> Blank]
  /\ answer = [r \in Requests |-> 0]
  /\ step = [r \in Requests |-> "none"]
  /\ seen = [r \in Requests |-> NoAccount]
  /\ reply = [r \in Requests |-> 0]
  /\ entry = [r \in Requests |-> "none"]
  /\ entries = [r \in Requests |-> 0]
  /\ account \in Accounts
  /\ dbUp = TRUE /\ authUp = TRUE
  /\ valid = [r \in Requests |-> FALSE]
  /\ changes = 0 /\ stops = 0

RightPassword(user, password) == user # NoAccount /\ user.password = password

Accepts(user, password) == RightPassword(user, password) /\ user.active

-----------------------------------------------------------------------------
(* The broker *)

Answer(r, status) ==
  /\ pc' = [pc EXCEPT ![r] = "done"]
  /\ answer' = [answer EXCEPT ![r] = status]

Submit(r, password) ==
  /\ pc[r] = "idle"
  /\ given' = [given EXCEPT ![r] = password]
  /\ valid' = [valid EXCEPT ![r] = Accepts(account, password)]
  /\ IF password = Blank
     THEN Answer(r, 400)
     ELSE pc' = [pc EXCEPT ![r] = "asked"] /\ UNCHANGED answer
  /\ UNCHANGED <<authVars, loggerVars, worldVars>>

RelayVerbatim(r) ==
  /\ pc[r] = "asked" /\ reply[r] # 0
  /\ Answer(r, reply[r])
  /\ UNCHANGED <<given, authVars, loggerVars, worldVars, valid>>

(* 401 is passed on, 200 becomes 202, anything else 502. *)
Relay(r) ==
  /\ pc[r] = "asked" /\ reply[r] # 0
  /\ Answer(r, CASE reply[r] = 200 -> 202
                 [] reply[r] = 401 -> 401
                 [] OTHER          -> 502)
  /\ UNCHANGED <<given, authVars, loggerVars, worldVars, valid>>

(* The header said 200, the body does not arrive: the error of Decode is   *)
(* no downstreamError, and is answered as a bad request.                   *)
RelayCut(r) ==
  /\ pc[r] = "asked" /\ reply[r] = 200
  /\ Answer(r, 400)
  /\ UNCHANGED <<given, authVars, loggerVars, worldVars, valid>>

(* The client's ten seconds are over, or the connection ended or was       *)
(* refused.  The service's handler is not stopped by that.                 *)
GiveUp(r) ==
  /\ pc[r] = "asked"
  /\ Answer(r, 502)
  /\ UNCHANGED <<given, authVars, loggerVars, worldVars, valid>>

-----------------------------------------------------------------------------
(* The authentication service *)

Arrive(r) ==
  /\ pc[r] = "asked" /\ step[r] = "none" /\ authUp
  /\ step' = [step EXCEPT ![r] = "reading"]
  /\ UNCHANGED <<seen, reply, brokerVars, loggerVars, worldVars, valid>>

Return(r, status) ==
  /\ step' = [step EXCEPT ![r] = "over"]
  /\ reply' = [reply EXCEPT ![r] = status]

(* GetByEmail.  An error, be it a missing row or a database that is out,   *)
(* is answered as a wrong password would be.                               *)
ReadUser(r) ==
  /\ step[r] = "reading" /\ dbUp /\ account # NoAccount
  /\ seen' = [seen EXCEPT ![r] = account]
  /\ step' = [step EXCEPT ![r] = "checking"]
  /\ UNCHANGED <<reply, brokerVars, loggerVars, worldVars, valid>>

ReadFails(r) ==
  /\ step[r] = "reading" /\ (~dbUp \/ account = NoAccount)
  /\ Return(r, 401)
  /\ UNCHANGED <<seen, brokerVars, loggerVars, worldVars, valid>>

PostEntry(r) ==
  /\ step' = [step EXCEPT ![r] = "logging"]
  /\ entry' = [entry EXCEPT ![r] = "running"]
  /\ UNCHANGED reply

CheckPasswordOnly(r) ==
  /\ step[r] = "checking"
  /\ IF RightPassword(seen[r], given[r])
     THEN PostEntry(r)
     ELSE Return(r, 401) /\ UNCHANGED entry
  /\ UNCHANGED <<seen, brokerVars, entries, worldVars, valid>>

LogFirst(r) ==
  /\ step[r] = "checking"
  /\ IF Accepts(seen[r], given[r])
     THEN PostEntry(r)
     ELSE Return(r, 401) /\ entry' = [entry EXCEPT ![r] = "running"]
  /\ UNCHANGED <<seen, brokerVars, entries, worldVars, valid>>

(* PasswordMatches, then Active, then the POST to the logger *)
Check(r) ==
  /\ step[r] = "checking"
  /\ IF Accepts(seen[r], given[r])
     THEN PostEntry(r)
     ELSE Return(r, 401) /\ UNCHANGED entry
  /\ UNCHANGED <<seen, brokerVars, entries, worldVars, valid>>

LoggedWithRetry(r) ==
  /\ step[r] = "logging" /\ entry[r] \in {"ok", "error"}
  /\ IF entry[r] = "ok"
     THEN Return(r, 200) /\ UNCHANGED entry
     ELSE PostEntry(r)
  /\ UNCHANGED <<seen, brokerVars, entries, worldVars, valid>>

Logged(r) ==
  /\ step[r] = "logging" /\ entry[r] \in {"ok", "error"}
  /\ Return(r, IF entry[r] = "ok" THEN 200 ELSE 503)
  /\ UNCHANGED <<seen, brokerVars, loggerVars, worldVars, valid>>

(* The client of logRequest has ten seconds, and the context of a request  *)
(* whose broker has gone; the logger's handler runs on.                    *)
NotLogged(r) ==
  /\ step[r] = "logging" /\ entry[r] = "running"
  /\ Return(r, 503)
  /\ UNCHANGED <<seen, brokerVars, loggerVars, worldVars, valid>>

(* The process went away under the handler. *)
Killed(r) ==
  /\ ~authUp /\ step[r] \in Working
  /\ step' = [step EXCEPT ![r] = "over"]
  /\ UNCHANGED <<seen, reply, brokerVars, loggerVars, worldVars, valid>>

-----------------------------------------------------------------------------
(* The logger: WriteLog with its insert.  "error" is also a logger that is *)
(* away or goes away, and MongoDB may have applied a failed insert.        *)

Store(r) ==
  /\ entry[r] = "running"
  /\ entry' = [entry EXCEPT ![r] = "ok"]
  /\ entries' = [entries EXCEPT ![r] = @ + 1]
  /\ UNCHANGED <<brokerVars, authVars, worldVars, valid>>

StoreFails(r) ==
  /\ entry[r] = "running"
  /\ entry' = [entry EXCEPT ![r] = "error"]
  /\ \/ entries' = [entries EXCEPT ![r] = @ + 1]
     \/ UNCHANGED entries
  /\ UNCHANGED <<brokerVars, authVars, worldVars, valid>>

-----------------------------------------------------------------------------
(* The account, PostgreSQL and the service's process *)

ChangeTo(user) ==
  /\ changes < MaxChanges
  /\ account' = user
  /\ changes' = changes + 1
  /\ valid' = [r \in Requests |->
                 \/ valid[r]
                 \/ /\ pc[r] # "idle" /\ step[r] \in {"none", "reading"}
                    /\ Accepts(user, given[r])]
  /\ UNCHANGED <<dbUp, authUp, stops, brokerVars, authVars, loggerVars>>

(* The statements of the package data: no handler makes them, whoever      *)
(* administers the accounts does.  Update leaves the password alone,       *)
(* ResetPassword everything else.                                          *)
Update ==
  /\ account # NoAccount
  /\ ChangeTo([account EXCEPT !.active = ~@])

ResetPassword ==
  /\ account # NoAccount
  /\ \E password \in Passwords \ {account.password} :
       ChangeTo([account EXCEPT !.password = password])

Delete ==
  /\ account # NoAccount
  /\ ChangeTo(NoAccount)

InsertUser ==
  /\ account = NoAccount
  /\ \E user \in Users : ChangeTo(user)

Stop ==
  /\ stops < MaxStops
  /\ stops' = stops + 1
  /\ \/ dbUp' = FALSE /\ UNCHANGED authUp
     \/ authUp' = FALSE /\ UNCHANGED dbUp
  /\ UNCHANGED <<account, changes, valid, brokerVars, authVars, loggerVars>>

DbStart ==
  /\ ~dbUp /\ dbUp' = TRUE
  /\ UNCHANGED <<account, authUp, changes, stops, valid, brokerVars, authVars, loggerVars>>

AuthStart ==
  /\ ~authUp /\ authUp' = TRUE
  /\ \A r \in Requests : step[r] \notin Working
  /\ UNCHANGED <<account, dbUp, changes, stops, valid, brokerVars, authVars, loggerVars>>

Broker(r) ==
  \/ \E password \in Passwords \cup {Blank} : Submit(r, password)
  \/ Relay(r) \/ RelayCut(r) \/ GiveUp(r)

Service(r) ==
  \/ Arrive(r) \/ ReadUser(r) \/ ReadFails(r) \/ Check(r)
  \/ Logged(r) \/ NotLogged(r) \/ Killed(r)

Next ==
  \/ \E r \in Requests : Broker(r) \/ Service(r) \/ Store(r) \/ StoreFails(r)
  \/ Update \/ ResetPassword \/ Delete \/ InsertUser
  \/ Stop \/ DbStart \/ AuthStart

Spec == Init /\ [][Next]_vars

-----------------------------------------------------------------------------
(* Properties *)

TypeOK ==
  /\ pc \in [Requests -> {"idle", "asked", "done"}]
  /\ given \in [Requests -> Passwords \cup {Blank}]
  /\ answer \in [Requests -> {0, 202, 400, 401, 502}]
  /\ step \in [Requests -> Working \cup {"none", "over"}]
  /\ seen \in [Requests -> Accounts]
  /\ reply \in [Requests -> {0, 200, 401, 503}]
  /\ entry \in [Requests -> {"none", "running", "ok", "error"}]
  /\ entries \in [Requests -> Nat]
  /\ account \in Accounts
  /\ dbUp \in BOOLEAN /\ authUp \in BOOLEAN
  /\ valid \in [Requests -> BOOLEAN]
  /\ changes \in 0..MaxChanges /\ stops \in 0..MaxStops

(* A login is accepted, or leaves its entry in the log, only if its        *)
(* password was right and the account active at one and the same moment    *)
(* between its submission and the read: who is deactivated stays outside.  *)
LoginWasValid ==
  \A r \in Requests : answer[r] = 202 \/ entries[r] > 0 => valid[r]

(* A login that was refused, by the service or as incomplete, has no entry *)
(* nor one on its way.  A 400 for a complete one is the reverse: the login *)
(* was accepted and is in the log, its reply was cut off.  After 502 one   *)
(* must look.  (401 is also the answer of a database that is out.)         *)
EntriesFitAnswers ==
  \A r \in Requests :
    /\ answer[r] = 401 \/ given[r] = Blank => entries[r] = 0 /\ entry[r] # "running"
    /\ answer[r] = 400 /\ given[r] # Blank => entries[r] = 1 /\ valid[r]

Refused(r) ==
  \/ answer[r] = 401
  \/ answer[r] = 400 /\ given[r] = Blank

Conclusion(r) ==
  CASE answer[r] = 0   -> "none"
    [] answer[r] = 202 -> "yes"
    [] Refused(r)      -> "no"
    [] OTHER           -> "unsure"

Promise ==
  INSTANCE Submission WITH
    answer <- [r \in Requests |-> Conclusion(r)],
    effect <- entries

(* A login with its entry in the log keeps the broker's promise: the entry *)
(* is there when 202 is, never comes after a refusal, and comes once.      *)
KeepsPromise == Promise!Spec

-----------------------------------------------------------------------------
(* The inductive invariant behind LoginWasValid, EntriesFitAnswers and     *)
(* KeepsPromise                                                            *)

(* How far the broker's handler, the service's and the logger's are. *)
CallInv ==
  \A r \in Requests :
    /\ (answer[r] = 0) <=> (pc[r] # "done")
    /\ pc[r] = "idle" \/ given[r] = Blank => step[r] = "none"
    /\ pc[r] = "asked" => given[r] # Blank
    /\ step[r] \in {"none", "reading", "checking"} => entry[r] = "none"
    /\ step[r] # "over" => reply[r] = 0
    /\ reply[r] = 200 => entry[r] = "ok"
    /\ reply[r] = 401 => entry[r] = "none"
    /\ answer[r] = 202 => reply[r] = 200
    /\ answer[r] = 401 => reply[r] = 401
    /\ answer[r] = 400 /\ given[r] # Blank => reply[r] = 200

(* Only a logger's handler that is over has stored anything, and only once. *)
EntryInv ==
  \A r \in Requests :
    /\ entries[r] =< 1
    /\ entry[r] \in {"none", "running"} => entries[r] = 0
    /\ entry[r] = "ok" => entries[r] = 1

(* What the service accepts, or will, was right since the submission. *)
ValidInv ==
  \A r \in Requests :
    /\ pc[r] # "idle" /\ step[r] \in {"none", "reading"} =>
         (Accepts(account, given[r]) => valid[r])
    /\ step[r] = "checking" => (Accepts(seen[r], given[r]) => valid[r])
    /\ entry[r] # "none" => valid[r]

IInv == TypeOK /\ CallInv /\ EntryInv /\ ValidInv
=============================================================================
