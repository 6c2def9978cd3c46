---------------------------- MODULE MailDelivery ----------------------------
(***************************************************************************)
(* Sending a mail: the broker's SendMail, the mail service's handler       *)
(* (handlers.go SendMail, mailer.go SendSMTPMessage) and the exchange of   *)
(* the mail library with the SMTP server.  The library has ten seconds to  *)
(* connect, on nobody's context but the service's own, behind a client     *)
(* that waits ten for everything.  Its SendTimeout ends the wait of the    *)
(* caller and not the exchange, which goes on in a goroutine of its own:   *)
(* nothing bounds it, and nothing is assumed about when the handler that   *)
(* stopped waiting returns.  Time is counted in seconds, per request,      *)
(* until its exchange begins; a limit that is reached fires before the     *)
(* clock moves on.                                                         *)
(***************************************************************************)
EXTENDS Integers

CONSTANTS
  Requests,     \* the submissions
  MaxMailStops  \* bound on stops of the mail service

ASSUME StopsAssumption == MaxMailStops \in Nat

(* "blank": the recipient, the subject or the text is; "unsendable": an    *)
(* address that the library or the SMTP server refuses                     *)
Mails == {"plain", "blank", "unsendable"}

VARIABLES
  pc,       \* pc[r]: "idle", "asking" or "done", in the broker
  mail,     \* mail[r]: what it is about
  age,      \* age[r]: seconds since its submission, while they are counted
  answer,   \* answer[r]: the broker's status, 0 for none
  step,     \* step[r]: where the service's handler for r is
  spent,    \* spent[r]: seconds since it began to connect, while it does
  reply,    \* reply[r]: the service's status, 0 for none
  exchange, \* exchange[r]: what became of the exchange with the SMTP server
  mailbox,  \* mailbox[r]: copies the SMTP server took
  mailUp, mailStops

brokerVars == <<pc, mail, answer>>
smtpVars == <<exchange, mailbox>>
mailVars == <<step, spent, reply, smtpVars>>
processVars == <<mailUp, mailStops>>
vars == <<brokerVars, age, mailVars, processVars>>

(* "dead": the process went away under the handler *)
Working == {"connecting", "sending"}

(* "taken": the SMTP server has the mail; "closed": it refused it, or the  *)
(* connection broke before the mail was complete                           *)
Exchanges == {"none", "open", "taken", "closed"}

Init ==
  /\ pc = [r \in Requests |-> "idle"]
  /\ mail = [r \in Requests |-> "plain"]
  /\ age = [r \in Requests |-> 0]
  /\ answer = [r \in Requests |-> 0]
  /\ step = [r \in Requests |-> "none"]
  /\ spent = [r \in Requests |-> 0]
  /\ reply = [r \in Requests |-> 0]
  /\ exchange = [r \in Requests |-> "none"]
  /\ mailbox = [r \in Requests |-> 0]
  /\ mailUp = TRUE /\ mailStops = 0

(* http.Client.Timeout of the broker *)
ClientLimit == 10

UnlimitedConnect == 600

(* ConnectTimeout *)
ConnectLimit == 10

-----------------------------------------------------------------------------
(* The broker *)

Answer(r, status) ==
  /\ pc' = [pc EXCEPT ![r] = "done"]
  /\ answer' = [answer EXCEPT ![r] = status]

(* validateMailInput, then the POST *)
Submit(r, what) ==
  /\ pc[r] = "idle"
  /\ mail' = [mail EXCEPT ![r] = what]
  /\ IF what = "blank"
     THEN Answer(r, 400)
     ELSE pc' = [pc EXCEPT ![r] = "asking"] /\ UNCHANGED answer
  /\ UNCHANGED <<age, mailVars, processVars>>

(* 202 is passed on, anything else becomes 502. *)
Relay(r) ==
  /\ pc[r] = "asking" /\ reply[r] # 0
  /\ Answer(r, IF reply[r] = 202 THEN 202 ELSE 502)
  /\ UNCHANGED <<mail, age, mailVars, processVars>>

Refused(r) ==
  /\ pc[r] = "asking" /\ step[r] = "none" /\ ~mailUp
  /\ Answer(r, 502)
  /\ UNCHANGED <<mail, age, mailVars, processVars>>

Disconnected(r) ==
  /\ pc[r] = "asking" /\ step[r] = "dead"
  /\ Answer(r, 502)
  /\ UNCHANGED <<mail, age, mailVars, processVars>>

GiveUpOnArrival(r) ==
  /\ pc[r] = "asking" /\ step[r] = "none" /\ age[r] >= ClientLimit
  /\ Answer(r, 502)
  /\ UNCHANGED <<mail, age, mailVars, processVars>>

(* The handler is not told. *)
GiveUp(r) ==
  /\ pc[r] = "asking" /\ age[r] >= ClientLimit
  /\ Answer(r, 502)
  /\ UNCHANGED <<mail, age, mailVars, processVars>>

-----------------------------------------------------------------------------
(* The mail service *)

Goto(r, where) ==
  /\ step' = [step EXCEPT ![r] = where]
  /\ spent' = [spent EXCEPT ![r] = 0]

Return(r, status) ==
  /\ Goto(r, "over")
  /\ reply' = [reply EXCEPT ![r] = status]

(* The broker has validated; what is left is rendered before Connect.      *)
Arrive(r) ==
  /\ pc[r] = "asking" /\ step[r] = "none" /\ mailUp
  /\ Goto(r, "connecting")
  /\ UNCHANGED <<reply, smtpVars, brokerVars, age, processVars>>

Connected(r) ==
  /\ step[r] = "connecting"
  /\ Goto(r, "sending")
  /\ exchange' = [exchange EXCEPT ![r] = "open"]
  /\ UNCHANGED <<reply, mailbox, brokerVars, age, processVars>>

Sent(r) ==
  /\ step[r] = "sending" /\ exchange[r] = "taken"
  /\ Return(r, 202)
  /\ UNCHANGED <<smtpVars, brokerVars, age, processVars>>

RetryOnce(r) ==
  /\ step[r] \in Working
  /\ IF exchange[r] = "taken" /\ mailbox[r] = 1
     THEN /\ Goto(r, "connecting")
          /\ exchange' = [exchange EXCEPT ![r] = "none"]
          /\ UNCHANGED reply
     ELSE Return(r, 502) /\ UNCHANGED exchange
  /\ UNCHANGED <<mailbox, brokerVars, age, processVars>>

(* A refusal, a broken connection or a limit.  The handler returns and the *)
(* exchange is left to itself: the mail may have been taken already, or be *)
(* taken yet.                                                              *)
Fails(r) ==
  /\ step[r] \in Working
  /\ Return(r, 502)
  /\ UNCHANGED <<smtpVars, brokerVars, age, processVars>>

Killed(r) ==
  /\ step[r] \in Working /\ ~mailUp
  /\ Goto(r, "dead")
  /\ UNCHANGED <<reply, smtpVars, brokerVars, age, processVars>>

MailStop ==
  /\ mailUp /\ mailStops < MaxMailStops
  /\ mailUp' = FALSE
  /\ mailStops' = mailStops + 1
  /\ UNCHANGED <<brokerVars, age, mailVars>>

MailStart ==
  /\ ~mailUp /\ \A r \in Requests : step[r] \notin Working
  /\ mailUp' = TRUE
  /\ UNCHANGED <<brokerVars, age, mailVars, mailStops>>

-----------------------------------------------------------------------------
(* The SMTP server: it owes no answer, not even a refusal, and what it has *)
(* received it may take after its client is gone.                          *)

SmtpStep(r, what) ==
  /\ exchange[r] = "open"
  /\ exchange' = [exchange EXCEPT ![r] = what]
  /\ UNCHANGED <<step, spent, reply, brokerVars, age, processVars>>

Taken(r) ==
  /\ mail[r] = "plain"
  /\ SmtpStep(r, "taken")
  /\ mailbox' = [mailbox EXCEPT ![r] = @ + 1]

Closed(r) == SmtpStep(r, "closed") /\ UNCHANGED mailbox

-----------------------------------------------------------------------------
(* The clock *)

(* Until the broker has answered and the exchange has begun, or never will *)
Counted(r) == pc[r] = "asking" \/ step[r] = "connecting"

Due(r) ==
  \/ pc[r] = "asking" /\ age[r] >= ClientLimit
  \/ step[r] = "connecting" /\ spent[r] >= ConnectLimit

Tick ==
  /\ \E r \in Requests : Counted(r)
  /\ \A r \in Requests : ~Due(r)
  /\ age' = [r \in Requests |-> IF Counted(r) THEN age[r] + 1 ELSE age[r]]
  /\ spent' = [r \in Requests |-> IF step[r] = "connecting" THEN spent[r] + 1
                                                           ELSE spent[r]]
  /\ UNCHANGED <<brokerVars, step, reply, smtpVars, processVars>>

Broker(r) == Relay(r) \/ Refused(r) \/ Disconnected(r) \/ GiveUp(r)

Service(r) == Arrive(r) \/ Connected(r) \/ Sent(r) \/ Fails(r) \/ Killed(r)

Smtp(r) == Taken(r) \/ Closed(r)

Next ==
  \/ \E r \in Requests, what \in Mails : Submit(r, what)
  \/ \E r \in Requests : Broker(r) \/ Service(r) \/ Smtp(r)
  \/ MailStop \/ MailStart
  \/ Tick

Spec == Init /\ [][Next]_vars

(* The broker's limit and ConnectTimeout fire, and time passes; the SMTP   *)
(* server owes nothing, and neither does a handler that is sending.        *)
Fairness ==
  /\ \A r \in Requests : WF_vars(GiveUp(r))
  /\ \A r \in Requests :
       WF_vars(Fails(r) /\ step[r] = "connecting" /\ spent[r] >= ConnectLimit)
  /\ WF_vars(Tick)

FairSpec == Spec /\ Fairness

-----------------------------------------------------------------------------
(* Properties *)

TypeOK ==
  /\ pc \in [Requests -> {"idle", "asking", "done"}]
  /\ mail \in [Requests -> Mails]
  /\ age \in [Requests -> Nat]
  /\ answer \in [Requests -> {0, 202, 400, 502}]
  /\ step \in [Requests -> Working \cup {"none", "over", "dead"}]
  /\ spent \in [Requests -> 0..10]
  /\ reply \in [Requests -> {0, 202, 502}]
  /\ exchange \in [Requests -> Exchanges]
  /\ mailbox \in [Requests -> Nat]
  /\ mailUp \in BOOLEAN /\ mailStops \in 0..MaxMailStops

(* The exchange for a mail begins within twenty seconds of its submission  *)
(* or never: ten to reach the service, ten to connect.  Past them a mail   *)
(* that was answered 502 is on its way already or will not be sent; when   *)
(* an exchange that has begun is over, nothing in the code bounds.         *)
SendsBeginInTime ==
  [][\A r \in Requests :
       exchange[r] = "none" /\ exchange'[r] # "none" => age[r] =< 10 + 10]_vars

(* Every submission is answered, even if the SMTP server never does. *)
EverySubmissionAnswered ==
  \A r \in Requests : pc[r] = "asking" ~> pc[r] = "done"

Conclusion(r) ==
  CASE answer[r] = 0   -> "none"
    [] answer[r] = 202 -> "yes"
    [] answer[r] = 400 -> "no"
    [] OTHER           -> "unsure"

Promise ==
  INSTANCE Submission WITH
    answer <- [r \in Requests |-> Conclusion(r)],
    effect <- mailbox

(* What the answers of the broker let the client conclude: 202 that the    *)
(* SMTP server took the mail, 400 that it never will get it, 502 nothing;  *)
(* and no mail is sent twice, not even when the service does not learn     *)
(* what became of it.  A second copy takes a second submission.            *)
KeepsPromise == Promise!Spec

-----------------------------------------------------------------------------
(* The inductive invariant behind KeepsPromise and SendsBeginInTime        *)

(* The broker's handler and the service's: who has begun, who has answered. *)
CallInv ==
  \A r \in Requests :
    /\ (answer[r] = 0) <=> (pc[r] # "done")
    /\ pc[r] = "idle" => step[r] = "none"
    /\ pc[r] = "asking" => mail[r] # "blank"
    /\ mail[r] = "blank" => step[r] = "none"
    /\ reply[r] # 0 => step[r] = "over"
    /\ answer[r] = 202 => reply[r] = 202
    /\ answer[r] = 400 => mail[r] = "blank"

(* The SMTP server took a mail once, and before the service could say so.  *)
MailboxInv ==
  \A r \in Requests :
    /\ mailbox[r] = IF exchange[r] = "taken" THEN 1 ELSE 0
    /\ step[r] \in {"none", "connecting"} => exchange[r] = "none"
    /\ reply[r] = 202 => exchange[r] = "taken"

(* Ten seconds to reach the service, ten to connect. *)
ClockInv ==
  \A r \in Requests :
    /\ pc[r] = "idle" => age[r] = 0
    /\ pc[r] = "asking" => age[r] =< 10
    /\ step[r] = "connecting" => age[r] =< 10 + spent[r]

IInv == TypeOK /\ CallInv /\ MailboxInv /\ ClockInv
=============================================================================
