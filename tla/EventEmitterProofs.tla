------------------------- MODULE EventEmitterProofs -------------------------
(***************************************************************************)
(* Machine-checked proofs about EventEmitter, for every set of             *)
(* submissions, finite or not, every channel limit and any number of lost  *)
(* connections.                                                            *)
(***************************************************************************)
EXTENDS EventEmitter, FiniteSetTheorems, TLAPS

USE InvalidAssumption, LimitAssumption DEF WithChannel, Steps, Answers

-----------------------------------------------------------------------------
(* Channels and those who hold them *)

(* A handler that opens a channel is one more that holds one. *)
LEMMA Takes ==
  ASSUME TypeOK, ChannelInv, NEW e \in Events, NEW step \in WithChannel,
         pc[e] \notin WithChannel, pc' = [pc EXCEPT ![e] = step],
         channels' = channels + 1
  PROVE  ChannelInv'
<1>1. Holders' = Holders \cup {e} /\ e \notin Holders
  BY DEF Holders, TypeOK
<1>2. IsFiniteSet(Holders \cup {e}) /\ Cardinality(Holders \cup {e}) = Cardinality(Holders) + 1
  BY <1>1, FS_AddElement DEF ChannelInv
<1> QED BY <1>1, <1>2 DEF ChannelInv, ChannelsReleased

(* One that closes it is one less, and there was one to close. *)
LEMMA Releases ==
  ASSUME TypeOK, ChannelInv, NEW e \in Events, NEW step \in Steps \ WithChannel,
         pc[e] \in WithChannel, pc' = [pc EXCEPT ![e] = step],
         channels' = channels - 1
  PROVE  ChannelInv' /\ channels' \in 0..ChannelMax
<1>1. Holders' = Holders \ {e} /\ e \in Holders
  BY DEF Holders, TypeOK
<1>2. IsFiniteSet(Holders \ {e}) /\ Cardinality(Holders \ {e}) = Cardinality(Holders) - 1
  BY <1>1, FS_RemoveElement DEF ChannelInv
<1>3. Cardinality(Holders \ {e}) \in Nat
  BY <1>2, FS_CardinalityType
<1>4. channels' = Cardinality(Holders \ {e})
  BY <1>2 DEF ChannelInv, ChannelsReleased
<1>5. channels' \in 0..ChannelMax
  BY <1>3, <1>4 DEF TypeOK
<1> QED BY <1>1, <1>2, <1>4, <1>5 DEF ChannelInv, ChannelsReleased

(* A step on one side of that line changes neither. *)
LEMMA Keeps ==
  ASSUME TypeOK, ChannelInv, NEW e \in Events, NEW step \in Steps,
         pc[e] \in WithChannel <=> step \in WithChannel,
         pc' = [pc EXCEPT ![e] = step], UNCHANGED channels
  PROVE  ChannelInv'
<1>1. Holders' = Holders
  BY DEF Holders, TypeOK
<1> QED BY <1>1 DEF ChannelInv, ChannelsReleased

LEMMA HandlerStep ==
  ASSUME TypeOK, ChannelInv, NEW e \in Events, Handler(e)
  PROVE  ChannelInv' /\ channels' \in 0..ChannelMax
<1> USE DEF TypeOK, Reply, Goto
<1>1. CASE Submit(e)
  <2>1. PICK step \in {"done", "setup"} : pc' = [pc EXCEPT ![e] = step]
    BY <1>1 DEF Submit
  <2>2. pc[e] \notin WithChannel /\ UNCHANGED channels
    BY <1>1 DEF Submit
  <2>3. step \in Steps /\ step \notin WithChannel
    OBVIOUS
  <2> HIDE DEF TypeOK, WithChannel, Steps
  <2>4. ChannelInv'
    BY <2>1, <2>2, <2>3, Keeps
  <2> QED BY <2>2, <2>4 DEF TypeOK
<1>2. CASE OpenChannel(e)
  <2>1. CASE conn = "open" /\ channels < ChannelMax
    <3>1. PICK step \in WithChannel : pc' = [pc EXCEPT ![e] = step]
      BY <1>2, <2>1 DEF OpenChannel
    <3>2. pc[e] \notin WithChannel /\ channels' = channels + 1
      BY <1>2, <2>1 DEF OpenChannel
    <3>3. channels' \in 0..ChannelMax
      BY <2>1, <3>2
    <3>4. ChannelInv'
      BY <3>1, <3>2, Takes
    <3> QED BY <3>3, <3>4
  <2>2. CASE ~(conn = "open" /\ channels < ChannelMax)
    <3>1. /\ pc' = [pc EXCEPT ![e] = "done"]
          /\ pc[e] \notin WithChannel /\ UNCHANGED channels
      BY <1>2, <2>2 DEF OpenChannel
    <3>2. ChannelInv'
      BY <3>1, Keeps
    <3> QED BY <3>1, <3>2
  <2> QED BY <2>1, <2>2
<1>3. CASE DeclareExchange(e)
  <2>1. PICK step \in {"push", "done"} : pc' = [pc EXCEPT ![e] = step]
    BY <1>3 DEF DeclareExchange
  <2>2. pc[e] \in WithChannel /\ channels' = channels - 1
    BY <1>3 DEF DeclareExchange
  <2> QED BY <2>1, <2>2, Releases
<1>4. CASE Publish(e)
  <2>1. CASE conn = "closed"
    <3>1. /\ pc' = [pc EXCEPT ![e] = "done"]
          /\ pc[e] \in WithChannel /\ channels' = channels - 1
      BY <1>4, <2>1 DEF Publish
    <3> QED BY <3>1, Releases
  <2>2. CASE conn # "closed"
    <3>1. /\ pc' = [pc EXCEPT ![e] = "closing"]
          /\ pc[e] \in WithChannel /\ UNCHANGED channels
      BY <1>4, <2>2 DEF Publish
    <3>2. ChannelInv'
      BY <3>1, Keeps
    <3> QED BY <3>1, <3>2
  <2> QED BY <2>1, <2>2
<1>5. CASE CloseChannel(e)
  <2>1. /\ pc' = [pc EXCEPT ![e] = "done"]
        /\ pc[e] \in WithChannel /\ channels' = channels - 1
    BY <1>5 DEF CloseChannel
  <2> QED BY <2>1, Releases
<1> QED BY <1>1, <1>2, <1>3, <1>4, <1>5 DEF Handler

LEMMA ChannelStep ==
  ASSUME TypeOK, ChannelInv, [Next]_vars
  PROVE  ChannelInv' /\ channels' \in 0..ChannelMax
<1>1. CASE Restart
  <2>1. Holders' = {} /\ channels' = 0
    BY <1>1 DEF Restart, Holders, TypeOK
  <2> QED BY <2>1, FS_EmptySet DEF ChannelInv, ChannelsReleased
<1>2. CASE UNCHANGED <<pc, channels>>
  BY <1>2 DEF ChannelInv, ChannelsReleased, Holders, TypeOK
<1> QED
  BY <1>1, <1>2, HandlerStep DEF Next, Internal, Break, Notice, Route, vars

-----------------------------------------------------------------------------
(* Frames and submissions *)

LEMMA WireStep ==
  ASSUME TypeOK, WireInv, CallInv, [Next]_vars
  PROVE  WireInv' /\ CallInv'
<1> USE DEF TypeOK, WireInv, CallInv, Reply, Goto
<1>1. ASSUME NEW e \in Events, Submit(e) PROVE WireInv' /\ CallInv'
  BY <1>1 DEF Submit
<1>2. ASSUME NEW e \in Events, OpenChannel(e) PROVE WireInv' /\ CallInv'
  BY <1>2 DEF OpenChannel
<1>3. ASSUME NEW e \in Events, DeclareExchange(e) PROVE WireInv' /\ CallInv'
  BY <1>3 DEF DeclareExchange
<1>4. ASSUME NEW e \in Events, Publish(e) PROVE WireInv' /\ CallInv'
  BY <1>4 DEF Publish
<1>5. ASSUME NEW e \in Events, CloseChannel(e) PROVE WireInv' /\ CallInv'
  BY <1>5 DEF CloseChannel
<1>6. ASSUME NEW e \in Events, Route(e) PROVE WireInv' /\ CallInv'
  BY <1>6 DEF Route
<1>7. CASE Break \/ Notice
  BY <1>7 DEF Break, Notice
<1>8. CASE Restart
  BY <1>8 DEF Restart
<1>9. CASE UNCHANGED vars
  BY <1>9 DEF vars
<1> QED
  BY <1>1, <1>2, <1>3, <1>4, <1>5, <1>6, <1>7, <1>8, <1>9 DEF Next, Internal, Handler

-----------------------------------------------------------------------------
(* Types, and the invariant *)

LEMMA TypeStep ==
  ASSUME TypeOK, ChannelInv, [Next]_vars
  PROVE  TypeOK'
<1> USE DEF TypeOK
<1>1. channels' \in 0..ChannelMax
  BY ChannelStep
<1>2. ASSUME NEW e \in Events, Handler(e) PROVE TypeOK'
  BY <1>1, <1>2
     DEF Handler, Submit, OpenChannel, DeclareExchange, Publish, CloseChannel,
         Reply, Goto
<1>3. ASSUME NEW e \in Events, Route(e) PROVE TypeOK'
  BY <1>3 DEF Route
<1>4. ASSUME BrokerFault PROVE brokerFaults' \in 0..MaxBrokerFaults
  BY <1>4 DEF BrokerFault
<1>5. CASE Break
  BY <1>4, <1>5 DEF Break
<1>6. CASE Notice
  BY <1>6 DEF Notice
<1>7. CASE Restart
  BY <1>1, <1>4, <1>7 DEF Restart
<1>8. CASE UNCHANGED vars
  BY <1>8 DEF vars
<1> QED BY <1>2, <1>3, <1>5, <1>6, <1>7, <1>8 DEF Next, Internal

LEMMA InvInit == Init => IInv
<1> SUFFICES ASSUME Init PROVE IInv
  OBVIOUS
<1>1. TypeOK
  BY DEF Init, TypeOK
<1>2. Holders = {} /\ channels = 0
  BY DEF Init, Holders
<1>3. ChannelInv
  BY <1>2, FS_EmptySet DEF ChannelInv, ChannelsReleased
<1>4. WireInv /\ CallInv
  BY DEF Init, WireInv, CallInv
<1> QED BY <1>1, <1>3, <1>4 DEF IInv

LEMMA InvStep == IInv /\ [Next]_vars => IInv'
BY TypeStep, ChannelStep, WireStep DEF IInv

(* The inductive invariant holds in every reachable state: handlers,       *)
(* channels, frames and the connection fit each other.                     *)
THEOREM Invariance == Spec => []IInv
<1>1. Init => IInv
  BY InvInit
<1>2. IInv /\ [Next]_vars => IInv'
  BY InvStep
<1> QED BY <1>1, <1>2, PTL DEF Spec

(* Every variable keeps its type, and RabbitMQ's channel limit is kept: a  *)
(* release never takes the count below zero.                               *)
THEOREM TypeCorrect == Spec => []TypeOK
<1>1. IInv => TypeOK
  BY DEF IInv
<1> QED BY <1>1, Invariance, PTL

(* setup and Push leak no channel of the shared connection, on any path.   *)
THEOREM ChannelsAreReleased == Spec => []ChannelsReleased
<1>1. IInv => ChannelsReleased
  BY DEF IInv, ChannelInv
<1> QED BY <1>1, Invariance, PTL

-----------------------------------------------------------------------------
(* The promise of Submission *)

(* A function that differs from another at one argument only. *)
LEMMA ChangedAt ==
  ASSUME NEW S, NEW f, NEW g, NEW x \in S,
         f = [q \in S |-> f[q]], g = [q \in S |-> g[q]],
         \A q \in S : q # x => g[q] = f[q]
  PROVE  g = [f EXCEPT ![x] = g[x]]
OBVIOUS

(* The handler's status is all the client learns from. *)
LEMMA AnswerMaps ==
  ASSUME NEW e \in Events, NEW word, answer[e] = 0,
         \A q \in Events : q # e => answer'[q] = answer[q],
         UNCHANGED <<routed, cut>>, Conclusion(e)' = word
  PROVE  Promise!Reply(e, word)
<1> DEFINE old == [q \in Events |-> Conclusion(q)]
           new == [q \in Events |-> Conclusion(q)']
<1>1. new = [old EXCEPT ![e] = new[e]]
  <2>1. \A q \in Events : q # e => new[q] = old[q]
    BY DEF Conclusion
  <2> HIDE DEF old, new
  <2>2. old = [q \in Events |-> old[q]] /\ new = [q \in Events |-> new[q]]
    BY DEF old, new
  <2> QED BY <2>1, <2>2, ChangedAt
<1>2. Conclusion(e) = "none"
  BY DEF Conclusion
<1>3. new[e] = word
  OBVIOUS
<1> QED BY <1>1, <1>2, <1>3 DEF Promise!Reply

(* A refusal is given only to one that RabbitMQ has not routed. *)
LEMMA RefuseMaps ==
  ASSUME IInv, NEW e \in Events, NEW status \in {400, 502},
         pc[e] \notin {"closing", "done"}, Reply(e, status),
         UNCHANGED <<routed, cut>>
  PROVE  [Promise!Next]_(Promise!vars)
<1> USE DEF IInv
<1>1. answer[e] = 0 /\ e \notin routed
  BY DEF CallInv
<1>2. /\ answer'[e] = status
      /\ \A q \in Events : q # e => answer'[q] = answer[q]
  BY DEF Reply, TypeOK
<1>3. Conclusion(e)' = "no"
  BY <1>2 DEF Conclusion
<1>4. Promise!Reply(e, "no")
  BY <1>1, <1>2, <1>3, AnswerMaps
<1> QED BY <1>1, <1>4 DEF Promise!Refuse, Promise!Next

LEMMA AcceptMaps ==
  ASSUME IInv, NEW e \in Events, CloseChannel(e)
  PROVE  [Promise!Next]_(Promise!vars)
<1> USE DEF IInv
<1>1. answer[e] = 0 /\ e \in routed \cup cut
  BY DEF CallInv, WireInv, CloseChannel, TypeOK
<1>2. /\ answer'[e] = 202
      /\ \A q \in Events : q # e => answer'[q] = answer[q]
      /\ UNCHANGED <<routed, cut>>
  BY DEF CloseChannel, Reply, TypeOK
<1>3. CASE e \in routed
  <2>1. Conclusion(e)' = "yes"
    BY <1>2, <1>3 DEF Conclusion
  <2>2. Promise!Reply(e, "yes")
    BY <1>1, <1>2, <2>1, AnswerMaps
  <2> QED BY <1>3, <2>2 DEF Promise!Accept, Promise!Next
<1>4. CASE e \in cut \ routed
  <2>1. Conclusion(e)' = "unsure"
    BY <1>2, <1>4 DEF Conclusion
  <2>2. Promise!Reply(e, "unsure")
    BY <1>1, <1>2, <2>1, AnswerMaps
  <2> QED BY <2>2 DEF Promise!Doubt, Promise!Next
<1> QED BY <1>1, <1>3, <1>4

(* A frame that is routed belongs to one whom nobody has answered yet. *)
LEMMA RouteMaps ==
  ASSUME IInv, NEW e \in Events, Route(e)
  PROVE  [Promise!Next]_(Promise!vars)
<1> USE DEF IInv
<1> DEFINE old == [q \in Events |-> IF q \in routed THEN 1 ELSE 0]
           new == [q \in Events |-> IF q \in routed' THEN 1 ELSE 0]
<1>1. answer[e] = 0 /\ e \notin routed
  BY DEF Route, WireInv, CallInv
<1>2. UNCHANGED <<answer, cut>> /\ routed' = routed \cup {e}
  BY DEF Route
<1>3. new = [old EXCEPT ![e] = 1]
  BY <1>2
<1>4. UNCHANGED [q \in Events |-> Conclusion(q)]
  <2>1. \A q \in Events : Conclusion(q)' = Conclusion(q)
    BY <1>1, <1>2 DEF Conclusion
  <2> QED BY <2>1
<1>5. Conclusion(e) # "no"
  BY <1>1 DEF Conclusion
<1>6. Promise!Perform(e)
  BY <1>1, <1>3, <1>4, <1>5 DEF Promise!Perform
<1> QED BY <1>6 DEF Promise!Next

(* A connection breaks under submissions that have no answer yet. *)
LEMMA BreakMaps ==
  ASSUME IInv, Break
  PROVE  UNCHANGED Promise!vars
<1> USE DEF IInv
<1>1. \A q \in Events : Conclusion(q)' = Conclusion(q)
  BY DEF Break, Conclusion, CallInv
<1>2. UNCHANGED routed
  BY DEF Break
<1> QED BY <1>1, <1>2 DEF Promise!vars

LEMMA StepMaps ==
  ASSUME IInv, [Next]_vars
  PROVE  [Promise!Next]_(Promise!vars)
<1>1. CASE UNCHANGED <<answer, routed, cut>>
  BY <1>1 DEF Promise!vars, Conclusion
<1>2. ASSUME NEW e \in Events, Submit(e)
      PROVE  [Promise!Next]_(Promise!vars)
  BY <1>1, <1>2, RefuseMaps DEF Submit, Goto
<1>3. ASSUME NEW e \in Events, OpenChannel(e)
      PROVE  [Promise!Next]_(Promise!vars)
  BY <1>1, <1>3, RefuseMaps DEF OpenChannel, Goto
<1>4. ASSUME NEW e \in Events, DeclareExchange(e)
      PROVE  [Promise!Next]_(Promise!vars)
  BY <1>1, <1>4, RefuseMaps DEF DeclareExchange, Goto
<1>5. ASSUME NEW e \in Events, Publish(e)
      PROVE  [Promise!Next]_(Promise!vars)
  BY <1>1, <1>5, RefuseMaps DEF Publish, Goto
<1>6. CASE Notice \/ Restart \/ UNCHANGED vars
  BY <1>1, <1>6 DEF Notice, Restart, vars
<1> QED
  BY <1>2, <1>3, <1>4, <1>5, <1>6, AcceptMaps, RouteMaps, BreakMaps
     DEF Next, Internal, Handler

(* LogViaRabbit and Push keep the promise of Submission: 202 means that    *)
(* RabbitMQ has routed the event unless the connection broke under the     *)
(* publish, 400 and 502 that it never will, and no event is routed twice.  *)
THEOREM EmitterKeepsPromise == Spec => KeepsPromise
<1>1. Init => Promise!Init
  BY DEF Init, Promise!Init, Conclusion
<1>2. IInv /\ [Next]_vars => [Promise!Next]_(Promise!vars)
  BY StepMaps
<1> QED BY <1>1, <1>2, Invariance, PTL DEF Spec, KeepsPromise, Promise!Spec
=============================================================================
