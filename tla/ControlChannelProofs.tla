------------------------ MODULE ControlChannelProofs ------------------------
(***************************************************************************)
(* Theorems about the control channel for any set of requests: its type    *)
(* invariant, that no waiter leaks or outlives a close, that a caller only *)
(* ever gets its own answer, and that it implements RequestReply.          *)
(***************************************************************************)
EXTENDS ControlChannel, TLAPS

(* A response line, a routed waiter and a delivered outcome all come from  *)
(* a request that was written and answered; once routed, it has left the   *)
(* map for good.                                                           *)
AnsweredOnly ==
  /\ \A r \in stdout : r \in asked /\ reply[r] # "none"
  /\ routing # None => /\ routing \in asked \ waiters
                      /\ reply[routing] # "none"
  /\ \A r \in Request : inbox[r] # "none" => /\ r \in asked \ waiters
                                         /\ reply[r] = inbox[r]

(* A caller has an outcome exactly when it no longer waits, and writes     *)
(* nothing before it registers.                                            *)
OutcomeWhenEnded ==
  \A r \in Request :
    /\ pc[r] \in {"idle", "write", "wait"} <=> outcome[r] = "none"
    /\ pc[r] = "idle" => r \notin asked

IInv == TypeOK /\ NoStaleWaiter /\ AnswerIsOwn /\ AnsweredOnly /\ OutcomeWhenEnded

(* The initial states satisfy the inductive invariant.                     *)
LEMMA InitIInv == Init => IInv
  BY DEF Init, IInv, TypeOK, NoStaleWaiter, AnswerIsOwn, AnsweredOnly,
         OutcomeWhenEnded, Answers, Outcomes

(* Every step of the channel preserves the inductive invariant.            *)
LEMMA NextIInv == IInv /\ [Next]_vars => IInv'
<1> SUFFICES ASSUME IInv, [Next]_vars PROVE IInv'
  OBVIOUS
<1> USE ControlAssumption DEF IInv, TypeOK, NoStaleWaiter, AnswerIsOwn,
        AnsweredOnly, OutcomeWhenEnded, Answers, Outcomes
<1>1. ASSUME NEW r \in Request, Register(r) PROVE IInv'
  BY <1>1 DEF Register
<1>2. ASSUME NEW r \in Request, Send(r) PROVE IInv'
  BY <1>2 DEF Send
<1>3. ASSUME NEW r \in Request, Receive(r) PROVE IInv'
  BY <1>3 DEF Receive
<1>4. ASSUME NEW r \in Request, Timeout(r) PROVE IInv'
  BY <1>4 DEF Timeout
<1>5. ASSUME NEW r \in Request, Forget(r) PROVE IInv'
  BY <1>5 DEF Forget
<1>6. ASSUME NEW r \in Request, Reply(r) PROVE IInv'
  BY <1>6 DEF Reply
<1>7. ASSUME NEW r \in Request, Route(r) PROVE IInv'
  BY <1>7 DEF Route
<1>8. CASE Deliver
  BY <1>8 DEF Deliver
<1>9. CASE Close
  BY <1>9 DEF Close
<1>10. CASE UNCHANGED vars
  BY <1>10 DEF vars
<1> QED
  BY <1>1, <1>2, <1>3, <1>4, <1>5, <1>6, <1>7, <1>8, <1>9, <1>10 DEF Next

(* The inductive invariant holds in every reachable state.                 *)
THEOREM Invariance == Spec => []IInv
  BY InitIInv, NextIInv, PTL DEF Spec

(* Every variable keeps its type.                                          *)
THEOREM TypeCorrect == Spec => []TypeOK
  BY Invariance, PTL DEF IInv

(* No sender outlives its caller or the closing of the channel.            *)
THEOREM WaitersSound == Spec => []NoStaleWaiter
  BY Invariance, PTL DEF IInv

(* A caller that gets an answer gets the one given to its own request.     *)
THEOREM AnswersSound == Spec => []AnswerIsOwn
  BY Invariance, PTL DEF IInv

-----------------------------------------------------------------------------
(* A channel nobody used is a promise nobody asked for.                    *)
LEMMA InitPromise == Init => Promise!Init
  BY DEF Init, Promise!Init, abstractState

(* Each step of the channel is a step of RequestReply or leaves it alone.  *)
LEMMA StepPromise == IInv /\ [Next]_vars => [Promise!Next]_(Promise!vars)
<1> SUFFICES ASSUME IInv, [Next]_vars PROVE [Promise!Next]_(Promise!vars)
  OBVIOUS
<1> USE ControlAssumption DEF IInv, TypeOK, AnsweredOnly, OutcomeWhenEnded,
        Answers, Outcomes, abstractState, Promise!vars
<1>1. ASSUME NEW r \in Request, Register(r) PROVE Promise!Make(r) \/ Promise!Refuse(r)
  <2>1. CASE closed
    <3>1. abstractState' = [abstractState EXCEPT ![r] = "ended"]
      BY <1>1, <2>1 DEF Register
    <3>2. abstractState[r] = "new" /\ reply' = reply
      BY <1>1, <2>1 DEF Register
    <3> QED
      BY <3>1, <3>2 DEF Promise!Refuse
  <2>2. CASE ~closed
    <3>1. abstractState' = [abstractState EXCEPT ![r] = "open"]
      BY <1>1, <2>2 DEF Register
    <3>2. abstractState[r] = "new" /\ reply' = reply
      BY <1>1, <2>2 DEF Register
    <3> QED
      BY <3>1, <3>2 DEF Promise!Make
  <2> QED
    BY <2>1, <2>2
<1>2. ASSUME NEW r \in Request, Send(r)
      PROVE Promise!End(r) \/ UNCHANGED Promise!vars
  <2>1. CASE outcome' = outcome /\ pc' = [pc EXCEPT ![r] = "wait"]
    BY <1>2, <2>1 DEF Send
  <2>2. CASE outcome' = [outcome EXCEPT ![r] = "write"] /\ pc' = [pc EXCEPT ![r] = "forget"]
    <3>1. abstractState' = [abstractState EXCEPT ![r] = "write"]
      BY <1>2, <2>2 DEF Send
    <3> QED
      BY <1>2, <2>2, <3>1 DEF Send, Promise!End, Promise!Failures
  <2> QED
    BY <1>2, <2>1, <2>2 DEF Send
<1>3. ASSUME NEW r \in Request, Receive(r) PROVE Promise!End(r)
  <2> DEFINE got == IF inbox[r] # "none" THEN inbox[r] ELSE "ended"
  <2>1. abstractState' = [abstractState EXCEPT ![r] = got]
    BY <1>3 DEF Receive
  <2>2. abstractState[r] = "open" /\ reply' = reply
    BY <1>3 DEF Receive
  <2>3. got \in Promise!Failures \cup {reply[r]} /\ got # "none"
    BY <1>3 DEF Receive, Promise!Failures
  <2> QED
    BY <2>1, <2>2, <2>3 DEF Promise!End
<1>4. ASSUME NEW r \in Request, Timeout(r) PROVE Promise!End(r)
  BY <1>4 DEF Timeout, Promise!End, Promise!Failures
<1>5. ASSUME NEW r \in Request, Forget(r) PROVE UNCHANGED Promise!vars
  BY <1>5 DEF Forget
<1>6. ASSUME NEW r \in Request, Reply(r) PROVE Promise!Answer(r)
  BY <1>6 DEF Reply, Promise!Answer, Promise!Answers
<1>7. ASSUME NEW r \in Request, Route(r) PROVE UNCHANGED Promise!vars
  BY <1>7 DEF Route
<1>8. CASE Deliver
  BY <1>8 DEF Deliver
<1>9. CASE Close
  BY <1>9 DEF Close
<1>10. CASE UNCHANGED vars
  BY <1>10 DEF vars
<1> QED
  BY <1>1, <1>2, <1>3, <1>4, <1>5, <1>6, <1>7, <1>8, <1>9, <1>10
  DEF Next, Promise!Next

(* The control channel implements RequestReply.                            *)
THEOREM ChannelImplements == Spec => Implements
<1>1. Spec => []IInv
  BY Invariance
<1>2. Init => Promise!Init
  BY InitPromise
<1>3. IInv /\ [Next]_vars => [Promise!Next]_(Promise!vars)
  BY StepPromise
<1> QED
  BY <1>1, <1>2, <1>3, PTL DEF Spec, Implements, Promise!Spec
=============================================================================
