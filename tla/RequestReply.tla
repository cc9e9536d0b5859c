---------------------------- MODULE RequestReply ----------------------------
(***************************************************************************)
(* What the control channel promises a caller: a request, once made, ends  *)
(* once, with one outcome, and with an answer only if the peer gave that   *)
(* answer to that request.                                                 *)
(***************************************************************************)
CONSTANT Request

VARIABLES
  state,  \* each request: "new", "open", or the outcome it ended with
  answer  \* what the peer answered to each request so far, "none" at first

vars == <<state, answer>>

Answers == {"success", "rejected"}
Failures == {"timeout", "ended", "write"}

Init ==
  /\ state = [r \in Request |-> "new"]
  /\ answer = [r \in Request |-> "none"]

Make(r) ==
  /\ state[r] = "new"
  /\ state' = [state EXCEPT ![r] = "open"]
  /\ UNCHANGED answer

(* A request a closed channel refuses never opens.                         *)
Refuse(r) ==
  /\ state[r] = "new"
  /\ state' = [state EXCEPT ![r] = "ended"]
  /\ UNCHANGED answer

(* The peer answers only what it was asked, and changes no answer.         *)
Answer(r) ==
  /\ state[r] # "new"
  /\ answer[r] = "none"
  /\ \E a \in Answers : answer' = [answer EXCEPT ![r] = a]
  /\ UNCHANGED state

End(r) ==
  /\ state[r] = "open"
  /\ \E o \in Failures \cup {answer[r]} :
       /\ o # "none"
       /\ state' = [state EXCEPT ![r] = o]
  /\ UNCHANGED answer

Next == \E r \in Request : Make(r) \/ Refuse(r) \/ Answer(r) \/ End(r)

Spec == Init /\ [][Next]_vars
=============================================================================
