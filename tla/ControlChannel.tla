--------------------------- MODULE ControlChannel ---------------------------
(***************************************************************************)
(* The control channel of one chat session (control_channel.rs): callers   *)
(* on threads of their own write control requests to Claude Code's stdin   *)
(* and wait; the stdout reader routes the responses to them; stop and the  *)
(* end of the stream close the channel.                                    *)
(***************************************************************************)
EXTENDS FiniteSets, Naturals

CONSTANTS Request,  \* request ids: next_request_id never repeats one
          None      \* the reader holds no waiter

ASSUME ControlAssumption == None \notin Request

VARIABLES
  pc,       \* a caller: before register, the write, the wait, forget, after
  waiters,  \* Waiters.by_id: the requests whose sender is in the map
  closed,   \* Waiters.closed
  inbox,    \* the outcome in a request's mpsc channel, if one was sent
  outcome,  \* what a caller got
  asked,    \* requests written to stdin
  reply,    \* what Claude Code answered to each request
  stdout,   \* response lines written and not read
  routing   \* the waiter route_response took out of the map, not yet sent to

vars == <<pc, waiters, closed, inbox, outcome, asked, reply, stdout, routing>>

Answers == {"success", "rejected"}
Outcomes == Answers \cup {"timeout", "ended", "write"}

TypeOK ==
  /\ pc \in [Request -> {"idle", "write", "wait", "forget", "done"}]
  /\ waiters \in SUBSET Request
  /\ closed \in BOOLEAN
  /\ inbox \in [Request -> Answers \cup {"none"}]
  /\ outcome \in [Request -> Outcomes \cup {"none"}]
  /\ asked \in SUBSET Request
  /\ reply \in [Request -> Answers \cup {"none"}]
  /\ stdout \in SUBSET Request
  /\ routing \in Request \cup {None}

Init ==
  /\ pc = [r \in Request |-> "idle"]
  /\ waiters = {}
  /\ closed = FALSE
  /\ inbox = [r \in Request |-> "none"]
  /\ outcome = [r \in Request |-> "none"]
  /\ asked = {}
  /\ reply = [r \in Request |-> "none"]
  /\ stdout = {}
  /\ routing = None

-----------------------------------------------------------------------------
(* The callers.                                                            *)

(* register: closed is read and the sender inserted under one lock.        *)
Register(r) ==
  /\ pc[r] = "idle"
  /\ IF closed
     THEN /\ pc' = [pc EXCEPT ![r] = "done"]
          /\ outcome' = [outcome EXCEPT ![r] = "ended"]
          /\ UNCHANGED waiters
     ELSE /\ pc' = [pc EXCEPT ![r] = "write"]
          /\ waiters' = waiters \cup {r}
          /\ UNCHANGED outcome
  /\ UNCHANGED <<closed, inbox, asked, reply, stdout, routing>>

(* The write and flush to stdin under its mutex; a failed one is forgotten *)
(* before the error is returned.                                           *)
Send(r) ==
  /\ pc[r] = "write"
  /\ \/ /\ asked' = asked \cup {r}
        /\ pc' = [pc EXCEPT ![r] = "wait"]
        /\ UNCHANGED outcome
     \/ /\ outcome' = [outcome EXCEPT ![r] = "write"]
        /\ pc' = [pc EXCEPT ![r] = "forget"]
        /\ UNCHANGED asked
  /\ UNCHANGED <<waiters, closed, inbox, reply, stdout, routing>>

(* recv_timeout returns what was sent, or that the sender is dropped: it   *)
(* is in neither the map nor the reader's hands.                           *)
Receive(r) ==
  /\ pc[r] = "wait"
  /\ \/ inbox[r] # "none"
     \/ r \notin waiters /\ routing # r
  /\ outcome' = [outcome EXCEPT ![r] = IF inbox[r] # "none" THEN inbox[r] ELSE "ended"]
  /\ pc' = [pc EXCEPT ![r] = "done"]
  /\ UNCHANGED <<waiters, closed, inbox, asked, reply, stdout, routing>>

(* A mutant of Timeout: a wait with no timeout of its own.                 *)
TimeoutOnceClosed(r) ==
  /\ pc[r] = "wait"
  /\ closed
  /\ inbox[r] = "none"
  /\ outcome' = [outcome EXCEPT ![r] = "timeout"]
  /\ pc' = [pc EXCEPT ![r] = "forget"]
  /\ UNCHANGED <<waiters, closed, inbox, asked, reply, stdout, routing>>

(* recv_timeout gives up with nothing in the channel.                      *)
Timeout(r) ==
  /\ pc[r] = "wait"
  /\ inbox[r] = "none"
  /\ outcome' = [outcome EXCEPT ![r] = "timeout"]
  /\ pc' = [pc EXCEPT ![r] = "forget"]
  /\ UNCHANGED <<waiters, closed, inbox, asked, reply, stdout, routing>>

(* A mutant of Forget: a timed-out request stays in the map.               *)
ForgetNothing(r) ==
  /\ pc[r] = "forget"
  /\ pc' = [pc EXCEPT ![r] = "done"]
  /\ UNCHANGED <<waiters, closed, inbox, outcome, asked, reply, stdout, routing>>

Forget(r) ==
  /\ pc[r] = "forget"
  /\ waiters' = waiters \ {r}
  /\ pc' = [pc EXCEPT ![r] = "done"]
  /\ UNCHANGED <<closed, inbox, outcome, asked, reply, stdout, routing>>

-----------------------------------------------------------------------------
(* Claude Code and the stdout reader.                                      *)

(* Claude Code answers the requests it read in any order, or never.        *)
Reply(r) ==
  /\ r \in asked
  /\ reply[r] = "none"
  /\ \E a \in Answers : reply' = [reply EXCEPT ![r] = a]
  /\ stdout' = stdout \cup {r}
  /\ UNCHANGED <<pc, waiters, closed, inbox, outcome, asked, routing>>

(* route_response under the map lock: a response nobody waits for any more *)
(* is dropped.                                                             *)
Route(r) ==
  /\ routing = None
  /\ r \in stdout
  /\ stdout' = stdout \ {r}
  /\ waiters' = waiters \ {r}
  /\ routing' = IF r \in waiters THEN r ELSE None
  /\ UNCHANGED <<pc, closed, inbox, outcome, asked, reply>>

(* A mutant of Deliver: the outcome goes to whoever waits.                 *)
DeliverToAnyone ==
  /\ routing # None
  /\ \E r \in Request : pc[r] = "wait" /\ inbox' = [inbox EXCEPT ![r] = reply[routing]]
  /\ routing' = None
  /\ UNCHANGED <<pc, waiters, closed, outcome, asked, reply, stdout>>

(* A mutant of Deliver: the request itself is sent to its caller.   *)
DeliverUnanswered ==
  /\ routing # None
  /\ inbox' = [inbox EXCEPT ![routing] = routing]
  /\ routing' = None
  /\ UNCHANGED <<pc, waiters, closed, outcome, asked, reply, stdout>>

(* waiter.send; a caller that gave up in between has dropped the receiver. *)
Deliver ==
  /\ routing # None
  /\ inbox' = [inbox EXCEPT ![routing] =
                 IF pc[routing] \in {"write", "wait"} THEN reply[routing] ELSE @]
  /\ routing' = None
  /\ UNCHANGED <<pc, waiters, closed, outcome, asked, reply, stdout>>

(* A mutant of Close: the flag without the waiters.                        *)
CloseKeepingWaiters ==
  /\ ~closed
  /\ closed' = TRUE
  /\ UNCHANGED <<pc, waiters, inbox, outcome, asked, reply, stdout, routing>>

(* close: by ChatSession::stop, and by the reader at the end of the stream *)
(* when it routes nothing.                                                 *)
Close ==
  /\ ~closed
  /\ closed' = TRUE
  /\ waiters' = {}
  /\ UNCHANGED <<pc, inbox, outcome, asked, reply, stdout, routing>>

-----------------------------------------------------------------------------
Next ==
  \/ \E r \in Request : \/ Register(r) \/ Send(r) \/ Receive(r) \/ Timeout(r)
                        \/ Forget(r) \/ Reply(r) \/ Route(r)
  \/ Deliver \/ Close

Spec == Init /\ [][Next]_vars

(* A caller's thread runs, and the reader finishes a line it began.        *)
Running ==
  /\ \A r \in Request : WF_vars(Send(r)) /\ WF_vars(Receive(r)) /\ WF_vars(Forget(r))
  /\ WF_vars(Deliver)

FairSpec == Spec /\ Running

(* Every wait has a timeout (ControlQuery::timeout, SET_MODEL_TIMEOUT,     *)
(* APPLY_EFFORT_TIMEOUT). FairSpec leaves it out: after a close no caller  *)
(* may depend on it.                                                       *)
TimersFire == \A r \in Request : WF_vars(Timeout(r))

-----------------------------------------------------------------------------
(* Properties.                                                             *)

(* The map holds no sender of a caller that is gone, and none at all once  *)
(* the channel is closed: nothing leaks, and nobody can be left waiting on *)
(* a channel that will not be routed again.                                *)
NoStaleWaiter ==
  /\ \A r \in waiters : pc[r] \in {"write", "wait", "forget"}
  /\ closed => waiters = {}

(* A caller gets the answer Claude Code gave to its own request, whatever  *)
(* timed out, was answered late or out of order around it.                 *)
AnswerIsOwn ==
  \A r \in Request : outcome[r] \in Answers => (r \in asked /\ reply[r] = outcome[r])

(* Every request that is made ends, given the timeouts.                    *)
EveryRequestEnds == TimersFire => \A r \in Request : (pc[r] # "idle") ~> (pc[r] = "done")

(* Closing the channel releases every caller, without their timeouts.      *)
CloseReleasesAll ==
  \A r \in Request : (closed /\ pc[r] # "idle") ~> (pc[r] = "done")

(* The channel implements RequestReply: a request ends when its caller     *)
(* returns from the wait (or from the failed write).                       *)
abstractState ==
  [r \in Request |-> IF outcome[r] # "none" THEN outcome[r]
                     ELSE IF pc[r] = "idle" THEN "new" ELSE "open"]
Promise == INSTANCE RequestReply WITH state <- abstractState, answer <- reply
Implements == Promise!Spec
=============================================================================
