------------------------------ MODULE ChatTurn ------------------------------
(***************************************************************************)
(* The turns of one chat session: the store of its tab in the window       *)
(* (chat-session-store.ts), the commands it invokes (chat_session_cmd.rs,  *)
(* queue_cmd.rs), the one-slot queue, the session and its stdout reader    *)
(* (chat.rs), and Claude Code at the other end of the two pipes.           *)
(*                                                                         *)
(* What the window shows follows the session through events; the session   *)
(* follows Claude Code through lines it has not read yet; both let the     *)
(* user act in between.                                                    *)
(***************************************************************************)
EXTENDS Sequences, Naturals

CONSTANTS
  Message,   \* what the user may send or queue, each once
  None,      \* no message
  MaxAsks,   \* bound: questions Claude Code asks
  Failing,   \* writes may fail, commands be refused, the process die
  Errors     \* a turn may end with an API error

ASSUME ChatTurnAssumption ==
  /\ None \notin Message
  /\ MaxAsks \in Nat
  /\ Failing \in BOOLEAN /\ Errors \in BOOLEAN

VARIABLES
  unsent,       \* messages the user has not used yet
  streaming,    \* the store's isStreaming
  shown,        \* its _pendingQueue
  asking,       \* it shows a question without an answer
  events,       \* chat_stream chunks on the way to the store
  sending,      \* a send_message command: none, called, or written
  sent,         \* its message
  current,      \* the window still shows the turn it began (sameConversation)
  queueing,     \* the message of a queue_message command under way
  interrupting, \* a stop_chat command is under way
  slot,         \* QueuedMessageService, for this session
  awaited,      \* AwaitedResult.awaited
  hold,         \* AwaitedResult.turn_awake
  pending,      \* pending_requests: the questions that can be answered
  stopping,     \* ChatSession::stop ran
  reader,       \* where the stdout reader is
  taken,        \* the message it drains
  turn,         \* Claude Code: idle, working, asking or gone
  input,        \* messages written to it and not begun
  interrupted,  \* an interrupt it has not acted on
  output,       \* lines it wrote and the reader has not read
  asks          \* questions it has asked

vars == <<unsent, streaming, shown, asking, events, sending, sent, current, queueing,
          interrupting, slot, awaited, hold, pending, stopping, reader, taken,
          turn, input, interrupted, output, asks>>
store == <<streaming, shown, asking, events>>
commands == <<unsent, sending, sent, current, queueing, interrupting>>
session == <<slot, awaited, hold, pending, stopping, reader, taken>>
claude == <<turn, input, interrupted, output, asks>>

Question == 1..MaxAsks
Chunk == {<<k>> : k \in {"text", "ask", "result", "error"}} \cup ({"drained"} \X Message)
Line == {"text", "ask", "result", "error", "eof"}

TypeOK ==
  /\ unsent \in SUBSET Message
  /\ streaming \in BOOLEAN /\ asking \in BOOLEAN
  /\ shown \in Message \cup {None}
  /\ events \in Seq(Chunk)
  /\ sending \in {"no", "called", "written"}
  /\ sent \in Message \cup {None} /\ queueing \in Message \cup {None}
  /\ interrupting \in BOOLEAN
  /\ slot \in Message \cup {None}
  /\ current \in BOOLEAN /\ awaited \in BOOLEAN /\ hold \in BOOLEAN /\ stopping \in BOOLEAN
  /\ pending \in SUBSET Question
  /\ reader \in {"reads", "asked", "turned", "drains", "drained", "ends", "ended"}
  /\ taken \in Message \cup {None}
  /\ (reader = "drains") <=> (taken # None)
  /\ turn \in {"idle", "working", "asking", "gone"}
  /\ input \in Seq(Message)
  /\ interrupted \in BOOLEAN
  /\ output \in Seq(Line)
  /\ asks \in 0..MaxAsks

Init ==
  /\ unsent = Message
  /\ streaming = FALSE /\ asking = FALSE /\ shown = None /\ events = <<>>
  /\ sending = "no" /\ sent = None /\ current = FALSE /\ queueing = None /\ interrupting = FALSE
  /\ slot = None
  /\ awaited = TRUE /\ hold = FALSE
  /\ pending = {} /\ stopping = FALSE
  /\ reader = "reads" /\ taken = None
  /\ turn = "idle" /\ input = <<>> /\ interrupted = FALSE /\ output = <<>>
  /\ asks = 0

-----------------------------------------------------------------------------
(* The user and the store.                                                 *)

(* sendMessage: only while the store takes the session for idle. Bound: one*)
(* send_message at a time.                                                 *)
Send(m) ==
  /\ m \in unsent /\ ~streaming /\ sending = "no" /\ ~stopping
  /\ unsent' = unsent \ {m}
  /\ streaming' = TRUE /\ asking' = FALSE
  /\ sending' = "called" /\ sent' = m /\ current' = TRUE
  /\ UNCHANGED <<shown, events, queueing, interrupting, session, claude>>

(* queueMessage: only while it streams. The user is slower than a command: *)
(* one queue_message at a time.                                            *)
Queue(m) ==
  /\ m \in unsent /\ streaming /\ queueing = None /\ ~stopping
  /\ unsent' = unsent \ {m}
  /\ shown' = m
  /\ queueing' = m
  /\ UNCHANGED <<streaming, asking, events, sending, sent, current, interrupting, session, claude>>

(* cancelQueuedMessage with cancel_queued_message                          *)
Cancel ==
  /\ shown # None /\ queueing = None /\ ~stopping
  /\ slot' = None
  /\ shown' = None
  /\ UNCHANGED <<streaming, asking, events, commands, awaited, hold, pending, stopping,
                 reader, taken, claude>>

(* finalizeInterruptedTurn, then stop_chat.                                *)
Stop ==
  /\ streaming /\ ~interrupting /\ ~stopping
  /\ streaming' = FALSE /\ asking' = FALSE
  /\ interrupting' = TRUE /\ current' = FALSE
  /\ UNCHANGED <<shown, events, unsent, sending, sent, queueing, session, claude>>

(* A mutant of StreamChunk: an error leaves the turn shown as running.     *)
StreamChunkKeepingErrors ==
  /\ events # <<>>
  /\ events' = Tail(events)
  /\ LET k == Head(events)[1] IN
     /\ streaming' = CASE k \in {"text", "drained"} -> TRUE [] k = "result" -> FALSE
                       [] OTHER -> streaming
     /\ asking' = CASE k = "ask" -> TRUE [] k = "text" -> asking [] OTHER -> FALSE
     /\ shown' = IF k = "drained" THEN None ELSE shown
     /\ current' = (current /\ k # "drained")
  /\ UNCHANGED <<unsent, sending, sent, queueing, interrupting, session, claude>>

(* handleStreamChunk                                                       *)
StreamChunk ==
  /\ events # <<>>
  /\ events' = Tail(events)
  /\ LET k == Head(events)[1] IN
     /\ streaming' = CASE k \in {"text", "drained"} -> TRUE [] k \in {"result", "error"} -> FALSE
                       [] OTHER -> streaming
     /\ asking' = CASE k = "ask" -> TRUE [] k = "text" -> asking [] OTHER -> FALSE
     /\ shown' = IF k = "drained" THEN None ELSE shown
     /\ current' = (current /\ k # "drained")
  /\ UNCHANGED <<unsent, sending, sent, queueing, interrupting, session, claude>>

-----------------------------------------------------------------------------
(* The commands.                                                           *)

(* send_message_with_emit up to the flush: the hold is taken first.        *)
Write ==
  /\ sending = "called" /\ ~stopping
  /\ hold' = TRUE
  /\ input' = IF turn = "gone" THEN input ELSE Append(input, sent)
  /\ sending' = "written" /\ sent' = None
  /\ UNCHANGED <<store, unsent, current, queueing, interrupting, slot, awaited, pending, stopping,
                 reader, taken, turn, interrupted, output, asks>>

(* A write that fails drops the hold; a busy or dead session writes        *)
(* nothing. The store's restart of a dead session is not modelled.         *)
WriteFails ==
  /\ sending = "called" /\ (Failing \/ stopping)
  /\ sending' = "no" /\ sent' = None
  /\ streaming' = (streaming /\ ~current)
  /\ hold' \in {hold, FALSE}
  /\ UNCHANGED <<shown, asking, events, unsent, current, queueing, interrupting, slot, awaited, pending,
                 stopping, reader, taken, claude>>

(* message_written, after the stdin lock was dropped.                      *)
Written ==
  /\ sending = "written"
  /\ awaited' = TRUE
  /\ hold' = TRUE
  /\ sending' = "no"
  /\ UNCHANGED <<store, unsent, sent, current, queueing, interrupting, slot, pending, stopping,
                 reader, taken, claude>>

(* queue_message: the newest message takes the slot.                       *)
Queued ==
  /\ queueing # None
  /\ slot' = queueing
  /\ queueing' = None
  /\ UNCHANGED <<store, unsent, sending, sent, current, interrupting, awaited, hold, pending, stopping,
                 reader, taken, claude>>

(* stop_chat with interrupt, under the session's lock.                     *)
Interrupt ==
  /\ interrupting /\ sending # "written"
  /\ interrupting' = FALSE
  /\ interrupted' \in {~stopping} \cup IF Failing THEN {FALSE} ELSE {}
  /\ UNCHANGED <<store, unsent, sending, sent, current, queueing, session, turn, input, output, asks>>

(* A mutant of Answer: an answer that was not written is forgotten.        *)
AnswerForgets(q) ==
  /\ asking /\ q \in pending /\ sending # "written" /\ ~stopping
  /\ asking' = FALSE
  /\ pending' = pending \ {q}
  /\ \/ /\ hold' = TRUE
        /\ turn' = IF turn = "asking" /\ q = asks THEN "working" ELSE turn
        /\ UNCHANGED streaming
     \/ /\ Failing
        /\ hold' \in {hold, FALSE} /\ streaming' = FALSE
        /\ UNCHANGED turn
  /\ UNCHANGED <<shown, events, commands, slot, awaited, stopping, reader, taken,
                 input, interrupted, output, asks>>

(* submit_question_answer: the request leaves the map, the hold is taken,  *)
(* the answer is written; a failed write undoes all three.                 *)
Answer(q) ==
  /\ asking /\ q \in pending /\ sending # "written" /\ ~stopping
  /\ \/ /\ asking' = FALSE
        /\ pending' = pending \ {q}
        /\ hold' = TRUE
        /\ turn' = IF turn = "asking" /\ q = asks THEN "working" ELSE turn
        /\ UNCHANGED streaming
     \/ /\ Failing
        /\ hold' \in {hold, FALSE} /\ streaming' = FALSE
        /\ UNCHANGED <<asking, pending, turn>>
  /\ UNCHANGED <<shown, events, commands, slot, awaited, stopping, reader, taken,
                 input, interrupted, output, asks>>

(* A mutant of StopSession: the hold is left to the reader.                *)
StopSessionHolding ==
  /\ ~stopping /\ sending # "written"
  /\ stopping' = TRUE
  /\ pending' = {}
  /\ streaming' = FALSE /\ asking' = FALSE /\ shown' = None /\ current' = FALSE
  /\ turn' = "gone" /\ input' = <<>>
  /\ output' = IF turn = "gone" THEN output ELSE Append(output, "eof")
  /\ UNCHANGED <<events, unsent, sending, sent, queueing, interrupting, slot, awaited, hold, reader,
                 taken, interrupted, asks>>

(* ChatSession::stop, and the store's reset: the process is killed.        *)
StopSession ==
  /\ ~stopping /\ sending # "written"
  /\ stopping' = TRUE
  /\ hold' = FALSE
  /\ pending' = {}
  /\ streaming' = FALSE /\ asking' = FALSE /\ shown' = None /\ current' = FALSE
  /\ turn' = "gone" /\ input' = <<>>
  /\ output' = IF turn = "gone" THEN output ELSE Append(output, "eof")
  /\ UNCHANGED <<events, unsent, sending, sent, queueing, interrupting, slot, awaited, reader, taken,
                 interrupted, asks>>

-----------------------------------------------------------------------------
(* The stdout reader.                                                      *)

Emit(c) == events' = Append(events, c)

ReadText ==
  /\ reader = "reads" /\ output # <<>> /\ Head(output) = "text"
  /\ output' = Tail(output)
  /\ awaited' = TRUE
  /\ Emit(<<"text">>)
  /\ UNCHANGED <<streaming, shown, asking, commands, slot, hold, pending, stopping, reader,
                 taken, turn, input, interrupted, asks>>

(* A can_use_tool request for AskUserQuestion: registered, then shown ...  *)
ReadAsk ==
  /\ reader = "reads" /\ output # <<>> /\ Head(output) = "ask"
  /\ output' = Tail(output)
  /\ pending' = pending \cup {asks}
  /\ Emit(<<"ask">>)
  /\ reader' = "asked"
  /\ UNCHANGED <<streaming, shown, asking, commands, slot, awaited, hold, stopping, taken,
                 turn, input, interrupted, asks>>

(* ... and only then is the hold dropped.                                  *)
Asked ==
  /\ reader = "asked"
  /\ hold' = FALSE
  /\ reader' = "reads"
  /\ UNCHANGED <<store, commands, slot, awaited, pending, stopping, taken, claude>>

(* A result line. With is_error it is an Error chunk, which drains nothing.*)
ReadTurnEnd ==
  /\ reader = "reads" /\ output # <<>> /\ Head(output) \in {"result", "error"}
  /\ output' = Tail(output)
  /\ hold' = FALSE /\ awaited' = FALSE
  /\ Emit(<<Head(output)>>)
  /\ reader' = IF Head(output) = "result" THEN "turned" ELSE "reads"
  /\ UNCHANGED <<streaming, shown, asking, commands, slot, pending, stopping, taken,
                 turn, input, interrupted, asks>>

(* Mutants of DrainTake: the queue is only looked at, an empty slot is     *)
(* drained too, and the queue is not looked at.                            *)
DrainPeek ==
  /\ reader = "turned"
  /\ taken' = slot
  /\ reader' = IF slot = None THEN "reads" ELSE "drains"
  /\ UNCHANGED <<store, commands, slot, awaited, hold, pending, stopping, claude>>

DrainEmpty ==
  /\ reader = "turned"
  /\ taken' = slot /\ slot' = None
  /\ reader' = "drains"
  /\ UNCHANGED <<store, commands, awaited, hold, pending, stopping, claude>>

DrainNothing ==
  /\ reader = "turned"
  /\ reader' = "reads"
  /\ UNCHANGED <<store, commands, slot, taken, awaited, hold, pending, stopping, claude>>

(* drain_queued_message takes the message ...                              *)
DrainTake ==
  /\ reader = "turned"
  /\ taken' = slot /\ slot' = None
  /\ reader' = IF slot = None THEN "reads" ELSE "drains"
  /\ UNCHANGED <<store, commands, awaited, hold, pending, stopping, claude>>

(* ... writes it, which may fail and lose it, shows it as sent ...         *)
DrainWrite ==
  /\ reader = "drains"
  /\ taken' = None
  /\ \/ /\ input' = IF turn = "gone" THEN input ELSE Append(input, taken)
        /\ Emit(<<"drained", taken>>)
        /\ reader' = "drained"
     \/ (Failing \/ stopping) /\ reader' = "reads" /\ UNCHANGED <<input, events>>
  /\ UNCHANGED <<streaming, shown, asking, commands, slot, awaited, hold, pending, stopping,
                 turn, interrupted, output, asks>>

(* ... and then counts as a message written.                               *)
Drained ==
  /\ reader = "drained"
  /\ awaited' = TRUE /\ hold' = TRUE
  /\ reader' = "reads"
  /\ UNCHANGED <<store, commands, slot, pending, stopping, taken, claude>>

(* The end of the stream: the hold goes, then a session nobody stopped     *)
(* that still owed a result says so.                                       *)
ReadEnd ==
  /\ reader = "reads" /\ output # <<>> /\ Head(output) = "eof"
  /\ output' = Tail(output)
  /\ hold' = FALSE
  /\ reader' = "ends"
  /\ UNCHANGED <<store, commands, slot, awaited, pending, stopping, taken,
                 turn, input, interrupted, asks>>

End ==
  /\ reader = "ends"
  /\ reader' = "ended"
  /\ IF awaited /\ ~stopping THEN Emit(<<"error">>) ELSE UNCHANGED events
  /\ UNCHANGED <<streaming, shown, asking, commands, slot, awaited, hold, pending, stopping,
                 taken, claude>>

-----------------------------------------------------------------------------
(* Claude Code.                                                            *)

Begin ==
  /\ turn = "idle" /\ input # <<>>
  /\ turn' = "working"
  /\ input' = Tail(input)
  /\ UNCHANGED <<store, commands, session, interrupted, output, asks>>

(* Bound: one text on its way to the window at a time.                     *)
Say ==
  /\ turn = "working" /\ output = <<>> /\ events = <<>>
  /\ output' = <<"text">>
  /\ UNCHANGED <<store, commands, session, turn, input, interrupted, asks>>

Ask ==
  /\ turn = "working" /\ asks < MaxAsks
  /\ turn' = "asking"
  /\ asks' = asks + 1
  /\ output' = Append(output, "ask")
  /\ UNCHANGED <<store, commands, session, input, interrupted>>

(* A turn ends by itself, or by an interrupt, which an idle Claude Code    *)
(* ignores.                                                                *)
EndTurn ==
  /\ turn = "working" \/ (turn = "asking" /\ interrupted)
  /\ turn' = "idle"
  /\ interrupted' = FALSE
  /\ \E l \in {"result"} \cup IF Errors THEN {"error"} ELSE {} : output' = Append(output, l)
  /\ UNCHANGED <<store, commands, session, input, asks>>

Ignore ==
  /\ turn = "idle" /\ interrupted
  /\ interrupted' = FALSE
  /\ UNCHANGED <<store, commands, session, turn, input, output, asks>>

Die ==
  /\ Failing /\ turn # "gone"
  /\ turn' = "gone" /\ input' = <<>>
  /\ output' = Append(output, "eof")
  /\ UNCHANGED <<store, commands, session, interrupted, asks>>

-----------------------------------------------------------------------------
User == (\E m \in Message : Send(m) \/ Queue(m)) \/ Cancel \/ Stop \/ (\E q \in Question : Answer(q))
Command == Write \/ WriteFails \/ Written \/ Queued \/ Interrupt
Reader == \/ ReadText \/ ReadAsk \/ Asked \/ ReadTurnEnd \/ DrainTake \/ DrainWrite \/ Drained
          \/ ReadEnd \/ End
Works == Begin \/ EndTurn \/ Ignore

Next == User \/ StreamChunk \/ Command \/ StopSession \/ Reader \/ Works \/ Say \/ Ask \/ Die

Spec == Init /\ [][Next]_vars

(* The window's event loop, the commands' threads and the reader go on as  *)
(* long as they can; Claude Code ends its turns. The user need not act.    *)
FairSpec ==
  /\ Spec
  /\ WF_vars(StreamChunk) /\ WF_vars(Reader) /\ WF_vars(EndTurn) /\ WF_vars(Begin)
  /\ WF_vars(Write \/ WriteFails) /\ WF_vars(Written) /\ WF_vars(Queued) /\ WF_vars(Interrupt)

-----------------------------------------------------------------------------
(* Properties.                                                             *)

(* A question Claude Code waits on, once the reader is past it, can be     *)
(* answered: no failed answer, interrupt or drain loses its request.       *)
QuestionAnswerable ==
  (turn = "asking" /\ output = <<>> /\ ~stopping) => asks \in pending

(* A stopped session whose reader has ended keeps no hold: neither a       *)
(* message sent to a session that just died, nor a drain that a stop       *)
(* overtook, leaks one.                                                    *)
StoppedLetsSleep == stopping /\ reader = "ended" => ~hold

(* A message is in one place at a time: with the user, on its way to the   *)
(* slot, in the slot, with the reader, or with Claude Code. None is sent   *)
(* twice.                                                                  *)
Places(m) == {p \in {"unsent", "sending", "queueing", "slot", "taken", "input"} :
  \/ p = "unsent" /\ m \in unsent
  \/ p = "sending" /\ sent = m
  \/ p = "queueing" /\ queueing = m
  \/ p = "slot" /\ slot = m
  \/ p = "taken" /\ taken = m
  \/ p = "input" /\ \E i \in DOMAIN input : input[i] = m}

OnePlace == \A m \in Message, p, q \in {"unsent", "sending", "queueing", "slot", "taken", "input"} :
              p \in Places(m) /\ q \in Places(m) => p = q

(* The window never shows a turn as running for good, unless Claude Code   *)
(* waits for an answer or is gone.                                         *)
StreamingEnds == streaming ~> (~streaming \/ turn \in {"asking", "gone"})

(* A message in the slot while a turn runs leaves it: it is sent when the  *)
(* turn ends, replaced or cancelled, unless the turn ends with an error.   *)
Waits(m) == slot = m /\ turn = "working"
Leaves(m) == slot # m \/ turn \in {"asking", "gone"}
QueuedRuns ==
  \A m \in Message : Waits(m) ~> (Leaves(m) \/ \E i \in DOMAIN output : output[i] = "error")
=============================================================================
