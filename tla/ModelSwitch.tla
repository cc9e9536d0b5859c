----------------------------- MODULE ModelSwitch -----------------------------
(***************************************************************************)
(* Which model a chat session runs on (chat.rs, chat_session_cmd.rs): the  *)
(* switch that a session of a routed provider makes by itself, at its start*)
(* or at its first init line ("soft impose"), the models the user picks in *)
(* the composer or types as /model, and the first-turn gate between them.  *)
(*                                                                         *)
(* One tab.  Its sessions are numbered; a restart replaces one by the next.*)
(* Claude Code checks a set_model while it works on its inputs, and answers*)
(* in any order.  The way of an answer to its waiter is ControlChannel.    *)
(***************************************************************************)
EXTENDS Naturals, Sequences

CONSTANTS
  Commands,     \* commands of the window: messages and picks
  MaxSessions   \* bound: sessions of the tab

ASSUME SwitchAssumption ==
  /\ "impose" \notin Commands
  /\ MaxSessions \in Nat

VARIABLES
  session, live,     \* the tab's session, and that it has a process
  kind,              \* when the session imposes its model: never, at its start, at its first init
  gate,              \* FirstTurnGate of each session
  settled, typed,    \* ModelSettled: settled, typed_command
  queued,            \* the message slot of the conversation
  pc, what, mine,    \* each command: where it is, what it writes, the session it waits for
  begun,             \* the session it has begun with
  input, working,    \* Claude Code: its inputs, and the one it works on
  requests, by,      \* ... set_model requests it has not answered, and who chose its model
  output,            \* ... and its lines that nobody has read
  chosen,            \* the user has chosen a model in this session
  undone,            \* the session's own model came after the user's
  excused,           \* nobody answered the session's request in time, or a pick waited too long
  overlapped,        \* a /model was written while another input was under way
  misread            \* a line of another input was taken for the reply to a /model

vars == <<session, live, kind, gate, settled, typed, queued, pc, what, mine, begun, input, working,
          requests, by, output, chosen, undone, excused, overlapped, misread>>
tab == <<session, live, kind>>
callers == <<pc, what, mine, begun>>
settling == <<settled, typed>>
claude == <<input, working, requests, by, output>>
history == <<chosen, undone, excused, overlapped, misread>>

Sessions == 0..MaxSessions
Text == {"message", "model"}
Line == {"init", "error", "switched", "refused", "result", "failed"}

TypeOK ==
  /\ session \in Sessions /\ live \in BOOLEAN /\ kind \in {"never", "start", "init"}
  /\ gate \in [Sessions -> {"open", "closed"}]
  /\ \A s \in Sessions : s > session => gate[s] = "open"
  /\ settled \in BOOLEAN /\ typed \in {"none", "written", "running"}
  /\ queued \in Text \cup {"none"}
  /\ pc \in [Commands -> {"none", "waits", "applies", "done"}]
  /\ what \in [Commands -> Text \cup {"pick"}]
  /\ mine \in [Commands -> Sessions] /\ begun \in [Commands -> Sessions]
  /\ input \in Seq(Text) /\ working \in Text \cup {"none"}
  /\ requests \in SUBSET (Commands \cup {"impose"}) /\ by \in {"launch", "impose", "user"}
  /\ output \in Seq(Line)
  /\ chosen \in BOOLEAN /\ undone \in BOOLEAN /\ excused \in BOOLEAN
  /\ overlapped \in BOOLEAN /\ misread \in BOOLEAN
  /\ (by = "user" => chosen) /\ (chosen \/ requests # {} => settled)

Init ==
  /\ session = 0 /\ live = FALSE /\ kind = "never"
  /\ gate = [s \in Sessions |-> "open"]
  /\ settled = FALSE /\ typed = "none" /\ queued = "none"
  /\ pc = [c \in Commands |-> "none"] /\ what = [c \in Commands |-> "message"]
  /\ mine = [c \in Commands |-> 0] /\ begun = mine
  /\ input = <<>> /\ working = "none" /\ requests = {} /\ by = "launch" /\ output = <<>>
  /\ chosen = FALSE /\ undone = FALSE /\ excused = FALSE /\ overlapped = FALSE /\ misread = FALSE

Goes(c, s) == pc' = [pc EXCEPT ![c] = s]

(* A text goes to stdin under its lock; a /model settles the model first.  *)
(* before: the lines that are read by then.                                *)
Writes(text, before) ==
  /\ input' = Append(input, text)
  /\ settled' = (settled \/ text = "model")
  /\ typed' = IF text = "model" THEN "written" ELSE typed
  /\ chosen' = (chosen \/ text = "model")
  /\ overlapped' = (overlapped \/ (text = "model" /\ ~(working = "none" /\ input = <<>> /\ before = <<>>)))

-----------------------------------------------------------------------------
(* The session.                                                            *)

(* start_session_inner puts a new session in place and stops the old one.  *)
Replace ==
  /\ session < MaxSessions
  /\ session' = session + 1 /\ live' = FALSE /\ kind' = "never"
  /\ settled' = FALSE /\ typed' = "none"
  /\ queued' \in {queued, "none"}
  /\ input' = <<>> /\ working' = "none" /\ requests' = {} /\ by' = "launch" /\ output' = <<>>
  /\ chosen' = FALSE /\ excused' = FALSE /\ overlapped' = FALSE /\ misread' = FALSE
  /\ UNCHANGED <<gate, callers, undone>>

(* ChatSession::start, under the session's mutex.  The request may not be  *)
(* written; the model counts as settled then too.                          *)
Start ==
  /\ session > 0 /\ ~live /\ gate[session] = "open"
  /\ live' = TRUE
  /\ \/ kind' \in {"never", "init"} /\ UNCHANGED <<gate, settled, requests>>
     \/ /\ kind' = "start" /\ settled' = TRUE
        /\ \/ requests' = {"impose"} /\ gate' = [gate EXCEPT ![session] = "closed"]
           \/ UNCHANGED <<gate, requests>>
  /\ UNCHANGED <<session, typed, queued, callers, input, working, by, output, history>>

(* The thread of spawn_soft_impose_report opens the gate: it has its       *)
(* answer, the control channel is closed, or nobody answers in time.       *)
Report(s) ==
  /\ gate[s] = "closed"
  /\ gate' = [gate EXCEPT ![s] = "open"]
  /\ excused' = (excused \/ (s = session /\ "impose" \in requests))
  /\ UNCHANGED <<tab, settling, queued, callers, claude, chosen, undone, overlapped, misread>>

-----------------------------------------------------------------------------
(* The commands of the window.                                             *)

(* after_first_turn and session_after_first_turn take the session's gate.  *)
Ask(c, w) ==
  /\ pc[c] = "none"
  /\ Goes(c, "waits") /\ what' = [what EXCEPT ![c] = w]
  /\ mine' = [mine EXCEPT ![c] = session] /\ begun' = [begun EXCEPT ![c] = session]
  /\ UNCHANGED <<tab, gate, settling, queued, claude, history>>

(* queue_message, for the end of the turn.                                 *)
Queue(c, w) ==
  /\ pc[c] = "none" /\ live
  /\ Goes(c, "done") /\ queued' = w
  /\ UNCHANGED <<tab, gate, settling, what, mine, begun, claude, history>>

(* A mutant of Write: the session may be another one than that waited for. *)
WriteAnywhere(c) ==
  /\ pc[c] = "waits" /\ what[c] \in Text
  /\ gate[mine[c]] = "open" /\ live
  /\ Goes(c, "done")
  /\ Writes(what[c], output)
  /\ UNCHANGED <<tab, gate, queued, what, mine, begun, working, requests, by, output,
                 undone, excused, misread>>

(* write_after, of the session whose gate it has waited for.  The wait is  *)
(* longer than that of the gate's report.                                  *)
Write(c) ==
  /\ pc[c] = "waits" /\ what[c] \in Text
  /\ gate[mine[c]] = "open" /\ mine[c] = session /\ live
  /\ Goes(c, "done")
  /\ Writes(what[c], output)
  /\ UNCHANGED <<tab, gate, queued, what, mine, begun, working, requests, by, output,
                 undone, excused, misread>>

(* The session was replaced, has no process, or is held by another command.*)
Refused(c) ==
  /\ pc[c] = "waits" /\ gate[mine[c]] = "open"
  /\ Goes(c, "done")
  /\ UNCHANGED <<tab, gate, settling, queued, what, mine, begun, claude, history>>

(* session_after_first_turn: a pick waits again for the new session ...    *)
WaitAgain(c) ==
  /\ pc[c] = "waits" /\ what[c] = "pick"
  /\ gate[mine[c]] = "open" /\ mine[c] # session
  /\ mine' = [mine EXCEPT ![c] = session]
  /\ UNCHANGED <<tab, gate, settling, queued, pc, what, begun, claude, history>>

Takes(c) ==
  /\ pc[c] = "waits" /\ what[c] = "pick" /\ live
  /\ Goes(c, "applies")
  /\ mine' = [mine EXCEPT ![c] = session]
  /\ UNCHANGED <<tab, gate, settling, queued, what, begun, claude, chosen, undone, overlapped, misread>>

Take(c) ==
  /\ gate[mine[c]] = "open" /\ mine[c] = session
  /\ Takes(c) /\ UNCHANGED excused

(* ... until its one deadline, that of the session it has begun with.      *)
TakeLate(c) ==
  /\ gate[begun[c]] = "open" /\ begun[c] # session
  /\ Takes(c) /\ excused' = TRUE

(* A mutant of Apply: a pick does not settle the session's model.          *)
ApplyUnsettled(c) ==
  /\ pc[c] = "applies"
  /\ Goes(c, "done")
  /\ IF mine[c] = session /\ live
     THEN /\ requests' = requests \cup {c} /\ chosen' = TRUE
     ELSE UNCHANGED <<requests, chosen>>
  /\ UNCHANGED <<tab, gate, settling, queued, what, mine, begun, input, working, by, output,
                 undone, excused, overlapped, misread>>

(* ModelSwitch::apply, with the session's mutex released: send_model_pick  *)
(* settles and writes under the lock of stdin, which may be gone.          *)
Apply(c) ==
  /\ pc[c] = "applies"
  /\ Goes(c, "done")
  /\ IF mine[c] = session /\ live
     THEN /\ settled' = TRUE /\ requests' = requests \cup {c} /\ chosen' = TRUE
     ELSE UNCHANGED <<settled, requests, chosen>>
  /\ UNCHANGED <<tab, gate, typed, queued, what, mine, begun, input, working, by, output,
                 undone, excused, overlapped, misread>>

-----------------------------------------------------------------------------
(* Claude Code.                                                            *)

TakesInput ==
  /\ working = "none" /\ input # <<>>
  /\ working' = Head(input) /\ input' = Tail(input)
  /\ output' = Append(output, "init")
  /\ UNCHANGED <<tab, gate, settling, queued, callers, requests, by, history>>

(* A turn ends well, is stopped, or fails; a /model applies or is refused. *)
Ends ==
  /\ working # "none" /\ working' = "none"
  /\ \/ /\ working = "message"
        /\ \E lines \in {<<"result">>, <<"error", "result">>, <<"error", "failed">>} :
             output' = output \o lines
        /\ UNCHANGED by
     \/ working = "model" /\ output' = output \o <<"switched", "result">> /\ by' = "user"
     \/ working = "model" /\ output' = output \o <<"refused", "result">> /\ UNCHANGED by
  /\ UNCHANGED <<tab, gate, settling, queued, callers, input, requests, history>>

(* set_model: the check of the model passes, or it does not.               *)
Answers(r) ==
  /\ r \in requests
  /\ requests' = requests \ {r}
  /\ by' \in {by, IF r = "impose" THEN "impose" ELSE "user"}
  /\ undone' = (undone \/ (kind = "start" /\ ~excused /\ by = "user" /\ by' = "impose"))
  /\ UNCHANGED <<tab, gate, settling, queued, callers, input, working, output, chosen, excused,
                 overlapped, misread>>

-----------------------------------------------------------------------------
(* The stdout reader.                                                      *)

Reads(line) == output # <<>> /\ Head(output) = line /\ output' = Tail(output)

(* soft_impose_step, then input_started.                                   *)
ReadInit ==
  /\ Reads("init")
  /\ IF kind = "init" /\ ~settled
     THEN /\ settled' = TRUE
          /\ requests' \in {requests, requests \cup {"impose"}}
          /\ undone' = (undone \/ chosen)
     ELSE UNCHANGED <<settled, requests, undone>>
  /\ typed' = IF typed = "written" THEN "running" ELSE typed
  /\ UNCHANGED <<tab, gate, queued, callers, input, working, by, chosen, excused, overlapped, misread>>

(* refused_model_command: the first text of Claude Code's own, once an     *)
(* input has started.                                                      *)
ReadReply(line) ==
  /\ Reads(line)
  /\ typed' = IF typed = "running" THEN "none" ELSE typed
  /\ misread' = (misread \/ (typed = "running" /\ line = "error"))
  /\ UNCHANGED <<tab, gate, settled, queued, callers, input, working, requests, by, chosen, undone,
                 excused, overlapped>>

(* drain_queued_message: the queued text passes no gate.                   *)
ReadResult ==
  /\ Reads("result")
  /\ queued' = "none"
  /\ IF queued = "none" THEN UNCHANGED <<settling, input, chosen, overlapped>>
                        ELSE Writes(queued, output')
  /\ UNCHANGED <<tab, gate, callers, working, requests, by, undone, excused, misread>>

ReadFailure ==
  /\ Reads("failed")
  /\ UNCHANGED <<tab, gate, settling, queued, callers, input, working, requests, by, history>>

-----------------------------------------------------------------------------
Next ==
  \/ Replace \/ Start
  \/ \E s \in Sessions : Report(s)
  \/ \E c \in Commands, w \in Text : Ask(c, w) \/ Queue(c, w)
  \/ \E c \in Commands :
       \/ Ask(c, "pick") \/ Write(c) \/ Refused(c)
       \/ WaitAgain(c) \/ Take(c) \/ TakeLate(c) \/ Apply(c)
  \/ TakesInput \/ Ends
  \/ \E r \in Commands \cup {"impose"} : Answers(r)
  \/ ReadInit \/ ReadResult \/ ReadFailure
  \/ \E line \in {"error", "switched", "refused"} : ReadReply(line)

Spec == Init /\ [][Next]_vars

-----------------------------------------------------------------------------
(* Properties.                                                             *)

(* No input runs while the switch of the session's start is undecided,     *)
(* unless nobody answered it: no session is replaced under a waiting       *)
(* message so that it runs on the wrong model.                             *)
FirstTurnHeld == working # "none" /\ kind = "start" /\ "impose" \in requests => excused

(* A model the user chose first is not overridden by the session's own,    *)
(* and the switch of the session's start never races a pick, unless nobody *)
(* answered it or the pick has outwaited restarts.                         *)
PickStands == ~undone

(* The reply to a typed /model is its own; only an input that was under way*)
(* when it was written can be mistaken for it.                             *)
ReplyIsOfCommand == misread => overlapped

ModelAsChosen == FirstTurnHeld /\ PickStands /\ ReplyIsOfCommand
=============================================================================
