------------------------- MODULE ModelSwitchProofs -------------------------
(***************************************************************************)
(* Proofs about ModelSwitch, for any commands of the window and any number *)
(* of sessions: type correctness, and that the model is the chosen one.    *)
(*                                                                         *)
(* The inductive invariant says what a closed gate means: until the switch *)
(* of the session's start is decided Claude Code has had no input, and     *)
(* nobody has chosen a model, unless the wait was given up.                *)
(***************************************************************************)
EXTENDS ModelSwitch, TLAPS

(* The parts of TypeOK.                                                    *)
TabTypes ==
  /\ session \in Sessions /\ kind \in {"never", "start", "init"}
  /\ gate \in [Sessions -> {"open", "closed"}]
  /\ \A s \in Sessions : s > session => gate[s] = "open"

CallerTypes ==
  /\ pc \in [Commands -> {"none", "waits", "applies", "done"}]
  /\ what \in [Commands -> Text \cup {"pick"}]
  /\ mine \in [Commands -> Sessions] /\ begun \in [Commands -> Sessions]

SettleTypes == settled \in BOOLEAN /\ typed \in {"none", "written", "running"} /\ queued \in Text \cup {"none"}

PipeTypes == input \in Seq(Text) /\ output \in Seq(Line)

ClaudeTypes ==
  /\ working \in Text \cup {"none"} /\ by \in {"launch", "impose", "user"}
  /\ requests \in SUBSET (Commands \cup {"impose"})

FlagTypes ==
  /\ live \in BOOLEAN
  /\ chosen \in BOOLEAN /\ undone \in BOOLEAN /\ excused \in BOOLEAN
  /\ overlapped \in BOOLEAN /\ misread \in BOOLEAN

(* Who chose settles, and Claude Code runs a model of the user's only when *)
(* the user has chosen one.                                                *)
Settles == (by = "user" => chosen) /\ (chosen \/ requests # {} => settled)

LEMMA Types ==
  TypeOK <=> TabTypes /\ CallerTypes /\ SettleTypes /\ PipeTypes /\ ClaudeTypes /\ FlagTypes /\ Settles
  BY DEF TypeOK, TabTypes, CallerTypes, SettleTypes, PipeTypes, ClaudeTypes, FlagTypes, Settles

-----------------------------------------------------------------------------
(* What holds besides the types.                                           *)

(* Nothing has reached Claude Code, and nothing of it is unread.           *)
Quiet == input = <<>> /\ working = "none" /\ output = <<>>

(* A session without a process has been sent nothing.                      *)
Dormant == ~live => Quiet /\ requests = {} /\ ~chosen /\ gate[session] = "open"

(* Behind a closed gate nothing runs and nobody has chosen; the request of *)
(* the session's start is answered, or given up, only as the gate opens.   *)
GateHolds == gate[session] = "closed" => kind = "start" /\ Quiet /\ (chosen => excused)
ImposeGated == kind = "start" /\ "impose" \in requests /\ ~excused => gate[session] = "closed"

(* A pick that is being applied has passed the gate of a session that runs.*)
PicksGated ==
  \A c \in Commands :
    /\ mine[c] <= session
    /\ pc[c] = "applies" /\ mine[c] = session => live /\ (~excused => gate[session] = "open")

(* The user chose: a pick that is sent, a /model that is written.          *)
PickChose == \A c \in Commands : c \in requests => chosen
HasModel == \E i \in DOMAIN input : input[i] = "model"
ModelChose == working = "model" \/ HasModel => chosen

(* The first text of Claude Code's own that the reader will meet, after a  *)
(* /model that overlapped nothing, is the reply to it.                     *)
Comes ==
  /\ typed = "written" =>
       \/ working = "none" /\ output = <<>> /\ input # <<>> /\ input[1] = "model"
       \/ working = "model" /\ output = <<"init">>
       \/ Len(output) > 1 /\ output[1] = "init" /\ output[2] \in {"switched", "refused"}
  /\ typed = "running" =>
       \/ working = "model" /\ output = <<>>
       \/ output # <<>> /\ output[1] \in {"switched", "refused"}
ReplyComes == ~overlapped => Comes

Gated == Dormant /\ GateHolds /\ ImposeGated /\ PicksGated
Chose == PickChose /\ ModelChose
IInv == TypeOK /\ Gated /\ Chose /\ ReplyComes /\ PickStands /\ ReplyIsOfCommand

-----------------------------------------------------------------------------
(* Lines and inputs.                                                       *)

(* A pipe after a line or an input went in.                                *)
LEMMA Appended ==
  ASSUME NEW S, NEW s \in Seq(S), NEW x \in S
  PROVE  /\ Append(s, x) \in Seq(S) /\ Append(s, x) # <<>>
         /\ Len(Append(s, x)) = Len(s) + 1 /\ Append(s, x)[Len(s) + 1] = x
         /\ \A i \in 1..Len(s) : Append(s, x)[i] = s[i]
         /\ DOMAIN s = 1..Len(s) /\ DOMAIN Append(s, x) = 1..(Len(s) + 1) /\ Len(s) \in Nat
<1>1. /\ Append(s, x) \in Seq(S) /\ Len(Append(s, x)) = Len(s) + 1 /\ Len(s) \in Nat
      /\ DOMAIN s = 1..Len(s) /\ DOMAIN Append(s, x) = 1..(Len(s) + 1)
  OBVIOUS
<1>2. Append(s, x)[Len(s) + 1] = x /\ \A i \in 1..Len(s) : Append(s, x)[i] = s[i]
  OBVIOUS
<1>3. Append(s, x) # <<>>
  BY <1>1
<1> QED
  BY <1>1, <1>2, <1>3

(* A pipe before and after its first line or input is taken.               *)
LEMMA Taken ==
  ASSUME NEW S, NEW s \in Seq(S), s # <<>>
  PROVE  /\ Head(s) = s[1] /\ Head(s) \in S /\ Len(s) \in Nat \ {0}
         /\ Tail(s) \in Seq(S) /\ Len(Tail(s)) = Len(s) - 1
         /\ DOMAIN s = 1..Len(s) /\ DOMAIN Tail(s) = 1..(Len(s) - 1)
         /\ \A i \in 1..(Len(s) - 1) : Tail(s)[i] = s[i + 1]
  OBVIOUS

(* A pipe after two or three lines at once.                                *)
LEMMA Joined ==
  ASSUME NEW S, NEW s \in Seq(S), NEW t \in Seq(S), t # <<>>
  PROVE  /\ s \o t \in Seq(S) /\ s \o t # <<>> /\ Len(s \o t) = Len(s) + Len(t)
         /\ Len(s) \in Nat /\ Len(t) \in Nat \ {0}
         /\ \A i \in 1..Len(s) : (s \o t)[i] = s[i]
         /\ \A i \in 1..Len(t) : (s \o t)[Len(s) + i] = t[i]
<1>1. /\ Len(s) \in Nat /\ Len(t) \in Nat \ {0}
      /\ s \o t \in Seq(S) /\ Len(s \o t) = Len(s) + Len(t)
  OBVIOUS
<1>2. s \o t # <<>>
  BY <1>1
<1>3. \A i \in 1..Len(s) : (s \o t)[i] = s[i]
  BY <1>1
<1>4. \A i \in 1..Len(t) : (s \o t)[Len(s) + i] = t[i]
  BY <1>1
<1> QED
  BY <1>1, <1>2, <1>3, <1>4

(* What a text that is written leaves behind.                              *)
LEMMA Written ==
  ASSUME TypeOK, NEW text \in Text, NEW before, Writes(text, before)
  PROVE  /\ input' \in Seq(Text) /\ settled' \in BOOLEAN
         /\ typed' \in {"none", "written", "running"}
         /\ chosen' \in BOOLEAN /\ overlapped' \in BOOLEAN
         /\ settled => settled'
         /\ chosen' => chosen \/ (text = "model" /\ settled')
         /\ chosen => chosen'
<1>1. input' \in Seq(Text)
  BY Appended DEF TypeOK, Writes
<1>2. typed' \in {"none", "written", "running"}
  BY DEF TypeOK, Writes
<1>3. /\ settled' \in BOOLEAN /\ chosen' \in BOOLEAN /\ overlapped' \in BOOLEAN
      /\ settled => settled'
      /\ chosen' => chosen \/ (text = "model" /\ settled')
      /\ chosen => chosen'
  BY DEF TypeOK, Writes
<1> QED
  BY <1>1, <1>2, <1>3

-----------------------------------------------------------------------------
(* Types.                                                                  *)

LEMMA InitTypes == Init => TypeOK
<1> SUFFICES ASSUME Init PROVE TypeOK
  OBVIOUS
<1> USE DEF Init, Sessions, Text
<1>1. TabTypes
  <2>1. 0 \in Sessions /\ \A s \in Sessions : s > 0 => gate[s] = "open"
    BY SwitchAssumption
  <2> QED
    BY <2>1 DEF TabTypes
<1>2. CallerTypes
  <2>1. 0 \in Sessions
    BY SwitchAssumption
  <2>2. mine \in [Commands -> Sessions] /\ begun = mine
    BY <2>1
  <2> QED
    BY <2>2 DEF CallerTypes
<1>3. SettleTypes /\ ClaudeTypes /\ FlagTypes /\ Settles
  BY DEF SettleTypes, ClaudeTypes, FlagTypes, Settles
<1>4. PipeTypes
  BY DEF PipeTypes
<1> QED
  BY <1>1, <1>2, <1>3, <1>4, Types

LEMMA TabStep == ASSUME TypeOK, Next PROVE TabTypes'
<1> USE DEF TabTypes, tab
<1>0. TabTypes /\ MaxSessions \in Nat
  BY Types, SwitchAssumption
<1>1. CASE Replace
  <2>1. session' \in Sessions /\ \A s \in Sessions : s > session' => s > session
    BY <1>0, <1>1 DEF Replace, Sessions
  <2>2. gate' = gate /\ kind' = "never"
    BY <1>1 DEF Replace
  <2> QED
    BY <1>0, <2>1, <2>2
<1>2. CASE Start
  BY <1>0, <1>2 DEF Start, Sessions
<1>3. ASSUME NEW s \in Sessions, Report(s) PROVE TabTypes'
  BY <1>0, <1>3 DEF Report
<1>4. ASSUME NEW c \in Commands, NEW w \in Text \cup {"pick"}, Ask(c, w) \/ Queue(c, w) PROVE TabTypes'
  BY <1>0, <1>4 DEF Ask, Queue
<1>5. ASSUME NEW c \in Commands,
             Write(c) \/ Refused(c) \/ WaitAgain(c) \/ Take(c) \/ TakeLate(c) \/ Apply(c)
      PROVE  TabTypes'
  BY <1>0, <1>5 DEF Write, Refused, WaitAgain, Take, TakeLate, Takes, Apply
<1>6. CASE TakesInput \/ Ends \/ ReadInit \/ ReadResult \/ ReadFailure
  BY <1>0, <1>6 DEF TakesInput, Ends, ReadInit, ReadResult, ReadFailure
<1>7. ASSUME NEW r \in Commands \cup {"impose"}, Answers(r) PROVE TabTypes'
  BY <1>0, <1>7 DEF Answers
<1>8. ASSUME NEW line \in {"error", "switched", "refused"}, ReadReply(line) PROVE TabTypes'
  BY <1>0, <1>8 DEF ReadReply
<1> QED
  BY <1>1, <1>2, <1>3, <1>4, <1>5, <1>6, <1>7, <1>8 DEF Next

LEMMA CallerStep == ASSUME TypeOK, Next PROVE CallerTypes'
<1> USE DEF CallerTypes, callers, Goes
<1>0. CallerTypes /\ session \in Sessions
  BY Types DEF TabTypes
<1>1. CASE Replace \/ Start
  BY <1>0, <1>1 DEF Replace, Start
<1>3. ASSUME NEW s \in Sessions, Report(s) PROVE CallerTypes'
  BY <1>0, <1>3 DEF Report
<1>4. ASSUME NEW c \in Commands, NEW w \in Text \cup {"pick"}, Ask(c, w) \/ Queue(c, w) PROVE CallerTypes'
  BY <1>0, <1>4 DEF Ask, Queue
<1>5. ASSUME NEW c \in Commands,
             Write(c) \/ Refused(c) \/ WaitAgain(c) \/ Take(c) \/ TakeLate(c) \/ Apply(c)
      PROVE  CallerTypes'
  BY <1>0, <1>5 DEF Write, Refused, WaitAgain, Take, TakeLate, Takes, Apply
<1>6. CASE TakesInput \/ Ends \/ ReadInit \/ ReadResult \/ ReadFailure
  BY <1>0, <1>6 DEF TakesInput, Ends, ReadInit, ReadResult, ReadFailure
<1>7. ASSUME NEW r \in Commands \cup {"impose"}, Answers(r) PROVE CallerTypes'
  BY <1>0, <1>7 DEF Answers
<1>8. ASSUME NEW line \in {"error", "switched", "refused"}, ReadReply(line) PROVE CallerTypes'
  BY <1>0, <1>8 DEF ReadReply
<1> QED
  BY <1>1, <1>3, <1>4, <1>5, <1>6, <1>7, <1>8 DEF Next

LEMMA SettleStep == ASSUME TypeOK, Next PROVE SettleTypes'
<1> USE DEF SettleTypes, settling
<1>0. SettleTypes /\ queued \in Text \cup {"none"}
  BY Types
<1>1. CASE Replace \/ Start
  BY <1>0, <1>1 DEF Replace, Start
<1>3. ASSUME NEW s \in Sessions, Report(s) PROVE SettleTypes'
  BY <1>0, <1>3 DEF Report
<1>4. ASSUME NEW c \in Commands, NEW w \in Text \cup {"pick"}, Ask(c, w) PROVE SettleTypes'
  BY <1>0, <1>4 DEF Ask
<1>5. ASSUME NEW c \in Commands, NEW w \in Text, Queue(c, w) PROVE SettleTypes'
  BY <1>0, <1>5 DEF Queue
<1>6. ASSUME NEW c \in Commands, Write(c) PROVE SettleTypes'
  BY <1>0, <1>6, Written DEF Write
<1>7. ASSUME NEW c \in Commands, Refused(c) \/ WaitAgain(c) \/ Take(c) \/ TakeLate(c) PROVE SettleTypes'
  BY <1>0, <1>7 DEF Refused, WaitAgain, Take, TakeLate, Takes
<1>8. ASSUME NEW c \in Commands, Apply(c) PROVE SettleTypes'
  BY <1>0, <1>8 DEF Apply
<1>9. CASE TakesInput \/ Ends \/ ReadFailure
  BY <1>0, <1>9 DEF TakesInput, Ends, ReadFailure
<1>10. CASE ReadInit
  BY <1>0, <1>10 DEF ReadInit
<1>11. CASE ReadResult
  <2>1. (queued \in Text /\ Writes(queued, output')) \/ UNCHANGED settling
    BY <1>0, <1>11 DEF ReadResult
  <2> QED
    BY <1>0, <1>11, <2>1, Written DEF ReadResult
<1>12. ASSUME NEW r \in Commands \cup {"impose"}, Answers(r) PROVE SettleTypes'
  BY <1>0, <1>12 DEF Answers
<1>13. ASSUME NEW line \in {"error", "switched", "refused"}, ReadReply(line) PROVE SettleTypes'
  BY <1>0, <1>13 DEF ReadReply
<1> QED
  BY <1>1, <1>3, <1>4, <1>5, <1>6, <1>7, <1>8, <1>9, <1>10, <1>11, <1>12, <1>13 DEF Next

LEMMA PipeStep == ASSUME TypeOK, Next PROVE PipeTypes'
<1> USE DEF PipeTypes, claude
<1>0. /\ PipeTypes /\ queued \in Text \cup {"none"}
      /\ "init" \in Line /\ Len(<<>>) = 0
  BY Types DEF SettleTypes, Line
<1>1. CASE Replace
  BY <1>1 DEF Replace
<1>2. CASE Start
  BY <1>0, <1>2 DEF Start
<1>3. ASSUME NEW s \in Sessions, Report(s) PROVE PipeTypes'
  BY <1>0, <1>3 DEF Report
<1>4. ASSUME NEW c \in Commands, NEW w \in Text \cup {"pick"}, Ask(c, w) \/ Queue(c, w) PROVE PipeTypes'
  BY <1>0, <1>4 DEF Ask, Queue
<1>5. ASSUME NEW c \in Commands, Write(c) PROVE PipeTypes'
  BY <1>0, <1>5, Written DEF Write
<1>6. ASSUME NEW c \in Commands, Refused(c) \/ WaitAgain(c) \/ Take(c) \/ TakeLate(c) \/ Apply(c)
      PROVE  PipeTypes'
  BY <1>0, <1>6 DEF Refused, WaitAgain, Take, TakeLate, Takes, Apply
<1>7. CASE TakesInput
  BY <1>0, <1>7, Appended, Taken DEF TakesInput
<1>8. CASE Ends
  <2>1. PICK lines \in Seq(Line) : output' = output \o lines
    <3>1. /\ <<"result">> \in Seq(Line) /\ <<"error", "result">> \in Seq(Line)
          /\ <<"error", "failed">> \in Seq(Line) /\ <<"switched", "result">> \in Seq(Line)
          /\ <<"refused", "result">> \in Seq(Line)
      BY DEF Line
    <3> QED
      BY <1>8, <3>1 DEF Ends
  <2>2. output \o lines \in Seq(Line)
    BY <1>0
  <2> QED
    BY <1>0, <1>8, <2>1, <2>2 DEF Ends
<1>9. ASSUME NEW r \in Commands \cup {"impose"}, Answers(r) PROVE PipeTypes'
  BY <1>0, <1>9 DEF Answers
<1>10. CASE ReadInit \/ ReadFailure
  BY <1>0, <1>10, Taken DEF ReadInit, ReadFailure, Reads
<1>11. CASE ReadResult
  <2>1. (queued \in Text /\ Writes(queued, output')) \/ input' = input
    BY <1>0, <1>11 DEF ReadResult
  <2> QED
    BY <1>0, <1>11, <2>1, Written, Taken DEF ReadResult, Reads
<1>12. ASSUME NEW line \in {"error", "switched", "refused"}, ReadReply(line) PROVE PipeTypes'
  BY <1>0, <1>12, Taken DEF ReadReply, Reads
<1> QED
  BY <1>1, <1>2, <1>3, <1>4, <1>5, <1>6, <1>7, <1>8, <1>9, <1>10, <1>11, <1>12 DEF Next

LEMMA ClaudeStep == ASSUME TypeOK, Next PROVE ClaudeTypes'
<1> USE DEF ClaudeTypes, claude
<1>0. ClaudeTypes /\ PipeTypes
  BY Types
<1>1. CASE Replace \/ Start
  BY <1>0, <1>1 DEF Replace, Start
<1>2. ASSUME NEW s \in Sessions, Report(s) PROVE ClaudeTypes'
  BY <1>0, <1>2 DEF Report
<1>3. ASSUME NEW c \in Commands, NEW w \in Text \cup {"pick"}, Ask(c, w) \/ Queue(c, w) PROVE ClaudeTypes'
  BY <1>0, <1>3 DEF Ask, Queue
<1>4. ASSUME NEW c \in Commands,
             Write(c) \/ Refused(c) \/ WaitAgain(c) \/ Take(c) \/ TakeLate(c) \/ Apply(c)
      PROVE  ClaudeTypes'
  BY <1>0, <1>4 DEF Write, Refused, WaitAgain, Take, TakeLate, Takes, Apply
<1>5. CASE TakesInput
  BY <1>0, <1>5, Taken DEF TakesInput, PipeTypes
<1>6. CASE Ends
  BY <1>0, <1>6 DEF Ends
<1>7. ASSUME NEW r \in Commands \cup {"impose"}, Answers(r) PROVE ClaudeTypes'
  BY <1>0, <1>7 DEF Answers
<1>8. CASE ReadInit
  BY <1>0, <1>8 DEF ReadInit
<1>9. CASE ReadResult \/ ReadFailure
  BY <1>0, <1>9 DEF ReadResult, ReadFailure
<1>10. ASSUME NEW line \in {"error", "switched", "refused"}, ReadReply(line) PROVE ClaudeTypes'
  BY <1>0, <1>10 DEF ReadReply
<1> QED
  BY <1>1, <1>2, <1>3, <1>4, <1>5, <1>6, <1>7, <1>8, <1>9, <1>10 DEF Next

LEMMA FlagStep == ASSUME TypeOK, Next PROVE FlagTypes'
<1> USE DEF FlagTypes, history, tab
<1>0. FlagTypes /\ queued \in Text \cup {"none"}
  BY Types DEF SettleTypes
<1>1. CASE Replace \/ Start
  BY <1>0, <1>1 DEF Replace, Start
<1>2. ASSUME NEW s \in Sessions, Report(s) PROVE FlagTypes'
  BY <1>0, <1>2 DEF Report
<1>3. ASSUME NEW c \in Commands, NEW w \in Text \cup {"pick"}, Ask(c, w) \/ Queue(c, w) PROVE FlagTypes'
  BY <1>0, <1>3 DEF Ask, Queue
<1>4. ASSUME NEW c \in Commands, Write(c) PROVE FlagTypes'
  BY <1>0, <1>4, Written DEF Write
<1>5. ASSUME NEW c \in Commands, Refused(c) \/ WaitAgain(c) \/ Take(c) \/ TakeLate(c) \/ Apply(c)
      PROVE  FlagTypes'
  BY <1>0, <1>5 DEF Refused, WaitAgain, Take, TakeLate, Takes, Apply
<1>6. CASE TakesInput \/ Ends \/ ReadFailure
  BY <1>0, <1>6 DEF TakesInput, Ends, ReadFailure
<1>7. ASSUME NEW r \in Commands \cup {"impose"}, Answers(r) PROVE FlagTypes'
  BY <1>0, <1>7 DEF Answers
<1>8. CASE ReadInit
  BY <1>0, <1>8 DEF ReadInit
<1>9. CASE ReadResult
  <2>1. (queued \in Text /\ Writes(queued, output')) \/ UNCHANGED <<chosen, overlapped>>
    BY <1>0, <1>9 DEF ReadResult
  <2> QED
    BY <1>0, <1>9, <2>1, Written DEF ReadResult
<1>10. ASSUME NEW line \in {"error", "switched", "refused"}, ReadReply(line) PROVE FlagTypes'
  BY <1>0, <1>10 DEF ReadReply
<1> QED
  BY <1>1, <1>2, <1>3, <1>4, <1>5, <1>6, <1>7, <1>8, <1>9, <1>10 DEF Next

LEMMA SettlesStep == ASSUME TypeOK, Chose, Next PROVE Settles'
<1> USE DEF Settles, settling, history, claude
<1>0. /\ Settles /\ queued \in Text \cup {"none"} /\ requests \in SUBSET (Commands \cup {"impose"})
      /\ chosen \in BOOLEAN /\ settled \in BOOLEAN
  BY Types DEF SettleTypes, ClaudeTypes, FlagTypes
<1>1. CASE Replace
  BY <1>0, <1>1 DEF Replace
<1>2. CASE Start
  BY <1>0, <1>2 DEF Start
<1>3. ASSUME NEW s \in Sessions, Report(s) PROVE Settles'
  BY <1>0, <1>3 DEF Report
<1>4. ASSUME NEW c \in Commands, NEW w \in Text \cup {"pick"}, Ask(c, w) \/ Queue(c, w) PROVE Settles'
  BY <1>0, <1>4 DEF Ask, Queue
<1>5. ASSUME NEW c \in Commands, Write(c) PROVE Settles'
  BY <1>0, <1>5, Written DEF Write
<1>6. ASSUME NEW c \in Commands, Refused(c) \/ WaitAgain(c) \/ Take(c) \/ TakeLate(c)
      PROVE  Settles'
  BY <1>0, <1>6 DEF Refused, WaitAgain, Take, TakeLate, Takes
<1>7. ASSUME NEW c \in Commands, Apply(c) PROVE Settles'
  BY <1>0, <1>7 DEF Apply
<1>8. CASE TakesInput \/ ReadFailure
  BY <1>0, <1>8 DEF TakesInput, ReadFailure
<1>9. CASE Ends
  BY <1>0, <1>9 DEF Ends, Chose, ModelChose
<1>10. ASSUME NEW r \in Commands \cup {"impose"}, Answers(r) PROVE Settles'
  <2>1. r # "impose" => chosen
    BY <1>10 DEF Answers, Chose, PickChose
  <2>2. by' = "user" => chosen
    BY <1>0, <1>10, <2>1 DEF Answers
  <2> QED
    BY <1>0, <1>10, <2>2 DEF Answers
<1>11. CASE ReadInit
  BY <1>0, <1>11 DEF ReadInit
<1>12. CASE ReadResult
  <2>1. (queued \in Text /\ Writes(queued, output')) \/ UNCHANGED <<chosen, settling>>
    BY <1>0, <1>12 DEF ReadResult
  <2> QED
    BY <1>0, <1>12, <2>1, Written DEF ReadResult
<1>13. ASSUME NEW line \in {"error", "switched", "refused"}, ReadReply(line) PROVE Settles'
  BY <1>0, <1>13 DEF ReadReply
<1> QED
  BY <1>1, <1>2, <1>3, <1>4, <1>5, <1>6, <1>7, <1>8, <1>9, <1>10, <1>11, <1>12, <1>13 DEF Next
-----------------------------------------------------------------------------
(* The user's choice.                                                      *)

(* A pipe that grows by a text, or loses its first one.                    *)
LEMMA ModelWritten ==
  ASSUME TypeOK, ModelChose, NEW text \in Text, NEW before, Writes(text, before)
  PROVE  HasModel' => chosen'
<1>1. /\ DOMAIN input' = 1..(Len(input) + 1) /\ DOMAIN input = 1..Len(input) /\ Len(input) \in Nat
      /\ input'[Len(input) + 1] = text /\ \A i \in 1..Len(input) : input'[i] = input[i]
  BY Appended DEF TypeOK, Writes
<1>2. text = "model" => chosen'
  BY DEF Writes
<1>3. chosen => chosen'
  BY DEF Writes
<1>4. HasModel' => HasModel \/ text = "model"
  BY <1>1 DEF HasModel
<1> QED
  BY <1>2, <1>3, <1>4 DEF ModelChose

LEMMA ModelTaken ==
  ASSUME TypeOK, input # <<>>, input' = Tail(input)
  PROVE  (HasModel' => HasModel) /\ (Head(input) = "model" => HasModel)
<1>1. /\ Head(input) = input[1] /\ Len(input) \in Nat \ {0}
      /\ DOMAIN input = 1..Len(input) /\ DOMAIN input' = 1..(Len(input) - 1)
      /\ \A i \in 1..(Len(input) - 1) : input'[i] = input[i + 1]
  BY Taken DEF TypeOK
<1>2. \A i \in 1..(Len(input) - 1) : i + 1 \in 1..Len(input)
  BY <1>1
<1> QED
  BY <1>1, <1>2 DEF HasModel

LEMMA ChoseStep == ASSUME TypeOK, Chose, Next PROVE Chose'
<1> USE SwitchAssumption DEF Chose, PickChose
<1>0. /\ queued \in Text \cup {"none"} /\ chosen \in BOOLEAN
      /\ working = "model" => chosen
      /\ HasModel => chosen
  BY Types DEF SettleTypes, FlagTypes, ModelChose
<1>1. CASE Replace
  BY <1>1 DEF Replace, ModelChose, HasModel
<1>2. CASE Start
  BY <1>2 DEF Start, ModelChose, HasModel, history
<1>3. ASSUME NEW s \in Sessions, Report(s) PROVE Chose'
  BY <1>3 DEF Report, ModelChose, HasModel, claude
<1>4. ASSUME NEW c \in Commands, NEW w \in Text \cup {"pick"}, Ask(c, w) \/ Queue(c, w) PROVE Chose'
  BY <1>4 DEF Ask, Queue, ModelChose, HasModel, claude, history
<1>5. ASSUME NEW c \in Commands, Write(c) PROVE Chose'
  <2>1. (HasModel' => chosen') /\ (chosen => chosen')
    BY <1>5, ModelWritten, Written DEF Write
  <2> QED
    BY <1>0, <1>5, <2>1 DEF Write, ModelChose
<1>6. ASSUME NEW c \in Commands, Refused(c) \/ WaitAgain(c) \/ Take(c) \/ TakeLate(c)
      PROVE  Chose'
  BY <1>6 DEF Refused, WaitAgain, Take, TakeLate, Takes, ModelChose, HasModel, claude, history
<1>7. ASSUME NEW c \in Commands, Apply(c) PROVE Chose'
  BY <1>7 DEF Apply, ModelChose, HasModel
<1>8. CASE TakesInput
  <2>1. (HasModel' => HasModel) /\ (Head(input) = "model" => HasModel)
    BY <1>8, ModelTaken DEF TakesInput
  <2> QED
    BY <1>0, <1>8, <2>1 DEF TakesInput, ModelChose, history
<1>9. CASE Ends
  BY <1>9 DEF Ends, ModelChose, HasModel, history
<1>10. ASSUME NEW r \in Commands \cup {"impose"}, Answers(r) PROVE Chose'
  BY <1>10 DEF Answers, ModelChose, HasModel
<1>11. CASE ReadInit
  BY <1>11 DEF ReadInit, ModelChose, HasModel
<1>12. CASE ReadResult
  <2>1. CASE queued = "none"
    BY <1>12, <2>1 DEF ReadResult, ModelChose, HasModel
  <2>2. CASE queued # "none"
    <3>1. (HasModel' => chosen') /\ (chosen => chosen')
      BY <1>0, <1>12, <2>2, ModelWritten, Written DEF ReadResult
    <3> QED
      BY <1>0, <1>12, <3>1 DEF ReadResult, ModelChose
  <2> QED
    BY <2>1, <2>2
<1>13. CASE ReadFailure
  BY <1>13 DEF ReadFailure, ModelChose, HasModel, history
<1>14. ASSUME NEW line \in {"error", "switched", "refused"}, ReadReply(line) PROVE Chose'
  BY <1>14 DEF ReadReply, ModelChose, HasModel
<1> QED
  BY <1>1, <1>2, <1>3, <1>4, <1>5, <1>6, <1>7, <1>8, <1>9, <1>10, <1>11, <1>12, <1>13, <1>14 DEF Next

-----------------------------------------------------------------------------
(* The gate.                                                               *)

(* A text that is written, and a line that is read, are of a session with  *)
(* a process, and past its gate.                                           *)
LEMMA GatedStep == ASSUME TypeOK, Gated, Next PROVE Gated'
<1> USE DEF Gated, Quiet
<1>0. /\ session \in Nat /\ session' \in Nat
      /\ gate \in [Sessions -> {"open", "closed"}] /\ session \in Sessions
      /\ \A s \in Sessions : s > session => gate[s] = "open"
      /\ live \in BOOLEAN /\ excused \in BOOLEAN /\ chosen \in BOOLEAN
      /\ \A c \in Commands : mine[c] \in Nat
      /\ kind \in {"never", "start", "init"}
      /\ pc \in [Commands -> {"none", "waits", "applies", "done"}] /\ mine \in [Commands -> Sessions]
  BY Types, TabStep DEF TabTypes, FlagTypes, CallerTypes, Sessions
<1> USE DEF Dormant, GateHolds, ImposeGated, PicksGated
<1>1. CASE Replace
  <2>1. session' = session + 1 /\ session' \in Sessions /\ gate' = gate /\ UNCHANGED <<pc, mine>>
    BY <1>1, TabStep DEF Replace, TabTypes, callers
  <2>2. gate'[session'] = "open"
    BY <1>0, <2>1
  <2>3. \A c \in Commands : mine'[c] <= session' /\ mine'[c] # session'
    BY <1>0, <2>1
  <2> QED
    BY <1>1, <2>2, <2>3 DEF Replace
<1>2. CASE Start
  <2>1. \/ UNCHANGED <<gate, requests>>
        \/ kind' = "start" /\ requests' = {"impose"} /\ gate' = [gate EXCEPT ![session] = "closed"]
    BY <1>2 DEF Start
  <2> QED
    BY <1>0, <1>2, <2>1 DEF Start, callers, history
<1>3. ASSUME NEW s \in Sessions, Report(s) PROVE Gated'
  BY <1>0, <1>3 DEF Report, tab, callers, claude
<1>4. ASSUME NEW c \in Commands, NEW w \in Text \cup {"pick"}, Ask(c, w) PROVE Gated'
  BY <1>0, <1>4 DEF Ask, Goes, tab, claude, history
<1>5. ASSUME NEW c \in Commands, NEW w \in Text, Queue(c, w) PROVE Gated'
  BY <1>0, <1>5 DEF Queue, Goes, tab, claude, history
<1>6. ASSUME NEW c \in Commands, Write(c) PROVE Gated'
  BY <1>0, <1>6 DEF Write, Writes, Goes, tab
<1>7. ASSUME NEW c \in Commands, Refused(c) PROVE Gated'
  BY <1>0, <1>7 DEF Refused, Goes, tab, claude, history
<1>8. ASSUME NEW c \in Commands, WaitAgain(c) PROVE Gated'
  BY <1>0, <1>8 DEF WaitAgain, tab, claude, history
<1>9. ASSUME NEW c \in Commands, Take(c) PROVE Gated'
  BY <1>0, <1>9 DEF Take, Takes, Goes, tab, claude
<1>10. ASSUME NEW c \in Commands, TakeLate(c) PROVE Gated'
  BY <1>0, <1>10 DEF TakeLate, Takes, Goes, tab, claude
<1>11. ASSUME NEW c \in Commands, Apply(c) PROVE Gated'
  BY <1>0, <1>11, SwitchAssumption DEF Apply, Goes, tab
<1>12. CASE TakesInput
  BY <1>0, <1>12 DEF TakesInput, tab, callers, history
<1>13. CASE Ends
  BY <1>0, <1>13 DEF Ends, tab, callers, history
<1>14. ASSUME NEW r \in Commands \cup {"impose"}, Answers(r) PROVE Gated'
  BY <1>0, <1>14 DEF Answers, tab, callers
<1>15. CASE ReadInit
  BY <1>0, <1>15 DEF ReadInit, Reads, tab, callers
<1>16. CASE ReadResult
  BY <1>0, <1>16 DEF ReadResult, Reads, Writes, tab, callers
<1>17. CASE ReadFailure
  BY <1>0, <1>17 DEF ReadFailure, Reads, tab, callers, history
<1>18. ASSUME NEW line \in {"error", "switched", "refused"}, ReadReply(line) PROVE Gated'
  BY <1>0, <1>18 DEF ReadReply, Reads, tab, callers
<1> QED
  BY <1>1, <1>2, <1>3, <1>4, <1>5, <1>6, <1>7, <1>8, <1>9, <1>10, <1>11, <1>12, <1>13, <1>14,
     <1>15, <1>16, <1>17, <1>18 DEF Next

-----------------------------------------------------------------------------
(* The reply to a /model.                                                  *)

(* The first line of Claude Code's that waits tells what comes of a /model.*)
LEMMA FirstLine ==
  ASSUME TypeOK, Comes, NEW line, Reads(line)
  PROVE  /\ line = "init" => typed # "running"
         /\ line \in {"error", "switched", "refused"} => typed # "written"
         /\ line = "error" => typed = "none"
         /\ line \in {"result", "failed"} => typed = "none"
<1>1. output # <<>> /\ output[1] = line /\ typed \in {"none", "written", "running"}
  BY Taken DEF TypeOK, Reads
<1>2. typed = "written" => output[1] = "init"
  <2>1. output = <<"init">> => output[1] = "init"
    OBVIOUS
  <2> QED
    BY <1>1, <2>1 DEF Comes
<1>3. typed = "running" => output[1] \in {"switched", "refused"}
  BY <1>1 DEF Comes
<1> QED
  BY <1>1, <1>2, <1>3

(* A /model that overlaps nothing is the next input.                       *)
LEMMA CommandWritten ==
  ASSUME TypeOK, Writes("model", output'), working' = working
  PROVE  ReplyComes'
<1>1. typed' = "written" /\ input' = Append(input, "model")
  BY DEF Writes
<1>2. ~overlapped' => working = "none" /\ input = <<>> /\ output' = <<>>
  BY DEF Writes
<1>3. input = <<>> => input' # <<>> /\ input'[1] = "model"
  BY <1>1
<1> QED
  BY <1>1, <1>2, <1>3 DEF ReplyComes, Comes

(* A step that only adds to the pipes, and leaves a /model where it is.    *)
LEMMA ReplyKept ==
  ASSUME TypeOK, Comes, typed' = typed, working' = working,
         \/ input' = input
         \/ input # <<>> /\ input' # <<>> /\ input'[1] = input[1]
         \/ input = <<>>,
         output' = output
  PROVE  Comes'
  BY DEF Comes

LEMMA ReplyWritten ==
  ASSUME TypeOK, ReplyComes, NEW c \in Commands, Write(c)
  PROVE  ReplyComes'
<1>1. /\ Writes(what[c], output') /\ what[c] \in Text
      /\ working' = working /\ output' = output
  BY DEF Write
<1>2. CASE what[c] = "model"
  BY <1>1, <1>2, CommandWritten
<1>3. CASE what[c] = "message"
  <2>1. typed' = typed /\ input' = Append(input, "message") /\ overlapped' = overlapped
    BY <1>1, <1>3, Types DEF Writes, FlagTypes
  <2>2. input # <<>> => input' # <<>> /\ input'[1] = input[1]
    <3>1. input \in Seq(Text) /\ "message" \in Text
      BY DEF TypeOK, Text
    <3>2. input # <<>> => 1 \in 1..Len(input)
      BY <3>1
    <3> QED
      BY <2>1, <3>1, <3>2, Appended
  <2>3. ~overlapped' => Comes
    BY <2>1 DEF ReplyComes
  <2> QED
    BY <1>1, <2>1, <2>2, <2>3, ReplyKept DEF ReplyComes
<1> QED
  BY <1>1, <1>2, <1>3 DEF Text

(* The /model is taken, and runs.                                          *)
LEMMA ReplyTaken ==
  ASSUME TypeOK, Comes, TakesInput
  PROVE  Comes'
<1>1. /\ working = "none" /\ input # <<>> /\ working' = Head(input) /\ output' = Append(output, "init")
      /\ typed' = typed /\ output \in Seq(Line) /\ input \in Seq(Text) /\ "init" \in Line
  BY DEF TakesInput, settling, TypeOK, Line
<1>2. /\ Len(output') = Len(output) + 1 /\ Len(output) \in Nat /\ output' # <<>>
      /\ \A i \in 1..Len(output) : output'[i] = output[i]
  BY <1>1, Appended
<1>3. working' = input[1]
  BY <1>1, Taken
<1>4. output = <<>> => output' = <<"init">>
  BY <1>1
<1>5. output # <<>> => 1 \in 1..Len(output)
  BY <1>1
<1>6. Len(output) > 1 => Len(output') > 1 /\ output'[1] = output[1] /\ output'[2] = output[2]
  BY <1>2
<1> QED
  BY <1>1, <1>2, <1>3, <1>4, <1>5, <1>6 DEF Comes

(* ... and its end is the reply.                                           *)
LEMMA ReplyGiven ==
  ASSUME TypeOK, Comes, Ends
  PROVE  Comes'
<1>1. /\ working # "none" /\ working' = "none" /\ typed' = typed
      /\ output \in Seq(Line)
  BY DEF Ends, settling, TypeOK
<1>2. PICK lines \in Seq(Line) :
        /\ lines # <<>> /\ output' = output \o lines
        /\ working = "model" => lines[1] \in {"switched", "refused"}
  <2>1. /\ <<"result">> \in Seq(Line) /\ <<"error", "result">> \in Seq(Line)
        /\ <<"error", "failed">> \in Seq(Line) /\ <<"switched", "result">> \in Seq(Line)
        /\ <<"refused", "result">> \in Seq(Line)
    BY DEF Line
  <2>2. CASE working = "message"
    BY <2>1, <2>2 DEF Ends
  <2>3. CASE working = "model"
    <3>1. \/ output' = output \o <<"switched", "result">>
          \/ output' = output \o <<"refused", "result">>
      BY <2>3 DEF Ends
    <3> QED
      BY <2>1, <3>1
  <2> QED
    BY <2>2, <2>3 DEF Ends
<1>3. /\ output' # <<>> /\ Len(output') = Len(output) + Len(lines)
      /\ Len(output) \in Nat /\ Len(lines) \in Nat \ {0}
      /\ \A i \in 1..Len(output) : output'[i] = output[i]
      /\ \A i \in 1..Len(lines) : output'[Len(output) + i] = lines[i]
  BY <1>1, <1>2, Joined
<1>4. output'[Len(output) + 1] = lines[1]
  BY <1>3
<1>5. output # <<>> => output'[1] = output[1]
  <2>1. output # <<>> => 1 \in 1..Len(output)
    BY <1>1
  <2> QED
    BY <1>3, <2>1
<1>6. Len(output) > 1 => Len(output') > 1 /\ output'[2] = output[2] /\ output # <<>>
  BY <1>3
<1>7. output = <<>> => output'[1] = lines[1]
  BY <1>4
<1>8. output = <<"init">> =>
        Len(output') > 1 /\ output'[1] = "init" /\ output'[2] = lines[1]
  <2>1. output = <<"init">> => Len(output) = 1 /\ output[1] = "init" /\ output # <<>>
    OBVIOUS
  <2> QED
    BY <1>3, <1>4, <1>5, <2>1
<1>9. CASE typed = "written"
  BY <1>1, <1>2, <1>5, <1>6, <1>8, <1>9 DEF Comes
<1>10. CASE typed = "running"
  BY <1>1, <1>2, <1>3, <1>5, <1>7, <1>10 DEF Comes
<1> QED
  BY <1>1, <1>9, <1>10 DEF Comes

(* The reader learns that the /model runs.                                 *)
LEMMA ReplyNext ==
  ASSUME TypeOK, Comes, ReadInit
  PROVE  Comes'
<1>1. /\ Reads("init") /\ working' = working /\ output \in Seq(Line) /\ output' = Tail(output)
      /\ typed' = IF typed = "written" THEN "running" ELSE typed
      /\ output # <<>>
  BY DEF ReadInit, TypeOK, Reads
<1>2. typed # "running"
  BY <1>1, FirstLine
<1>3. CASE typed = "written"
  <2>1. typed' = "running"
    BY <1>1, <1>3
  <2>2. output = <<"init">> => output' = <<>>
    BY <1>1
  <2>3. Len(output) > 1 => output' # <<>> /\ output'[1] = output[2]
    BY <1>1
  <2> QED
    BY <1>1, <1>3, <2>1, <2>2, <2>3 DEF Comes
<1>4. CASE typed = "none"
  BY <1>1, <1>4 DEF Comes
<1> QED
  BY <1>2, <1>3, <1>4 DEF TypeOK

LEMMA ReplyStep == ASSUME TypeOK, ReplyComes, Next PROVE ReplyComes'
<1> USE DEF ReplyComes
<1>1. CASE Replace
  BY <1>1 DEF Replace, Comes
<1>2. CASE Start
  BY <1>2 DEF Start, history, Comes
<1>3. ASSUME NEW s \in Sessions, Report(s) PROVE ReplyComes'
  BY <1>3 DEF Report, settling, claude, Comes
<1>4. ASSUME NEW c \in Commands, NEW w \in Text \cup {"pick"}, Ask(c, w) \/ Queue(c, w) PROVE ReplyComes'
  BY <1>4 DEF Ask, Queue, settling, claude, history, Comes
<1>5. ASSUME NEW c \in Commands, Write(c) PROVE ReplyComes'
  BY <1>5, ReplyWritten
<1>6. ASSUME NEW c \in Commands, Refused(c) \/ WaitAgain(c) \/ Take(c) \/ TakeLate(c) \/ Apply(c)
      PROVE  ReplyComes'
  BY <1>6 DEF Refused, WaitAgain, Take, TakeLate, Takes, Apply, settling, claude, history, Comes
<1>7. CASE TakesInput
  BY <1>7, ReplyTaken DEF TakesInput, history
<1>8. CASE Ends
  BY <1>8, ReplyGiven DEF Ends, history
<1>9. ASSUME NEW r \in Commands \cup {"impose"}, Answers(r) PROVE ReplyComes'
  BY <1>9 DEF Answers, settling, Comes
<1>10. CASE ReadInit
  BY <1>10, ReplyNext DEF ReadInit
<1>11. CASE ReadResult
  <2>1. CASE queued = "model"
    <3>1. Writes("model", output') /\ working' = working
      BY <1>11, <2>1 DEF ReadResult
    <3> QED
      BY <3>1, CommandWritten
  <2>2. CASE queued # "model"
    <3>1. typed' = typed /\ (~overlapped' => ~overlapped)
      BY <1>11, <2>2 DEF ReadResult, Writes, settling
    <3>2. ~overlapped => typed = "none"
      BY <1>11, FirstLine DEF ReadResult
    <3> QED
      BY <3>1, <3>2 DEF Comes
  <2> QED
    BY <2>1, <2>2
<1>12. CASE ReadFailure
  <2>1. ~overlapped => typed = "none"
    BY <1>12, FirstLine DEF ReadFailure
  <2> QED
    BY <1>12, <2>1 DEF ReadFailure, settling, history, Comes
<1>13. ASSUME NEW line \in {"error", "switched", "refused"}, ReadReply(line) PROVE ReplyComes'
  <2>1. Reads(line)
    BY <1>13 DEF ReadReply
  <2>2. ~overlapped => typed # "written"
    BY <2>1, FirstLine
  <2>3. ~overlapped => typed' = "none"
    BY <1>13, <2>2 DEF ReadReply, TypeOK
  <2> QED
    BY <1>13, <2>3 DEF ReadReply, Comes
<1> QED
  BY <1>1, <1>2, <1>3, <1>4, <1>5, <1>6, <1>7, <1>8, <1>9, <1>10, <1>11, <1>12, <1>13 DEF Next

(* An error is not taken for the reply to a /model that overlapped nothing.*)
LEMMA MisreadStep == ASSUME TypeOK, ReplyComes, ReplyIsOfCommand, Next PROVE ReplyIsOfCommand'
<1> USE DEF ReplyIsOfCommand
<1>0. overlapped \in BOOLEAN /\ misread \in BOOLEAN
  BY DEF TypeOK
<1>1. CASE Replace \/ Start
  BY <1>1 DEF Replace, Start, history
<1>2. ASSUME NEW s \in Sessions, Report(s) PROVE ReplyIsOfCommand'
  BY <1>2 DEF Report
<1>3. ASSUME NEW c \in Commands, NEW w \in Text \cup {"pick"}, Ask(c, w) \/ Queue(c, w)
      PROVE  ReplyIsOfCommand'
  BY <1>3 DEF Ask, Queue, history
<1>4. ASSUME NEW c \in Commands, Write(c) PROVE ReplyIsOfCommand'
  BY <1>0, <1>4 DEF Write, Writes
<1>5. ASSUME NEW c \in Commands, Refused(c) \/ WaitAgain(c) \/ Take(c) \/ TakeLate(c) \/ Apply(c)
      PROVE  ReplyIsOfCommand'
  BY <1>5 DEF Refused, WaitAgain, Take, TakeLate, Takes, Apply, history
<1>6. CASE TakesInput \/ Ends \/ ReadFailure
  BY <1>6 DEF TakesInput, Ends, ReadFailure, history
<1>7. ASSUME NEW r \in Commands \cup {"impose"}, Answers(r) PROVE ReplyIsOfCommand'
  BY <1>7 DEF Answers
<1>8. CASE ReadInit
  BY <1>8 DEF ReadInit
<1>9. CASE ReadResult
  BY <1>0, <1>9 DEF ReadResult, Writes
<1>10. ASSUME NEW line \in {"error", "switched", "refused"}, ReadReply(line) PROVE ReplyIsOfCommand'
  <2>1. ~overlapped /\ line = "error" => typed # "running"
    BY <1>10, FirstLine DEF ReadReply, ReplyComes
  <2> QED
    BY <1>0, <1>10, <2>1 DEF ReadReply
<1> QED
  BY <1>1, <1>2, <1>3, <1>4, <1>5, <1>6, <1>7, <1>8, <1>9, <1>10 DEF Next

-----------------------------------------------------------------------------
(* The model that runs.                                                    *)

(* The session's own model does not come after one the user chose.         *)
LEMMA StandsStep == ASSUME TypeOK, Gated, PickStands, Next PROVE PickStands'
<1> USE DEF PickStands
<1>0. /\ Settles /\ gate \in [Sessions -> {"open", "closed"}] /\ session \in Sessions
      /\ undone \in BOOLEAN /\ excused \in BOOLEAN /\ chosen \in BOOLEAN
      /\ settled \in BOOLEAN
  BY Types DEF TabTypes, FlagTypes, SettleTypes
<1>1. CASE Replace \/ Start
  BY <1>1 DEF Replace, Start, history
<1>2. ASSUME NEW s \in Sessions, Report(s) PROVE PickStands'
  BY <1>2 DEF Report
<1>3. ASSUME NEW c \in Commands, NEW w \in Text \cup {"pick"}, Ask(c, w) \/ Queue(c, w)
      PROVE  PickStands'
  BY <1>3 DEF Ask, Queue, history
<1>4. ASSUME NEW c \in Commands,
             Write(c) \/ Refused(c) \/ WaitAgain(c) \/ Take(c) \/ TakeLate(c) \/ Apply(c)
      PROVE  PickStands'
  BY <1>4 DEF Write, Refused, WaitAgain, Take, TakeLate, Takes, Apply, history
<1>5. CASE TakesInput \/ Ends \/ ReadFailure
  BY <1>5 DEF TakesInput, Ends, ReadFailure, history
<1>6. ASSUME NEW r \in Commands \cup {"impose"}, Answers(r) PROVE PickStands'
  <2>1. SUFFICES ASSUME kind = "start", ~excused, by = "user", by' = "impose" PROVE FALSE
    BY <1>0, <1>6 DEF Answers
  <2>2. r = "impose"
    BY <1>6, <2>1 DEF Answers
  <2>3. gate[session] = "closed"
    BY <1>6, <2>1, <2>2 DEF Answers, Gated, ImposeGated
  <2>4. ~chosen
    BY <2>1, <2>3 DEF Gated, GateHolds
  <2> QED
    BY <1>0, <2>1, <2>4 DEF Settles
<1>7. CASE ReadInit
  <2>1. ~settled => ~chosen
    BY <1>0 DEF Settles
  <2> QED
    BY <1>0, <1>7, <2>1 DEF ReadInit
<1>8. CASE ReadResult
  BY <1>8 DEF ReadResult
<1>9. ASSUME NEW line \in {"error", "switched", "refused"}, ReadReply(line) PROVE PickStands'
  BY <1>9 DEF ReadReply
<1> QED
  BY <1>1, <1>2, <1>3, <1>4, <1>5, <1>6, <1>7, <1>8, <1>9 DEF Next

(* A request that is not answered keeps the gate closed, and behind it     *)
(* nothing runs.                                                           *)
LEMMA Held == TypeOK /\ Gated => FirstTurnHeld
  BY DEF Gated, ImposeGated, GateHolds, Quiet, FirstTurnHeld

LEMMA InitInvariant == Init => IInv
<1> SUFFICES ASSUME Init PROVE IInv
  OBVIOUS
<1>1. TypeOK
  BY InitTypes
<1>2. Gated
  <2>1. 0 \in Sessions
    BY SwitchAssumption DEF Sessions
  <2> QED
    BY <2>1 DEF Init, Gated, Dormant, GateHolds, ImposeGated, PicksGated, Quiet
<1>3. Chose
  BY DEF Init, Chose, PickChose, ModelChose, HasModel
<1>4. ReplyComes /\ PickStands /\ ReplyIsOfCommand
  BY DEF Init, ReplyComes, Comes, PickStands, ReplyIsOfCommand
<1> QED
  BY <1>1, <1>2, <1>3, <1>4 DEF IInv

LEMMA Invariant == Spec => []IInv
<1>1. IInv /\ [Next]_vars => IInv'
  <2> SUFFICES ASSUME IInv, [Next]_vars PROVE IInv'
    OBVIOUS
  <2>1. CASE Next
    <3>1. TypeOK'
      <4>1. (TabTypes /\ CallerTypes /\ SettleTypes /\ PipeTypes /\ ClaudeTypes /\ FlagTypes /\ Settles)'
        BY <2>1, TabStep, CallerStep, SettleStep, PipeStep, ClaudeStep, FlagStep, SettlesStep DEF IInv
      <4>2. (TypeOK <=> TabTypes /\ CallerTypes /\ SettleTypes /\ PipeTypes /\ ClaudeTypes
                          /\ FlagTypes /\ Settles)'
        BY Types, PTL
      <4> QED
        BY <4>1, <4>2
    <3>2. (Gated /\ Chose /\ ReplyComes)'
      BY <2>1, GatedStep, ChoseStep, ReplyStep DEF IInv
    <3>3. PickStands'
      BY <2>1, StandsStep DEF IInv
    <3>4. ReplyIsOfCommand'
      BY <2>1, MisreadStep DEF IInv
    <3> QED
      BY <3>1, <3>2, <3>3, <3>4 DEF IInv
  <2>2. CASE UNCHANGED vars
    BY <2>2 DEF vars, IInv, TypeOK, Gated, Dormant, GateHolds, ImposeGated, PicksGated, Quiet,
                Chose, PickChose, ModelChose, HasModel, ReplyComes, Comes, PickStands, ReplyIsOfCommand
  <2> QED
    BY <2>1, <2>2
<1> QED
  BY <1>1, InitInvariant, PTL DEF Spec

(* Every variable keeps its type, a gate belongs to a session that was     *)
(* started, and whoever chooses a model settles it first.                  *)
THEOREM TypeCorrect == Spec => []TypeOK
<1>1. IInv => TypeOK
  BY DEF IInv
<1> QED
  BY <1>1, Invariant, PTL

(* The model a session runs on is the chosen one, for any commands and any *)
(* number of sessions: no first turn runs while the switch of the session's*)
(* start is undecided, that switch never comes after the user's, and the   *)
(* reply that is reported for a /model is its own (soft_impose_step,       *)
(* FirstTurnGate, refused_model_command).                                  *)
THEOREM ModelIsChosen == Spec => []ModelAsChosen
<1>1. IInv => ModelAsChosen
  BY Held DEF IInv, ModelAsChosen
<1> QED
  BY <1>1, Invariant, PTL
=============================================================================
