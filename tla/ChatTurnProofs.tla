--------------------------- MODULE ChatTurnProofs ---------------------------
(***************************************************************************)
(* Proofs about ChatTurn for any set of messages and any number of         *)
(* questions, with and without failures; about KeepAwake, whose workers    *)
(* the chat turns are; and about the two together.                         *)
(*                                                                         *)
(* Beside the type, the inductive invariant of ChatTurn says where a       *)
(* send_message command has its message, that no write is under way in a   *)
(* stopped session, and that the question Claude Code waits on is either   *)
(* registered or still on its way to the reader. A second one, at the end, *)
(* says who still owes the window the end of the turn it shows.            *)
(***************************************************************************)
EXTENDS ChatTurn, KeepAwake, FiniteSetTheorems, TLAPS

(* The parts of the type.                                                  *)
PipeTypes == events \in Seq(Chunk) /\ input \in Seq(Message) /\ output \in Seq(Line)

FlagTypes ==
  /\ streaming \in BOOLEAN /\ asking \in BOOLEAN /\ current \in BOOLEAN
  /\ interrupting \in BOOLEAN /\ interrupted \in BOOLEAN
  /\ awaited \in BOOLEAN /\ hold \in BOOLEAN /\ stopping \in BOOLEAN

PlaceTypes ==
  /\ unsent \in SUBSET Message
  /\ shown \in Message \cup {None}
  /\ sent \in Message \cup {None} /\ queueing \in Message \cup {None}
  /\ slot \in Message \cup {None} /\ taken \in Message \cup {None}

StateTypes ==
  /\ sending \in {"no", "called", "written"}
  /\ reader \in {"reads", "asked", "turned", "drains", "drained", "ends", "ended"}
  /\ turn \in {"idle", "working", "asking", "gone"}
  /\ (reader = "drains") <=> (taken # None)

AskTypes == pending \in SUBSET Question /\ asks \in 0..MaxAsks

(* A send_message command that is called has a message, and only then.     *)
SentWhenCalled == sending = "called" <=> sent # None

HasAsk == \E i \in DOMAIN output : output[i] = "ask"

(* A line about a question comes after the question.                       *)
Numbered == HasAsk => asks # 0

(* The question Claude Code waits on is registered, or its line is unread. *)
AskKnown == turn = "asking" /\ ~stopping => asks \in pending \/ HasAsk

(* A stopped session has no write under way, and keeps no hold once its    *)
(* reader is at the end of the stream.                                     *)
NoneWritten == sending = "written" => ~stopping
AsleepAtEnd == stopping /\ reader \in {"ends", "ended"} => ~hold

(* OnePlace, place by place.                                               *)
InInput(m) == \E i \in DOMAIN input : input[i] = m
Apart(m) ==
  /\ m \in unsent => sent # m /\ queueing # m /\ slot # m /\ taken # m /\ ~InInput(m)
  /\ sent = m => queueing # m /\ slot # m /\ taken # m /\ ~InInput(m)
  /\ queueing = m => slot # m /\ taken # m /\ ~InInput(m)
  /\ slot = m => taken # m /\ ~InInput(m)
  /\ taken = m => ~InInput(m)

IInv ==
  /\ TypeOK /\ SentWhenCalled /\ Numbered /\ AskKnown /\ NoneWritten /\ AsleepAtEnd
  /\ \A m \in Message : Apart(m)

-----------------------------------------------------------------------------
LEMMA Types == TypeOK <=> PipeTypes /\ FlagTypes /\ PlaceTypes /\ StateTypes /\ AskTypes
  BY DEF TypeOK, PipeTypes, FlagTypes, PlaceTypes, StateTypes, AskTypes

LEMMA PlacesApart == OnePlace <=> \A m \in Message : Apart(m)
  BY DEF OnePlace, Places, Apart, InInput

(* What a pipe holds after a line or a message went in, or one was read.   *)
LEMMA Appended ==
  ASSUME NEW S, NEW s \in Seq(S), NEW x \in S
  PROVE  /\ Append(s, x) \in Seq(S)
         /\ \A y : (\E i \in DOMAIN Append(s, x) : Append(s, x)[i] = y)
                     <=> (y = x \/ \E i \in DOMAIN s : s[i] = y)
<1>1. /\ Append(s, x) \in Seq(S) /\ Len(Append(s, x)) = Len(s) + 1
      /\ \A i \in 1..Len(s) : Append(s, x)[i] = s[i]
      /\ Append(s, x)[Len(s) + 1] = x
      /\ DOMAIN s = 1..Len(s) /\ DOMAIN Append(s, x) = 1..(Len(s) + 1) /\ Len(s) \in Nat
  OBVIOUS
<1> QED
  BY <1>1

LEMMA Read ==
  ASSUME NEW S, NEW s \in Seq(S), s # <<>>
  PROVE  /\ Tail(s) \in Seq(S) /\ Head(s) \in S
         /\ \A y : (\E i \in DOMAIN s : s[i] = y)
                     <=> (y = Head(s) \/ \E i \in DOMAIN Tail(s) : Tail(s)[i] = y)
<1>1. /\ Tail(s) \in Seq(S) /\ Len(Tail(s)) = Len(s) - 1 /\ Len(s) \in Nat \ {0}
      /\ DOMAIN s = 1..Len(s) /\ DOMAIN Tail(s) = 1..(Len(s) - 1)
      /\ Head(s) = s[1] /\ Head(s) \in S
  OBVIOUS
<1>2. \A i \in 1..(Len(s) - 1) : Tail(s)[i] = s[i + 1]
  OBVIOUS
<1>3. \A i \in 1..Len(s) : i = 1 \/ (i - 1 \in 1..(Len(s) - 1) /\ Tail(s)[i - 1] = s[i])
  BY <1>1, <1>2
<1>4. \A i \in 1..(Len(s) - 1) : i + 1 \in 1..Len(s)
  BY <1>1
<1>5. ASSUME NEW y, NEW i \in DOMAIN s, s[i] = y
      PROVE  y = Head(s) \/ \E k \in DOMAIN Tail(s) : Tail(s)[k] = y
  BY <1>1, <1>3, <1>5
<1>6. ASSUME NEW y, NEW i \in DOMAIN Tail(s), Tail(s)[i] = y
      PROVE  \E k \in DOMAIN s : s[k] = y
  BY <1>1, <1>2, <1>4, <1>6
<1>7. \E k \in DOMAIN s : s[k] = Head(s)
  BY <1>1
<1> QED
  BY <1>1, <1>5, <1>6, <1>7

-----------------------------------------------------------------------------
LEMMA InitInvariant == Init => IInv
<1> SUFFICES ASSUME Init PROVE IInv
  OBVIOUS
<1>1. PipeTypes
  <2>1. events = <<>> /\ input = <<>> /\ output = <<>>
    BY DEF Init
  <2> QED
    BY <2>1 DEF PipeTypes
<1>2. FlagTypes
  BY DEF Init, FlagTypes
<1>3. PlaceTypes /\ StateTypes
  BY DEF Init, PlaceTypes, StateTypes
<1>4. AskTypes
  BY ChatTurnAssumption DEF Init, AskTypes
<1>5. TypeOK
  BY <1>1, <1>2, <1>3, <1>4, Types
<1>6. /\ SentWhenCalled /\ AskKnown /\ NoneWritten /\ AsleepAtEnd
      /\ DOMAIN output = {} /\ DOMAIN input = {}
  BY DEF Init, SentWhenCalled, AskKnown, NoneWritten, AsleepAtEnd
<1>7. Numbered
  BY <1>6 DEF Numbered, HasAsk
<1>8. \A m \in Message : Apart(m)
  BY <1>6, ChatTurnAssumption DEF Init, Apart, InInput
<1> QED
  BY <1>5, <1>6, <1>7, <1>8 DEF IInv

-----------------------------------------------------------------------------
(* Each part of the type is kept by each step.                             *)

LEMMA FlagStep == ASSUME TypeOK, Next PROVE FlagTypes'
<1> FlagTypes
  BY Types
<1> USE DEF FlagTypes, store, commands, session, claude
<1>1. CASE User
  BY <1>1 DEF User, Send, Queue, Cancel, Stop, Answer
<1>2. CASE StreamChunk
  BY <1>2 DEF StreamChunk
<1>3. CASE Command
  BY <1>3 DEF Command, Write, WriteFails, Written, Queued, Interrupt
<1>4. CASE StopSession
  BY <1>4 DEF StopSession
<1>5. CASE Reader
  BY <1>5 DEF Reader, ReadText, ReadAsk, Asked, ReadTurnEnd, DrainTake, DrainWrite, Drained,
              ReadEnd, End
<1>6. CASE Works \/ Say \/ Ask \/ Die
  BY <1>6 DEF Works, Begin, EndTurn, Ignore, Say, Ask, Die
<1> QED
  BY <1>1, <1>2, <1>3, <1>4, <1>5, <1>6 DEF Next

LEMMA PlaceStep == ASSUME TypeOK, Next PROVE PlaceTypes'
<1> PlaceTypes
  BY Types
<1> USE DEF PlaceTypes, store, commands, session, claude
<1>1. CASE User
  BY <1>1 DEF User, Send, Queue, Cancel, Stop, Answer
<1>2. CASE StreamChunk
  BY <1>2 DEF StreamChunk
<1>3. CASE Command
  BY <1>3 DEF Command, Write, WriteFails, Written, Queued, Interrupt
<1>4. CASE StopSession
  BY <1>4 DEF StopSession
<1>5. CASE Reader
  BY <1>5 DEF Reader, ReadText, ReadAsk, Asked, ReadTurnEnd, DrainTake, DrainWrite, Drained,
              ReadEnd, End
<1>6. CASE Works \/ Say \/ Ask \/ Die
  BY <1>6 DEF Works, Begin, EndTurn, Ignore, Say, Ask, Die
<1> QED
  BY <1>1, <1>2, <1>3, <1>4, <1>5, <1>6 DEF Next

LEMMA StateStep == ASSUME TypeOK, Next PROVE StateTypes'
<1> StateTypes
  BY Types
<1> USE DEF StateTypes, store, commands, session, claude
<1>1. CASE User
  BY <1>1 DEF User, Send, Queue, Cancel, Stop, Answer
<1>2. CASE StreamChunk
  BY <1>2 DEF StreamChunk
<1>3. CASE Command
  BY <1>3 DEF Command, Write, WriteFails, Written, Queued, Interrupt
<1>4. CASE StopSession
  BY <1>4 DEF StopSession
<1>5. CASE Reader
  BY <1>5 DEF Reader, ReadText, ReadAsk, Asked, ReadTurnEnd, DrainTake, DrainWrite, Drained,
              ReadEnd, End
<1>6. CASE Works \/ Say \/ Ask \/ Die
  BY <1>6 DEF Works, Begin, EndTurn, Ignore, Say, Ask, Die
<1> QED
  BY <1>1, <1>2, <1>3, <1>4, <1>5, <1>6 DEF Next

LEMMA AskStep == ASSUME TypeOK, Numbered, Next PROVE AskTypes'
<1> AskTypes /\ output \in Seq(Line) /\ MaxAsks \in Nat
  BY Types, ChatTurnAssumption DEF PipeTypes
<1> USE DEF AskTypes, Question, store, commands, session, claude
<1>1. CASE User
  BY <1>1 DEF User, Send, Queue, Cancel, Stop, Answer
<1>2. CASE StreamChunk
  BY <1>2 DEF StreamChunk
<1>3. CASE Command
  BY <1>3 DEF Command, Write, WriteFails, Written, Queued, Interrupt
<1>4. CASE StopSession
  BY <1>4 DEF StopSession
<1>5. CASE ReadAsk
  <2>1. HasAsk
    BY <1>5, Read DEF ReadAsk, HasAsk
  <2> QED
    BY <1>5, <2>1 DEF ReadAsk, Numbered
<1>6. CASE Reader /\ ~ReadAsk
  BY <1>6 DEF Reader, ReadText, Asked, ReadTurnEnd, DrainTake, DrainWrite, Drained, ReadEnd, End
<1>7. CASE Ask
  BY <1>7 DEF Ask
<1>8. CASE Works \/ Say \/ Die
  BY <1>8 DEF Works, Begin, EndTurn, Ignore, Say, Die
<1> QED
  BY <1>1, <1>2, <1>3, <1>4, <1>5, <1>6, <1>7, <1>8 DEF Next

LEMMA EventStep == ASSUME TypeOK, Next PROVE events' \in Seq(Chunk)
<1>1. /\ events \in Seq(Chunk) /\ output \in Seq(Line) /\ taken \in Message \cup {None}
      /\ (reader = "drains") <=> (taken # None)
  BY Types DEF PipeTypes, PlaceTypes, StateTypes
<1>2. ASSUME NEW c \in Chunk, Emit(c) PROVE events' \in Seq(Chunk)
  BY <1>1, <1>2, Appended DEF Emit
<1>3. /\ <<"text">> \in Chunk /\ <<"ask">> \in Chunk /\ <<"result">> \in Chunk /\ <<"error">> \in Chunk
      /\ \A m \in Message : <<"drained", m>> \in Chunk
  BY DEF Chunk
<1>4. CASE StreamChunk
  BY <1>1, <1>4, Read DEF StreamChunk
<1>5. CASE ReadText
  BY <1>2, <1>3, <1>5 DEF ReadText
<1>6. CASE ReadAsk
  BY <1>2, <1>3, <1>6 DEF ReadAsk
<1>7. CASE ReadTurnEnd
  <2>1. Head(output) = "result" \/ Head(output) = "error"
    BY <1>7 DEF ReadTurnEnd
  <2>2. <<Head(output)>> \in Chunk
    BY <1>3, <2>1
  <2> QED
    BY <1>2, <1>7, <2>2 DEF ReadTurnEnd
<1>8. CASE DrainWrite
  <2>1. taken \in Message
    BY <1>1, <1>8 DEF DrainWrite
  <2> QED
    BY <1>1, <1>2, <1>3, <1>8, <2>1 DEF DrainWrite
<1>9. CASE End
  BY <1>1, <1>2, <1>3, <1>9 DEF End
<1> USE DEF store, commands, session, claude
<1>10. CASE User \/ Command \/ StopSession
  BY <1>1, <1>10 DEF User, Send, Queue, Cancel, Stop, Answer, Command, Write, WriteFails, Written,
                     Queued, Interrupt, StopSession
<1>11. CASE Asked \/ DrainTake \/ Drained \/ ReadEnd \/ Works \/ Say \/ Ask \/ Die
  BY <1>1, <1>11 DEF Asked, DrainTake, Drained, ReadEnd, Works, Begin, EndTurn, Ignore, Say, Ask, Die
<1> QED
  BY <1>4, <1>5, <1>6, <1>7, <1>8, <1>9, <1>10, <1>11 DEF Next, Reader

(* How the input pipe changes: a message goes in from a command or from    *)
(* the reader, one is taken out, or all are gone.                          *)
LEMMA InputStep ==
  ASSUME TypeOK, SentWhenCalled, Next
  PROVE  \/ input' = input
         \/ input' = <<>>
         \/ input # <<>> /\ input' = Tail(input) /\ Begin
         \/ sent \in Message /\ input' = Append(input, sent) /\ Write
         \/ taken \in Message /\ input' = Append(input, taken) /\ DrainWrite
<1>1. /\ sent \in Message \cup {None} /\ taken \in Message \cup {None}
      /\ (reader = "drains") <=> (taken # None)
      /\ (sending = "called") <=> (sent # None)
  BY Types DEF PlaceTypes, StateTypes, SentWhenCalled
<1> USE DEF store, commands, session, claude
<1>2. CASE User \/ StreamChunk
  BY <1>2 DEF User, Send, Queue, Cancel, Stop, Answer, StreamChunk
<1>3. CASE Command
  BY <1>1, <1>3 DEF Command, Write, WriteFails, Written, Queued, Interrupt
<1>4. CASE StopSession
  BY <1>4 DEF StopSession
<1>5. CASE Reader
  BY <1>1, <1>5 DEF Reader, ReadText, ReadAsk, Asked, ReadTurnEnd, DrainTake, DrainWrite, Drained,
                    ReadEnd, End
<1>6. CASE Works \/ Say \/ Ask \/ Die
  BY <1>6 DEF Works, Begin, EndTurn, Ignore, Say, Ask, Die
<1> QED
  BY <1>2, <1>3, <1>4, <1>5, <1>6 DEF Next

(* How the output pipe changes: Claude Code writes a line, or the reader   *)
(* takes one; the line of a question only goes out with the question, and  *)
(* only goes away when it is registered.                                   *)
LEMMA OutputStep ==
  ASSUME TypeOK, Next
  PROVE  \/ output' = output /\ ~Ask /\ ~ReadAsk
         \/ output' = <<"text">> /\ output = <<>> /\ Say
         \/ \E l \in Line \ {"ask"} : output' = Append(output, l) /\ (StopSession \/ EndTurn \/ Die)
         \/ output' = Append(output, "ask") /\ Ask
         \/ output # <<>> /\ Head(output) # "ask" /\ output' = Tail(output) /\ (ReadText \/ ReadTurnEnd \/ ReadEnd)
         \/ output # <<>> /\ output' = Tail(output) /\ ReadAsk
<1>1. output \in Seq(Line)
  BY Types DEF PipeTypes
<1>2. Append(output, "ask") # output /\ (output # <<>> => Tail(output) # output)
  <2>1. Len(output) \in Nat /\ Len(Append(output, "ask")) = Len(output) + 1
    BY <1>1 DEF Line
  <2>2. ASSUME output # <<>> PROVE Len(Tail(output)) = Len(output) - 1
    BY <1>1, <2>2
  <2> QED
    BY <2>1, <2>2
<1>3. ~Ask \/ output' = Append(output, "ask")
  BY DEF Ask
<1>4. ~ReadAsk \/ (output # <<>> /\ output' = Tail(output))
  BY DEF ReadAsk
<1> USE DEF store, commands, session, claude
<1>5. CASE User \/ StreamChunk \/ Command
  <2>1. output' = output
    BY <1>5 DEF User, Send, Queue, Cancel, Stop, Answer, StreamChunk,
                Command, Write, WriteFails, Written, Queued, Interrupt
  <2> QED
    BY <1>2, <1>3, <1>4, <2>1
<1>6. CASE StopSession
  <2>1. output' = output \/ output' = Append(output, "eof")
    BY <1>6 DEF StopSession
  <2>2. "eof" \in Line \ {"ask"}
    BY DEF Line
  <2> QED
    BY <1>2, <1>3, <1>4, <1>6, <2>1, <2>2
<1>7. CASE ReadText \/ ReadTurnEnd \/ ReadEnd
  BY <1>7 DEF ReadText, ReadTurnEnd, ReadEnd
<1>8. CASE ReadAsk
  BY <1>4, <1>8
<1>9. CASE Asked \/ DrainTake \/ DrainWrite \/ Drained \/ End \/ Begin \/ Ignore
  <2>1. output' = output
    BY <1>9 DEF Asked, DrainTake, DrainWrite, Drained, End, Begin, Ignore
  <2> QED
    BY <1>2, <1>3, <1>4, <2>1
<1>10. CASE EndTurn
  <2>1. \E l \in Line \ {"ask"} : output' = Append(output, l)
    BY <1>10 DEF EndTurn, Line
  <2> QED
    BY <1>10, <2>1
<1>11. CASE Say
  BY <1>11 DEF Say
<1>12. CASE Ask
  BY <1>3, <1>12
<1>13. CASE Die
  <2>1. "eof" \in Line \ {"ask"} /\ output' = Append(output, "eof")
    BY <1>13 DEF Die, Line
  <2> QED
    BY <1>13, <2>1
<1> QED
  BY <1>5, <1>6, <1>7, <1>8, <1>9, <1>10, <1>11, <1>12, <1>13 DEF Next, Reader, Works

LEMMA PipeStep == ASSUME TypeOK, SentWhenCalled, Next PROVE PipeTypes'
<1>1. input \in Seq(Message) /\ output \in Seq(Line)
  BY Types DEF PipeTypes
<1>2. events' \in Seq(Chunk)
  BY EventStep
<1>3. input' \in Seq(Message)
  <2>1. <<>> \in Seq(Message)
    OBVIOUS
  <2> QED
    BY <1>1, <2>1, InputStep, Appended, Read
<1>4. output' \in Seq(Line)
  <2>1. <<"text">> \in Seq(Line) /\ "ask" \in Line
    BY DEF Line
  <2>2. ASSUME NEW l \in Line PROVE Append(output, l) \in Seq(Line)
    BY <1>1, Appended
  <2>3. ASSUME output # <<>> PROVE Tail(output) \in Seq(Line)
    BY <1>1, <2>3, Read
  <2> QED
    BY <1>1, <2>1, <2>2, <2>3, OutputStep
<1> QED
  BY <1>2, <1>3, <1>4 DEF PipeTypes

(* The question Claude Code waits on.                                      *)

LEMMA AsksUnread ==
  ASSUME TypeOK, Next
  PROVE  /\ HasAsk' => HasAsk \/ Ask
         /\ HasAsk => HasAsk' \/ ReadAsk
         /\ Ask => HasAsk'
<1>1. output \in Seq(Line) /\ "ask" \in Line
  BY Types DEF PipeTypes, Line
<1>2. CASE output' = output /\ ~Ask /\ ~ReadAsk
  BY <1>2 DEF HasAsk
<1>3. CASE output' = <<"text">> /\ output = <<>> /\ Say
  <2>1. ~HasAsk /\ ~HasAsk'
    BY <1>3 DEF HasAsk
  <2>2. ~Ask
    BY <1>3 DEF Say, Ask
  <2> QED
    BY <2>1, <2>2
<1>4. CASE \E l \in Line \ {"ask"} : output' = Append(output, l) /\ (StopSession \/ EndTurn \/ Die)
  <2>1. HasAsk' <=> HasAsk
    BY <1>1, <1>4, Appended DEF HasAsk
  <2>2. ~Ask
    BY <1>4, ChatTurnAssumption DEF StopSession, EndTurn, Die, Ask
  <2> QED
    BY <2>1, <2>2
<1>5. CASE output' = Append(output, "ask") /\ Ask
  BY <1>1, <1>5, Appended DEF HasAsk
<1>6. CASE output # <<>> /\ Head(output) # "ask" /\ output' = Tail(output) /\ (ReadText \/ ReadTurnEnd \/ ReadEnd)
  <2>1. HasAsk' <=> HasAsk
    BY <1>1, <1>6, Read DEF HasAsk
  <2>2. ~Ask
    BY <1>6 DEF ReadText, ReadTurnEnd, ReadEnd, Ask, store, session
  <2> QED
    BY <2>1, <2>2
<1>7. CASE output # <<>> /\ output' = Tail(output) /\ ReadAsk
  <2>1. HasAsk' => HasAsk
    BY <1>1, <1>7, Read DEF HasAsk
  <2>2. Ask => HasAsk'
    BY <1>7 DEF ReadAsk, Ask, session
  <2> QED
    BY <1>7, <2>1, <2>2
<1> QED
  BY <1>2, <1>3, <1>4, <1>5, <1>6, <1>7, OutputStep

LEMMA NumberedStep == ASSUME TypeOK, Numbered, Next PROVE Numbered'
<1>1. asks \in Nat
  BY Types, ChatTurnAssumption DEF AskTypes
<1>2. CASE Ask
  BY <1>1, <1>2 DEF Ask, Numbered
<1>3. ASSUME ~Ask PROVE asks' = asks
  <2> USE DEF store, commands, session, claude
  <2>1. CASE User \/ StreamChunk \/ Command \/ StopSession
    BY <2>1 DEF User, Send, Queue, Cancel, Stop, Answer, StreamChunk, Command, Write,
      WriteFails, Written, Queued, Interrupt, StopSession
  <2>2. CASE Reader
    BY <2>2 DEF Reader, ReadText, ReadAsk, Asked, ReadTurnEnd, DrainTake, DrainWrite, Drained,
      ReadEnd, End
  <2>3. CASE Works \/ Say \/ Die
    BY <2>3 DEF Works, Begin, EndTurn, Ignore, Say, Die
  <2> QED
    BY <1>3, <2>1, <2>2, <2>3 DEF Next
<1> QED
  BY <1>2, <1>3, AsksUnread DEF Numbered

LEMMA AskKnownStep == ASSUME TypeOK, AskKnown, Next PROVE AskKnown'
<1> USE DEF store, commands, session, claude
<1>1. CASE Ask
  BY <1>1, AsksUnread DEF Ask, AskKnown
<1>2. CASE ReadAsk
  BY <1>2 DEF ReadAsk, AskKnown
<1>3. CASE \E q \in Question : Answer(q)
  <2>1. ~ReadAsk
    BY <1>3 DEF Answer, ReadAsk
  <2>2. HasAsk => HasAsk'
    BY <2>1, AsksUnread
  <2>3. PICK q \in Question : Answer(q)
    BY <1>3
  <2>4. stopping' = stopping /\ asks' = asks
    BY <2>3 DEF Answer
  <2>5. CASE turn = "asking" /\ q = asks /\ turn' = "working"
    BY <2>5 DEF AskKnown
  <2>6. CASE turn' = turn /\ pending' = pending
    BY <2>2, <2>4, <2>6 DEF AskKnown
  <2>7. CASE turn' = turn /\ ~(turn = "asking" /\ q = asks) /\ pending' = pending \ {q}
    BY <2>2, <2>4, <2>7 DEF AskKnown
  <2>8. \/ turn' = turn /\ pending' = pending
        \/ turn = "asking" /\ q = asks /\ turn' = "working"
        \/ turn' = turn /\ ~(turn = "asking" /\ q = asks) /\ pending' = pending \ {q}
    BY <2>3 DEF Answer
  <2> QED
    BY <2>5, <2>6, <2>7, <2>8
<1>4. CASE StopSession
  BY <1>4 DEF StopSession, AskKnown
<1>5. CASE ~Ask /\ ~ReadAsk /\ ~StopSession /\ ~(\E q \in Question : Answer(q))
  <2>1. /\ stopping' = stopping /\ asks' = asks /\ pending' = pending
        /\ turn' = "asking" => turn = "asking"
    <3>1. CASE User \/ StreamChunk \/ Command
      BY <1>5, <3>1 DEF User, Send, Queue, Cancel, Stop, StreamChunk, Command, Write,
        WriteFails, Written, Queued, Interrupt
    <3>2. CASE Reader
      BY <1>5, <3>2 DEF Reader, ReadText, Asked, ReadTurnEnd, DrainTake, DrainWrite, Drained,
        ReadEnd, End
    <3>3. CASE Works \/ Say \/ Die
      BY <3>3 DEF Works, Begin, EndTurn, Ignore, Say, Die
    <3> QED
      BY <1>5, <3>1, <3>2, <3>3 DEF Next
  <2> QED
    BY <1>5, <2>1, AsksUnread DEF AskKnown
<1> QED
  BY <1>1, <1>2, <1>3, <1>4, <1>5

(* The commands and the end of the stream.                                 *)

LEMMA CalledStep == ASSUME TypeOK, SentWhenCalled, Next PROVE SentWhenCalled'
<1> USE ChatTurnAssumption DEF SentWhenCalled, store, commands, session, claude
<1>1. CASE User \/ StreamChunk \/ Command \/ StopSession
  BY <1>1 DEF User, Send, Queue, Cancel, Stop, Answer, StreamChunk, Command, Write,
    WriteFails, Written, Queued, Interrupt, StopSession
<1>2. CASE Reader
  BY <1>2 DEF Reader, ReadText, ReadAsk, Asked, ReadTurnEnd, DrainTake, DrainWrite, Drained,
    ReadEnd, End
<1>3. CASE Works \/ Say \/ Ask \/ Die
  BY <1>3 DEF Works, Begin, EndTurn, Ignore, Say, Ask, Die
<1> QED
  BY <1>1, <1>2, <1>3 DEF Next

LEMMA AsleepStep == ASSUME TypeOK, NoneWritten, AsleepAtEnd, Next PROVE NoneWritten' /\ AsleepAtEnd'
<1>1. /\ hold \in BOOLEAN
      /\ reader \in {"reads", "asked", "turned", "drains", "drained", "ends", "ended"}
  BY Types DEF FlagTypes, StateTypes
<1> USE DEF NoneWritten, AsleepAtEnd, store, commands, session, claude
<1>2. CASE User \/ StreamChunk
  <2>1. CASE \E q \in Question : Answer(q)
    <3>1. ~stopping /\ stopping' = stopping
      BY <2>1 DEF Answer
    <3> QED
      BY <3>1
  <2>2. CASE ~(\E q \in Question : Answer(q)) /\ sending' = "called"
    <3>1. /\ stopping' = stopping /\ hold' = hold /\ reader' = reader
      BY <1>2, <2>2 DEF User, Send, Queue, Cancel, Stop, StreamChunk
    <3> QED
      BY <2>2, <3>1
  <2>3. CASE ~(\E q \in Question : Answer(q)) /\ sending' # "called"
    <3>1. /\ stopping' = stopping /\ hold' = hold /\ reader' = reader /\ sending' = sending
      BY <1>2, <2>3 DEF User, Send, Queue, Cancel, Stop, StreamChunk
    <3> QED
      BY <3>1
  <2> QED
    BY <2>1, <2>2, <2>3
<1>3. CASE Command
  <2>1. CASE Write
    <3>1. ~stopping /\ stopping' = stopping
      BY <2>1 DEF Write
    <3> QED
      BY <3>1
  <2>2. CASE WriteFails
    <3>1. /\ sending' = "no" /\ stopping' = stopping /\ reader' = reader /\ (hold' = hold \/ hold' = FALSE)
      BY <2>2 DEF WriteFails
    <3> QED
      BY <3>1
  <2>3. CASE Written
    <3>1. ~stopping /\ stopping' = stopping
      BY <2>3 DEF Written, NoneWritten
    <3> QED
      BY <3>1
  <2>4. CASE Queued \/ Interrupt
    <3>1. /\ stopping' = stopping /\ hold' = hold /\ reader' = reader /\ sending' = sending
      BY <2>4 DEF Queued, Interrupt
    <3> QED
      BY <3>1
  <2> QED
    BY <1>3, <2>1, <2>2, <2>3, <2>4 DEF Command
<1>4. CASE StopSession
  BY <1>4 DEF StopSession
<1>5. CASE Reader
  BY <1>1, <1>5 DEF Reader, ReadText, ReadAsk, Asked, ReadTurnEnd, DrainTake, DrainWrite, Drained,
    ReadEnd, End
<1>6. CASE Works \/ Say \/ Ask \/ Die
  BY <1>6 DEF Works, Begin, EndTurn, Ignore, Say, Ask, Die
<1> QED
  BY <1>2, <1>3, <1>4, <1>5, <1>6 DEF Next

(* A message goes from one place to the next.                              *)

LEMMA InputHolds ==
  ASSUME TypeOK, SentWhenCalled, Next, NEW m \in Message
  PROVE  InInput(m)' => InInput(m) \/ (Write /\ m = sent) \/ (DrainWrite /\ m = taken)
<1>1. input \in Seq(Message)
  BY Types DEF PipeTypes
<1>2. CASE input' = input \/ input' = <<>>
  BY <1>2 DEF InInput
<1>3. CASE input # <<>> /\ input' = Tail(input)
  BY <1>1, <1>3, Read DEF InInput
<1>4. CASE sent \in Message /\ input' = Append(input, sent) /\ Write
  BY <1>1, <1>4, Appended DEF InInput
<1>5. CASE taken \in Message /\ input' = Append(input, taken) /\ DrainWrite
  BY <1>1, <1>5, Appended DEF InInput
<1> QED
  BY <1>2, <1>3, <1>4, <1>5, InputStep

LEMMA ApartStep ==
  ASSUME TypeOK, SentWhenCalled, Next, NEW m \in Message, Apart(m)
  PROVE  Apart(m)'
<1>1. /\ None \notin Message
      /\ sending = "called" <=> sent # None
      /\ reader = "drains" <=> taken # None
  BY ChatTurnAssumption, Types DEF SentWhenCalled, StateTypes
<1>2. InInput(m)' => InInput(m) \/ (Write /\ m = sent) \/ (DrainWrite /\ m = taken)
  BY InputHolds
<1> USE DEF Apart, store, commands, session, claude
<1> HIDE DEF InInput
<1>3. CASE User
  <2>1. ~Write /\ ~DrainWrite
    BY <1>1, <1>3 DEF User, Send, Queue, Cancel, Stop, Answer, Write, DrainWrite
  <2> QED
    BY <1>1, <1>2, <1>3, <2>1 DEF User, Send, Queue, Cancel, Stop, Answer
<1>4. CASE Write
  BY <1>1, <1>2, <1>4 DEF Write, DrainWrite
<1>5. CASE DrainWrite
  BY <1>1, <1>2, <1>5 DEF DrainWrite, Write
<1>6. CASE StreamChunk \/ WriteFails \/ Written \/ Queued \/ Interrupt \/ StopSession
  BY <1>1, <1>2, <1>4, <1>5, <1>6 DEF StreamChunk, WriteFails, Written, Queued, Interrupt, StopSession
<1>7. CASE ReadText \/ ReadAsk \/ Asked \/ ReadTurnEnd \/ DrainTake \/ Drained \/ ReadEnd \/ End
  BY <1>1, <1>2, <1>4, <1>5, <1>7 DEF ReadText, ReadAsk, Asked, ReadTurnEnd, DrainTake, Drained, ReadEnd, End
<1>8. CASE Works \/ Say \/ Ask \/ Die
  BY <1>1, <1>2, <1>4, <1>5, <1>8 DEF Works, Begin, EndTurn, Ignore, Say, Ask, Die
<1> QED
  BY <1>3, <1>4, <1>5, <1>6, <1>7, <1>8 DEF Next, Command, Reader

-----------------------------------------------------------------------------
LEMMA StepInvariant == IInv /\ [Next]_vars => IInv'
<1> SUFFICES ASSUME IInv, [Next]_vars PROVE IInv'
  OBVIOUS
<1>1. CASE Next
  <2>1. TypeOK'
    <3>1. PipeTypes' /\ FlagTypes' /\ PlaceTypes' /\ StateTypes' /\ AskTypes'
      BY <1>1, PipeStep, FlagStep, PlaceStep, StateStep, AskStep DEF IInv
    <3> QED
      BY <3>1 DEF TypeOK, PipeTypes, FlagTypes, PlaceTypes, StateTypes, AskTypes
  <2>2. SentWhenCalled' /\ Numbered' /\ AskKnown' /\ NoneWritten' /\ AsleepAtEnd'
    BY <1>1, CalledStep, NumberedStep, AskKnownStep, AsleepStep DEF IInv
  <2>3. \A m \in Message : Apart(m)'
    BY <1>1, ApartStep DEF IInv
  <2> QED
    BY <2>1, <2>2, <2>3 DEF IInv
<1>2. CASE UNCHANGED vars
  BY <1>2 DEF vars, IInv, TypeOK, SentWhenCalled, Numbered, HasAsk, AskKnown, NoneWritten,
              AsleepAtEnd, Apart, InInput
<1> QED
  BY <1>1, <1>2

LEMMA Invariant == Spec => []IInv
  BY InitInvariant, StepInvariant, PTL DEF Spec

(* Type correctness, for any set of messages and number of questions.      *)
THEOREM TypeCorrect == Spec => []TypeOK
<1>1. IInv => TypeOK
  BY DEF IInv
<1> QED
  BY <1>1, Invariant, PTL

(* No failed answer, interrupt, drain or late line makes a question that   *)
(* Claude Code waits on impossible to answer (submit_question_answer).     *)
THEOREM QuestionsStayAnswerable == Spec => []QuestionAnswerable
<1>1. IInv => QuestionAnswerable
  <2> SUFFICES ASSUME IInv, turn = "asking", output = <<>>, ~stopping PROVE asks \in pending
    BY DEF QuestionAnswerable
  <2>1. ~HasAsk
    BY DEF HasAsk
  <2> QED
    BY <2>1 DEF IInv, AskKnown
<1> QED
  BY <1>1, Invariant, PTL

(* A stopped session keeps no hold on the computer once its reader ended   *)
(* (ChatSession::stop, message_written).                                   *)
THEOREM StoppedSessionsSleep == Spec => []StoppedLetsSleep
<1>1. IInv => StoppedLetsSleep
  BY DEF IInv, AsleepAtEnd, StoppedLetsSleep
<1> QED
  BY <1>1, Invariant, PTL

(* No message is in two places, so none is sent twice (the queue's slot,   *)
(* drain_queued_message, send_message).                                    *)
THEOREM MessagesInOnePlace == Spec => []OnePlace
<1>1. IInv => OnePlace
  BY PlacesApart DEF IInv
<1> QED
  BY <1>1, Invariant, PTL

-----------------------------------------------------------------------------
(* The keep-awake counter (KeepAwake), whose workers are the chat turns    *)
(* among others, for any finite set of workers and any bound on the holds. *)
(* The count has to be tied to the holds for "nobody holds" to be what     *)
(* release_if_idle reads, so TypeOK and NeverLeaked are proved together.   *)

AwakeInv == AwakeTypeOK /\ NeverLeaked

(* The two halves of the type: what counts, and the rest.                  *)
Counts ==
  /\ holders \in Nat
  /\ generation \in 0..MaxHolds
  /\ graces \in SUBSET (0..MaxHolds)

Flags ==
  /\ held \in SUBSET Worker
  /\ enabled \in Switch \cup {"unset"}
  /\ assertion \in BOOLEAN
  /\ stored \in Switch
  /\ saving \in Switch \cup {"none"}
  /\ exiting \in BOOLEAN

(* The count is zero exactly when nobody holds.                            *)
LEMMA CountZero ==
  ASSUME AwakeTypeOK, NeverLeaked
  PROVE  holders = 0 <=> held = {}
<1>1. IsFiniteSet(held)
  BY KeepAwakeAssumption, FS_Subset DEF AwakeTypeOK
<1> QED
  BY <1>1, FS_EmptySet DEF NeverLeaked

LEMMA InitAwake == ASSUME AwakeInit PROVE AwakeInv
<1>1. AwakeTypeOK
  <2>1. Counts
    BY KeepAwakeAssumption DEF AwakeInit, Counts
  <2>2. Flags
    BY DEF AwakeInit, Flags, Switch
  <2> QED
    BY <2>1, <2>2 DEF AwakeTypeOK, Counts, Flags
<1>2. NeverLeaked
  BY FS_EmptySet DEF AwakeInit, NeverLeaked
<1> QED
  BY <1>1, <1>2 DEF AwakeInv

(* The switch: the assertion stays, goes, or is taken under a hold.        *)
LEMMA SwitchStep ==
  ASSUME AwakeTypeOK, NeverLeaked, NEW s \in Switch, SetEnabled(s),
         UNCHANGED <<held, holders, generation, graces>>
  PROVE  /\ enabled' \in Switch
         /\ assertion' \in BOOLEAN
         /\ NeverLeaked'
<1>1. holders = 0 <=> held = {}
  BY CountZero
<1>2. assertion' \in BOOLEAN /\ enabled' \in Switch
  BY DEF SetEnabled, Ensured, AwakeTypeOK
<1>3. ASSUME assertion', held = {} PROVE assertion
  <2>1. ~(holders > 0)
    BY <1>1, <1>3
  <2>2. assertion' \in {FALSE} \/ assertion' \in {assertion}
    BY <2>1, Zenon DEF SetEnabled
  <2> QED
    BY <1>3, <2>2
<1> QED
  BY <1>2, <1>3 DEF NeverLeaked

LEMMA StepAwake == ASSUME AwakeInv, [AwakeNext]_awakeVars PROVE AwakeInv'
<1> USE DEF AwakeInv
<1>0. holders = 0 <=> held = {}
  BY CountZero
<1>f. IsFiniteSet(held)
  BY KeepAwakeAssumption, FS_Subset DEF AwakeTypeOK
<1>1. ASSUME NEW w \in Worker, Hold(w) PROVE AwakeInv'
  <2>a. Counts'
    BY <1>1, KeepAwakeAssumption DEF Hold, AwakeTypeOK, Counts
  <2>b. assertion' \in BOOLEAN
    BY <1>1, Zenon DEF Hold, AwakeTypeOK, Ensured
  <2>c. Flags'
    BY <1>1, <2>b DEF Hold, AwakeTypeOK, Flags, Setting, Switch
  <2>1. AwakeTypeOK'
    BY <2>a, <2>c DEF AwakeTypeOK, Counts, Flags
  <2>2. Cardinality(held \cup {w}) = Cardinality(held) + 1
    BY <1>1, <1>f, FS_AddElement DEF Hold
  <2>3. holders' = Cardinality(held')
    BY <1>1, <2>2 DEF Hold, NeverLeaked
  <2>4. held' # {}
    BY <1>1 DEF Hold
  <2> QED
    BY <2>1, <2>3, <2>4 DEF NeverLeaked
<1>2. ASSUME NEW w \in Worker, Release(w) PROVE AwakeInv'
  <2>a. Counts'
    BY <1>2 DEF Release, AwakeTypeOK, Counts
  <2>b. Flags'
    BY <1>2 DEF Release, AwakeTypeOK, Flags
  <2>1. AwakeTypeOK'
    BY <2>a, <2>b DEF AwakeTypeOK, Counts, Flags
  <2>2. Cardinality(held \ {w}) = Cardinality(held) - 1
    BY <1>2, <1>f, FS_RemoveElement DEF Release
  <2>3. holders # 0
    BY <1>0, <1>2 DEF Release
  <2>4. holders' = Cardinality(held')
    BY <1>2, <2>2, <2>3 DEF Release, NeverLeaked, AwakeTypeOK
  <2>5. held' = {} => holders' = 0
    BY <2>4, FS_EmptySet
  <2>6. ASSUME assertion', held' = {} PROVE generation' \in graces'
    BY <1>2, <2>5, <2>6 DEF Release
  <2> QED
    BY <2>1, <2>4, <2>6 DEF NeverLeaked
<1>3. ASSUME NEW g \in graces, ReleaseIfIdle(g) PROVE AwakeInv'
  <2>a. Counts'
    BY <1>3 DEF ReleaseIfIdle, AwakeTypeOK, Counts
  <2>b. assertion' \in BOOLEAN
    BY <1>3 DEF ReleaseIfIdle
  <2>c. Flags'
    BY <1>3, <2>b DEF ReleaseIfIdle, AwakeTypeOK, Flags
  <2>1. AwakeTypeOK'
    BY <2>a, <2>c DEF AwakeTypeOK, Counts, Flags
  <2>2. ASSUME assertion', held' = {} PROVE generation' \in graces'
    BY <1>0, <1>3, <2>2 DEF ReleaseIfIdle, NeverLeaked
  <2> QED
    BY <1>3, <2>1, <2>2 DEF ReleaseIfIdle, NeverLeaked
<1>4. ASSUME NEW s \in Switch, Store(s) PROVE AwakeInv'
  BY <1>4 DEF Store, AwakeTypeOK, Switch, NeverLeaked
<1>5. ASSUME Apply PROVE AwakeInv'
  <2>1. saving \in Switch
    BY <1>5 DEF Apply, AwakeTypeOK
  <2>2. enabled' \in Switch /\ assertion' \in BOOLEAN /\ NeverLeaked'
    BY <1>5, <2>1, SwitchStep DEF Apply
  <2>3. AwakeTypeOK'
    BY <1>5, <2>2 DEF Apply, AwakeTypeOK
  <2> QED
    BY <2>2, <2>3
<1>6. ASSUME Renew PROVE AwakeInv'
  <2>1. assertion' \in BOOLEAN
    BY <1>6, Zenon DEF Renew, AwakeTypeOK
  <2>2. AwakeTypeOK'
    BY <1>6, <2>1 DEF Renew, AwakeTypeOK
  <2>3. held' # {}
    BY <1>0, <1>6 DEF Renew
  <2> QED
    BY <1>6, <2>2, <2>3 DEF Renew, NeverLeaked
<1>7. ASSUME Exit PROVE AwakeInv'
  <2>1. enabled' \in Switch /\ assertion' \in BOOLEAN /\ NeverLeaked'
    BY <1>7, SwitchStep DEF Exit, Switch
  <2>2. AwakeTypeOK'
    BY <1>7, <2>1 DEF Exit, AwakeTypeOK
  <2> QED
    BY <2>1, <2>2
<1>8. CASE UNCHANGED awakeVars
  BY <1>8 DEF awakeVars, AwakeTypeOK, NeverLeaked
<1> QED
  BY <1>1, <1>2, <1>3, <1>4, <1>5, <1>6, <1>7, <1>8 DEF AwakeNext

LEMMA AwakeInvariance == AwakeSpec => []AwakeInv
<1>1. AwakeInit => AwakeInv
  BY InitAwake
<1>2. AwakeInv /\ [AwakeNext]_awakeVars => AwakeInv'
  BY StepAwake
<1> QED
  BY <1>1, <1>2, PTL DEF AwakeSpec

(* keep_awake.rs keeps its state within its types, whatever the workers.   *)
THEOREM AwakeTypeCorrect == AwakeSpec => []AwakeTypeOK
  BY AwakeInvariance, PTL DEF AwakeInv

(* release, release_if_idle: an assertion nobody holds always has a        *)
(* release thread of its own generation on the way.                        *)
THEOREM AssertionNeverLeaked == AwakeSpec => []NeverLeaked
  BY AwakeInvariance, PTL DEF AwakeInv

(* release_if_idle: no release thread cuts short running work, or the      *)
(* grace of a later release.                                               *)
THEOREM DropsAreIdle == AwakeSpec => DroppedOnlyIdle
<1> DEFINE Allowed == assertion /\ ~assertion' =>
                        \/ enabled' = "off"
                        \/ held' = {} /\ generation' \notin graces'
<1>1. ASSUME AwakeInv, [AwakeNext]_awakeVars PROVE Allowed
  <2> USE <1>1 DEF AwakeInv
  <2>0. holders = 0 <=> held = {}
    BY CountZero
  <2>1. ASSUME NEW w \in Worker, Hold(w) PROVE Allowed
    BY <2>1 DEF Hold, Ensured
  <2>2. ASSUME NEW w \in Worker, Release(w) PROVE Allowed
    BY <2>2 DEF Release
  <2>3. ASSUME NEW g \in graces, ReleaseIfIdle(g) PROVE Allowed
    BY <2>0, <2>3 DEF ReleaseIfIdle
  <2>4. ASSUME NEW s \in Switch, Store(s) PROVE Allowed
    BY <2>4 DEF Store
  <2>5. ASSUME Apply PROVE Allowed
    BY <2>5 DEF Apply, SetEnabled, Ensured, AwakeTypeOK, Switch
  <2>6. ASSUME Renew PROVE Allowed
    BY <2>6 DEF Renew
  <2>7. ASSUME Exit PROVE Allowed
    BY <2>7 DEF Exit, SetEnabled
  <2>8. CASE UNCHANGED awakeVars
    BY <2>8 DEF awakeVars
  <2> QED
    BY <1>1, <2>1, <2>2, <2>3, <2>4, <2>5, <2>6, <2>7, <2>8 DEF AwakeNext
<1>2. ASSUME AwakeInv, [AwakeNext]_awakeVars PROVE [Allowed]_awakeVars
  BY <1>1, <1>2
<1> QED
  BY <1>2, AwakeInvariance, PTL DEF AwakeSpec, DroppedOnlyIdle

-----------------------------------------------------------------------------
(* The two together: the session's hold is that of the worker "turn".      *)

(* Once a stopped session's reader has ended, and no other work holds the  *)
(* computer awake, the assertion is gone or a release thread of its own    *)
(* generation is on the way: a chat never keeps the computer awake for     *)
(* good, in whatever order a stop, a drain and a write meet                *)
(* (AwaitedResult, Hold::drop, release_if_idle).                           *)
THEOREM StoppedChatsLetSleep ==
  ASSUME "turn" \in Worker
  PROVE  Spec /\ AwakeSpec /\ [](hold <=> "turn" \in held) =>
           [](stopping /\ reader = "ended" /\ held \subseteq {"turn"} /\ assertion
                => generation \in graces)
<1>1. ASSUME StoppedLetsSleep, NeverLeaked, hold <=> "turn" \in held
      PROVE  stopping /\ reader = "ended" /\ held \subseteq {"turn"} /\ assertion
               => generation \in graces
  BY <1>1 DEF StoppedLetsSleep, NeverLeaked
<1>2. Spec => []StoppedLetsSleep
  BY StoppedSessionsSleep
<1>3. AwakeSpec => []NeverLeaked
  BY AssertionNeverLeaked
<1> QED
  BY <1>1, <1>2, <1>3, PTL

-----------------------------------------------------------------------------
(* What the window shows as running. The events that show a turn as        *)
(* running, those that end it, and the lines that become such events.      *)
Running == {<<"text">>} \cup ({"drained"} \X Message)
Ended == {<<"result">>, <<"error">>}
EndLine == {"result", "error"}

Has(s, B) == \E i \in DOMAIN s : s[i] \in B
Follows(s, A, B) == \A i \in DOMAIN s : s[i] \in A => \E j \in DOMAIN s : j > i /\ s[j] \in B

(* Claude Code has a turn to end or is gone (whose restart by the store is *)
(* not modelled), or the reader has an end of a turn to read.              *)
Owes == turn # "idle" \/ input # <<>> \/ Has(output, EndLine)

(* The window shows a turn as running only while Claude Code, the reader   *)
(* or the events still owe it an end, or while the message that began it   *)
(* is yet to be written (sendMessage, handleStreamChunk, the reader's      *)
(* result and end of the stream).                                          *)
StreamingOwed == streaming => Owes \/ Has(events, Ended) \/ (sending = "called" /\ current)

(* A late event that shows a turn as running again comes before the end    *)
(* of that turn, and so does the line it was read from.                    *)
EventsFollowed == Owes \/ Follows(events, Running, Ended)
TextFollowed == turn # "idle" \/ Follows(output, {"text"}, EndLine)

Owed == StreamingOwed /\ EventsFollowed /\ TextFollowed

LEMMA ReadInOrder ==
  ASSUME NEW S, NEW s \in Seq(S), s # <<>>, NEW A, NEW B
  PROVE  /\ Has(s, B) => Head(s) \in B \/ Has(Tail(s), B)
         /\ Follows(s, A, B) => Follows(Tail(s), A, B)
         /\ Follows(s, A, B) /\ Head(s) \in A => Has(Tail(s), B)
<1>1. /\ Len(s) \in Nat \ {0} /\ DOMAIN s = 1..Len(s) /\ DOMAIN Tail(s) = 1..(Len(s) - 1)
      /\ Head(s) = s[1]
  OBVIOUS
<1>2. \A i \in 1..(Len(s) - 1) : Tail(s)[i] = s[i + 1]
  OBVIOUS
<1>3. ASSUME NEW j \in DOMAIN s, NEW i \in Nat, j > i, i > 0
      PROVE  j - 1 \in DOMAIN Tail(s) /\ Tail(s)[j - 1] = s[j]
  <2>1. j - 1 \in 1..(Len(s) - 1) /\ (j - 1) + 1 = j
    BY <1>1, <1>3
  <2> QED
    BY <1>1, <1>2, <2>1
<1>4. ASSUME Has(s, B), Head(s) \notin B PROVE Has(Tail(s), B)
  <2>1. PICK j \in DOMAIN s : s[j] \in B
    BY <1>4 DEF Has
  <2>2. j > 1
    BY <1>1, <1>4, <2>1
  <2>3. j - 1 \in DOMAIN Tail(s) /\ Tail(s)[j - 1] \in B
    BY <1>3, <2>1, <2>2
  <2> QED
    BY <2>3 DEF Has
<1>5. ASSUME Follows(s, A, B) PROVE Follows(Tail(s), A, B)
  <2>1. SUFFICES ASSUME NEW i \in DOMAIN Tail(s), Tail(s)[i] \in A
                 PROVE  \E j \in DOMAIN Tail(s) : j > i /\ Tail(s)[j] \in B
    BY DEF Follows
  <2>2. i \in Nat /\ i > 0 /\ i + 1 \in DOMAIN s /\ s[i + 1] \in A
    BY <1>1, <1>2, <2>1
  <2>3. PICK j \in DOMAIN s : j > i + 1 /\ s[j] \in B
    BY <1>5, <2>2 DEF Follows
  <2>4. j \in Nat /\ j > i /\ j - 1 > i
    BY <1>1, <2>2, <2>3
  <2> QED
    BY <1>3, <2>2, <2>3, <2>4
<1>6. ASSUME Follows(s, A, B), Head(s) \in A PROVE Has(Tail(s), B)
  <2>1. 1 \in DOMAIN s /\ s[1] \in A
    BY <1>1, <1>6
  <2>2. PICK j \in DOMAIN s : j > 1 /\ s[j] \in B
    BY <1>6, <2>1 DEF Follows
  <2>3. j - 1 \in DOMAIN Tail(s) /\ Tail(s)[j - 1] \in B
    BY <1>3, <2>2
  <2> QED
    BY <2>3 DEF Has
<1> QED
  BY <1>4, <1>5, <1>6

LEMMA AppendedInOrder ==
  ASSUME NEW S, NEW s \in Seq(S), NEW x \in S, NEW A, NEW B
  PROVE  /\ Has(s, B) \/ x \in B => Has(Append(s, x), B)
         /\ Follows(s, A, B) /\ x \notin A => Follows(Append(s, x), A, B)
         /\ x \in B /\ x \notin A => Follows(Append(s, x), A, B)
<1>1. /\ Len(s) \in Nat /\ DOMAIN s = 1..Len(s) /\ DOMAIN Append(s, x) = 1..(Len(s) + 1)
      /\ \A i \in 1..Len(s) : Append(s, x)[i] = s[i]
      /\ Append(s, x)[Len(s) + 1] = x
  OBVIOUS
<1>2. \A i \in DOMAIN s : i \in DOMAIN Append(s, x) /\ Append(s, x)[i] = s[i]
  BY <1>1
<1>3. Len(s) + 1 \in DOMAIN Append(s, x)
  BY <1>1
<1>4. \A i \in DOMAIN Append(s, x) : i = Len(s) + 1 \/ (i \in DOMAIN s /\ Len(s) + 1 > i)
  BY <1>1
<1>5. ASSUME Has(s, B) \/ x \in B PROVE Has(Append(s, x), B)
  BY <1>1, <1>2, <1>3, <1>5 DEF Has
<1>6. ASSUME Follows(s, A, B), x \notin A PROVE Follows(Append(s, x), A, B)
  <2>1. SUFFICES ASSUME NEW i \in DOMAIN Append(s, x), Append(s, x)[i] \in A
                 PROVE  \E j \in DOMAIN Append(s, x) : j > i /\ Append(s, x)[j] \in B
    BY DEF Follows
  <2>2. i \in DOMAIN s /\ s[i] \in A
    BY <1>1, <1>2, <1>4, <1>6, <2>1
  <2>3. PICK j \in DOMAIN s : j > i /\ s[j] \in B
    BY <1>6, <2>2 DEF Follows
  <2> QED
    BY <1>2, <2>3
<1>7. ASSUME x \in B, x \notin A PROVE Follows(Append(s, x), A, B)
  <2>1. SUFFICES ASSUME NEW i \in DOMAIN Append(s, x), Append(s, x)[i] \in A
                 PROVE  \E j \in DOMAIN Append(s, x) : j > i /\ Append(s, x)[j] \in B
    BY DEF Follows
  <2>2. Len(s) + 1 > i
    BY <1>1, <1>4, <1>7, <2>1
  <2> QED
    BY <1>1, <1>3, <1>7, <2>2
<1> QED
  BY <1>5, <1>6, <1>7

(* Whoever leaves alone all that is owed, and begins nothing, keeps it.    *)
LEMMA OwedQuiet ==
  ASSUME Owed, UNCHANGED <<streaming, events, turn, input, output>>,
         sending = "called" /\ current => sending' = "called" /\ current'
  PROVE  Owed'
  BY DEF Owed, StreamingOwed, EventsFollowed, TextFollowed, Owes

(* What a turn under way owes, its end and all that comes before it.       *)
LEMMA OwedTurn == ASSUME turn' # "idle" PROVE Owed'
  BY DEF Owed, StreamingOwed, EventsFollowed, TextFollowed, Owes

LEMMA OwedInput ==
  ASSUME Owed, input' # <<>> \/ turn # "idle", UNCHANGED <<turn, output>>
  PROVE  Owed'
  BY DEF Owed, StreamingOwed, EventsFollowed, TextFollowed, Owes

LEMMA OwedUser == ASSUME Owed, User PROVE Owed'
<1> USE DEF session, claude
<1>1. CASE \E m \in Message : Send(m)
  BY <1>1 DEF Send, Owed, StreamingOwed, EventsFollowed, TextFollowed, Owes
<1>2. CASE (\E m \in Message : Queue(m)) \/ Cancel
  BY <1>2, OwedQuiet DEF Queue, Cancel, commands
<1>3. CASE Stop
  BY <1>3 DEF Stop, Owed, StreamingOwed, EventsFollowed, TextFollowed, Owes
<1>4. ASSUME NEW q \in Question, Answer(q) PROVE Owed'
  <2>1. /\ UNCHANGED <<events, sending, current, input, output>>
        /\ (turn' = turn /\ streaming' \in {streaming, FALSE}) \/ turn' = "working"
    BY <1>4 DEF Answer, commands
  <2>2. CASE turn' = "working"
    BY <2>2, OwedTurn
  <2>3. CASE turn' = turn /\ streaming' \in {streaming, FALSE}
    <3>1. EventsFollowed' /\ TextFollowed' /\ (Owes' <=> Owes)
      BY <2>1, <2>3 DEF Owed, EventsFollowed, TextFollowed, Owes
    <3>2. streaming' => streaming
      BY <2>3
    <3>3. StreamingOwed'
      BY <2>1, <3>1, <3>2 DEF Owed, StreamingOwed
    <3> QED
      BY <3>1, <3>3 DEF Owed
  <2> QED
    BY <2>1, <2>2, <2>3
<1> QED
  BY <1>1, <1>2, <1>3, <1>4 DEF User

LEMMA OwedCommand == ASSUME TypeOK, Owed, Command PROVE Owed'
<1> USE DEF store, session, claude
<1>1. CASE Write
  <2>1. CASE turn = "gone"
    <3>1. turn' # "idle"
      BY <1>1, <2>1 DEF Write
    <3> QED
      BY <3>1, OwedTurn
  <2>2. CASE turn # "gone"
    <3>1. input' = Append(input, sent) /\ UNCHANGED <<turn, output>>
      BY <1>1, <2>2 DEF Write
    <3>2. input \in Seq(Message)
      BY Types DEF PipeTypes
    <3>3. input' # <<>>
      BY <3>1, <3>2
    <3> QED
      BY <3>1, <3>3, OwedInput
  <2> QED
    BY <2>1, <2>2
<1>2. CASE WriteFails
  <2>1. /\ UNCHANGED <<events, turn, input, output>> /\ sending = "called"
        /\ streaming' = (streaming /\ ~current)
    BY <1>2 DEF WriteFails
  <2>2. EventsFollowed' /\ TextFollowed' /\ (Owes' <=> Owes)
    BY <2>1 DEF Owed, EventsFollowed, TextFollowed, Owes
  <2>3. streaming' => streaming /\ ~current
    BY <2>1, Zenon
  <2>4. StreamingOwed'
    BY <2>1, <2>2, <2>3 DEF Owed, StreamingOwed
  <2> QED
    BY <2>2, <2>4 DEF Owed
<1>3. CASE Written
  BY <1>3, OwedQuiet DEF Written
<1>4. CASE Queued
  BY <1>4, OwedQuiet DEF Queued
<1>5. CASE Interrupt
  <2>1. UNCHANGED <<streaming, events, turn, input, output, sending, current>>
    BY <1>5 DEF Interrupt
  <2> QED
    BY <2>1, OwedQuiet
<1> QED
  BY <1>1, <1>2, <1>3, <1>4, <1>5 DEF Command

LEMMA OwedChunk == ASSUME TypeOK, Owed, StreamChunk PROVE Owed'
<1>1. events \in Seq(Chunk) /\ events # <<>> /\ events' = Tail(events) /\ Head(events) \in Chunk
  BY Types, Read DEF StreamChunk, PipeTypes
<1>2. UNCHANGED <<turn, input, output, sending>> /\ (Owes' <=> Owes)
  BY DEF StreamChunk, Owes, claude
<1>3. EventsFollowed' /\ TextFollowed'
  <2>1. Owes \/ Follows(Tail(events), Running, Ended)
    BY <1>1, ReadInOrder DEF Owed, EventsFollowed
  <2> QED
    BY <1>1, <1>2, <2>1 DEF Owed, EventsFollowed, TextFollowed
<1>4. CASE Head(events) \in Ended
  <2>1. Head(events)[1] \in {"result", "error"}
    BY <1>4 DEF Ended
  <2>2. streaming' = FALSE
    BY <2>1 DEF StreamChunk
  <2> QED
    BY <1>3, <2>2 DEF Owed, StreamingOwed
<1>5. CASE Head(events) \in Running
  <2>1. Owes \/ Has(Tail(events), Ended)
    BY <1>1, <1>5, ReadInOrder DEF Owed, EventsFollowed
  <2> QED
    BY <1>1, <1>2, <1>3, <2>1 DEF Owed, StreamingOwed
<1>6. CASE Head(events) \notin Ended /\ Head(events) \notin Running
  <2>1. Head(events) = <<"ask">>
    BY <1>1, <1>6 DEF Chunk, Ended, Running
  <2>2. Head(events)[1] = "ask" /\ Head(events)[1] # "drained"
    BY <2>1
  <2>3. streaming' = CASE Head(events)[1] \in {"text", "drained"} -> TRUE
                      [] Head(events)[1] \in {"result", "error"} -> FALSE
                      [] OTHER -> streaming
    BY DEF StreamChunk
  <2>4. streaming' = streaming
    BY <2>2, <2>3
  <2>5. current' = (current /\ Head(events)[1] # "drained")
    BY DEF StreamChunk
  <2>6. Has(events, Ended) => Has(Tail(events), Ended)
    BY <1>1, <1>6, ReadInOrder
  <2>7. StreamingOwed'
    BY <1>1, <1>2, <2>2, <2>4, <2>5, <2>6 DEF Owed, StreamingOwed
  <2> QED
    BY <1>3, <2>7 DEF Owed
<1> QED
  BY <1>4, <1>5, <1>6

LEMMA OwedReader == ASSUME TypeOK, Owed, Reader PROVE Owed'
<1>1. events \in Seq(Chunk) /\ output \in Seq(Line) /\ input \in Seq(Message)
  BY Types DEF PipeTypes
<1>2. /\ <<"text">> \in Chunk /\ <<"ask">> \in Chunk /\ <<"result">> \in Chunk /\ <<"error">> \in Chunk
      /\ <<"text">> \notin Ended /\ <<"ask">> \notin Ended
      /\ <<"text">> \in Running
      /\ <<"ask">> \notin Running /\ <<"result">> \notin Running /\ <<"error">> \notin Running
      /\ <<"result">> \in Ended /\ <<"error">> \in Ended
      /\ "text" \notin EndLine /\ "ask" \notin EndLine /\ "eof" \notin EndLine
  BY DEF Chunk, Ended, Running, EndLine
<1> USE DEF store, commands, claude
<1>3. CASE Asked \/ DrainTake \/ Drained
  BY <1>3, OwedQuiet DEF Asked, DrainTake, Drained
<1>4. CASE ReadText
  <2>1. /\ output # <<>> /\ Head(output) = "text" /\ output' = Tail(output)
        /\ events' = Append(events, <<"text">>)
        /\ UNCHANGED <<streaming, turn, input, sending, current>>
    BY <1>4 DEF ReadText, Emit
  <2>2. turn # "idle" \/ (Has(Tail(output), EndLine) /\ Follows(Tail(output), {"text"}, EndLine))
    BY <1>1, <2>1, ReadInOrder DEF Owed, TextFollowed
  <2> QED
    BY <2>1, <2>2 DEF Owed, StreamingOwed, EventsFollowed, TextFollowed, Owes
<1>5. CASE ReadAsk
  <2>1. /\ output # <<>> /\ Head(output) = "ask" /\ output' = Tail(output)
        /\ events' = Append(events, <<"ask">>)
        /\ UNCHANGED <<streaming, turn, input, sending, current>>
    BY <1>5 DEF ReadAsk, Emit
  <2>2. /\ Has(output, EndLine) => Has(Tail(output), EndLine)
        /\ Follows(output, {"text"}, EndLine) => Follows(Tail(output), {"text"}, EndLine)
    BY <1>1, <1>2, <2>1, ReadInOrder
  <2>3. /\ Has(events, Ended) => Has(events', Ended)
        /\ Follows(events, Running, Ended) => Follows(events', Running, Ended)
    BY <1>1, <1>2, <2>1, AppendedInOrder
  <2> QED
    BY <2>1, <2>2, <2>3 DEF Owed, StreamingOwed, EventsFollowed, TextFollowed, Owes
<1>6. CASE ReadTurnEnd
  <2>1. /\ output # <<>> /\ Head(output) \in {"result", "error"} /\ output' = Tail(output)
        /\ events' = Append(events, <<Head(output)>>)
        /\ UNCHANGED turn
    BY <1>6 DEF ReadTurnEnd, Emit
  <2>2. <<Head(output)>> \in Chunk /\ <<Head(output)>> \in Ended /\ <<Head(output)>> \notin Running
    BY <1>2, <2>1
  <2>3. Follows(output, {"text"}, EndLine) => Follows(Tail(output), {"text"}, EndLine)
    BY <1>1, <2>1, ReadInOrder
  <2>4. Has(events', Ended) /\ Follows(events', Running, Ended)
    BY <1>1, <2>1, <2>2, AppendedInOrder
  <2> QED
    BY <2>1, <2>3, <2>4 DEF Owed, StreamingOwed, EventsFollowed, TextFollowed
<1>7. CASE DrainWrite
  <2>1. UNCHANGED <<streaming, turn, output, sending, current>>
    BY <1>7 DEF DrainWrite
  <2>2. CASE UNCHANGED <<input, events>>
    BY <2>1, <2>2, OwedQuiet
  <2>3. CASE turn = "gone"
    <3>1. turn' # "idle"
      BY <2>1, <2>3
    <3> QED
      BY <3>1, OwedTurn
  <2>4. CASE turn # "gone" /\ input' = Append(input, taken)
    <3>1. input' # <<>>
      BY <1>1, <2>4
    <3> QED
      BY <2>1, <3>1, OwedInput
  <2> QED
    BY <1>7, <2>2, <2>3, <2>4 DEF DrainWrite
<1>8. CASE ReadEnd
  <2>1. /\ output # <<>> /\ Head(output) = "eof" /\ output' = Tail(output)
        /\ UNCHANGED <<streaming, events, turn, input, sending, current>>
    BY <1>8 DEF ReadEnd
  <2>2. /\ Has(output, EndLine) => Has(Tail(output), EndLine)
        /\ Follows(output, {"text"}, EndLine) => Follows(Tail(output), {"text"}, EndLine)
    BY <1>1, <1>2, <2>1, ReadInOrder
  <2> QED
    BY <2>1, <2>2 DEF Owed, StreamingOwed, EventsFollowed, TextFollowed, Owes
<1>9. CASE End
  <2>1. UNCHANGED <<streaming, turn, input, output, sending, current>>
    BY <1>9 DEF End
  <2>2. CASE UNCHANGED events
    BY <2>1, <2>2, OwedQuiet
  <2>3. CASE events' = Append(events, <<"error">>)
    <3>1. Has(events', Ended) /\ Follows(events', Running, Ended)
      BY <1>1, <1>2, <2>3, AppendedInOrder
    <3> QED
      BY <2>1, <3>1 DEF Owed, StreamingOwed, EventsFollowed, TextFollowed
  <2> QED
    BY <1>9, <2>2, <2>3 DEF End, Emit
<1> QED
  BY <1>3, <1>4, <1>5, <1>6, <1>7, <1>8, <1>9 DEF Reader

LEMMA OwedStep == TypeOK /\ Owed /\ [Next]_vars => Owed'
<1> SUFFICES ASSUME TypeOK, Owed, [Next]_vars PROVE Owed'
  OBVIOUS
<1>1. CASE UNCHANGED vars
  BY <1>1, OwedQuiet DEF vars
<1>2. CASE User \/ Command \/ StreamChunk \/ Reader
  BY <1>2, OwedUser, OwedCommand, OwedChunk, OwedReader
<1>3. CASE StopSession \/ Begin \/ Say \/ Ask \/ Die
  <2>1. turn' # "idle"
    BY <1>3 DEF StopSession, Begin, Say, Ask, Die
  <2> QED
    BY <2>1, OwedTurn
<1>4. CASE EndTurn
  <2>1. PICK l \in EndLine : output' = Append(output, l)
    BY <1>4 DEF EndTurn, EndLine
  <2>2. output \in Seq(Line) /\ l \in Line /\ l # "text"
    BY <2>1, Types DEF PipeTypes, Line, EndLine
  <2>3. Has(output', EndLine) /\ Follows(output', {"text"}, EndLine)
    BY <2>1, <2>2, AppendedInOrder
  <2> QED
    BY <2>3 DEF Owed, StreamingOwed, EventsFollowed, TextFollowed, Owes
<1>5. CASE Ignore
  BY <1>5, OwedQuiet DEF Ignore, store, commands
<1> QED
  BY <1>1, <1>2, <1>3, <1>4, <1>5 DEF Next, Works

(* The safety half of StreamingEnds: a turn that the window shows as       *)
(* running is never one whose end it has already shown, so only what is    *)
(* owed can keep it running.                                               *)
THEOREM StreamingIsOwed == Spec => []StreamingOwed
<1>1. Init => Owed
  BY DEF Init, Owed, StreamingOwed, EventsFollowed, TextFollowed, Owes, Follows
<1>2. TypeOK /\ Owed /\ [Next]_vars => Owed'
  BY OwedStep
<1>3. Owed => StreamingOwed
  BY DEF Owed
<1> QED
  BY <1>1, <1>2, <1>3, TypeCorrect, PTL DEF Spec
=============================================================================
