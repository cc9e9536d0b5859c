------------------------------ MODULE ChatTabs ------------------------------
(***************************************************************************)
(* The tab registry of the desktop app and the life of a tab's chat        *)
(* session: start, resume, retry, close and clear, each a command on a     *)
(* thread of its own, with the Claude Code processes they spawn, stop and  *)
(* reap and the stdout readers that outlive them.                          *)
(*                                                                         *)
(* An element of Request is one command sent by the web view.  It also     *)
(* names the registry entry (TabEntry) it creates, if it creates one, and  *)
(* the Claude Code instance it spawns, if it spawns one.                   *)
(***************************************************************************)
EXTENDS FiniteSets, Naturals

CONSTANTS Request,     \* the commands of one behaviour
          Tab,         \* tab ids
          Project,     \* projects; each has one claude container
          Transcript,  \* transcript (session) ids Claude Code can assign
          Saved,       \* the transcripts on disk when the app starts
          MaxTabs,     \* MAX_CHAT_TABS
          None         \* no entry, instance, request, tab or transcript

ASSUME ChatTabsAssumption ==
  /\ Saved \subseteq Transcript
  /\ MaxTabs \in Nat \ {0}
  /\ None \notin Request \cup Tab \cup Project \cup Transcript

VARIABLES
  registry,    \* ChatSessions.tabs: the entry of each tab
  project,     \* TabEntry.project
  slot,        \* TabEntry.transcript, the transcript the tab claims
  serial,      \* TabEntry.start_serialize: the request holding it
  session,     \* TabEntry.session: the instance of the ChatSession in it
  proc,        \* each Claude Code instance, as its container sees it
  owner,       \* the entry whose session spawned the instance
  conv,        \* the transcript the instance is attached to
  reading,     \* instances whose stdout reader has not ended
  unconfirmed, \* UNCONFIRMED: instances a reap could not confirm gone
  history,     \* transcripts that exist
  pc, job, at, \* a request's next step, its arguments, its entry
  refs,        \* the entries a request still holds an Arc of
  old,         \* the session it swapped out and is stopping
  recreated,   \* it recreated its project's containers
  result,      \* what it returned
  seen         \* history: the session its entry held when it got the lock

entryVars == <<registry, project, slot, serial, session>>
procVars  == <<proc, owner, conv, reading, unconfirmed, history>>
jobVars   == <<pc, job, at, refs, old, recreated, result, seen>>
vars      == <<entryVars, procVars, jobVars>>

Entry == Request
Instance == Request
Maybe(S) == S \cup {None}

Steps == {"idle", "replace", "serial", "check", "preflight", "auth", "claim",
          "swap", "stopOld", "reap", "spawn", "remove", "stopRemoved",
          "drain", "stopDrained", "finish", "done"}
Job == [kind : {"start", "close", "retry", "clear"},
        tab : Maybe(Tab), conv : Maybe(Transcript)]
NoJob == [kind |-> "start", tab |-> None, conv |-> None]

TypeOK ==
  /\ registry \in [Tab -> Maybe(Entry)]
  /\ project \in [Entry -> Maybe(Project)]
  /\ slot \in [Entry -> Maybe(Transcript)]
  /\ serial \in [Entry -> Maybe(Request)]
  /\ session \in [Entry -> Maybe(Instance)]
  /\ proc \in [Instance -> {"unborn", "running", "gone"}]
  /\ owner \in [Instance -> Maybe(Entry)]
  /\ conv \in [Instance -> Maybe(Transcript)]
  /\ reading \in SUBSET Instance
  /\ unconfirmed \in SUBSET Instance
  /\ history \in SUBSET Transcript
  /\ pc \in [Request -> Steps]
  /\ job \in [Request -> Job]
  /\ at \in [Request -> Maybe(Entry)]
  /\ refs \in [Request -> SUBSET Entry]
  /\ old \in [Request -> Maybe(Instance)]
  /\ recreated \in [Request -> BOOLEAN]
  /\ result \in [Request -> {"none", "ok", "kept", "failed"}]
  /\ seen \in [Request -> Maybe(Instance)]

Init ==
  /\ registry = [t \in Tab |-> None]
  /\ project = [e \in Entry |-> None]
  /\ slot = [e \in Entry |-> None]
  /\ serial = [e \in Entry |-> None]
  /\ session = [e \in Entry |-> None]
  /\ proc = [i \in Instance |-> "unborn"]
  /\ owner = [i \in Instance |-> None]
  /\ conv = [i \in Instance |-> None]
  /\ reading = {}
  /\ unconfirmed = {}
  /\ history = Saved
  /\ pc = [r \in Request |-> "idle"]
  /\ job = [r \in Request |-> NoJob]
  /\ at = [r \in Request |-> None]
  /\ refs = [r \in Request |-> {}]
  /\ old = [r \in Request |-> None]
  /\ recreated = [r \in Request |-> FALSE]
  /\ result = [r \in Request |-> "none"]
  /\ seen = [r \in Request |-> None]

-----------------------------------------------------------------------------
(* The registry, the processes and the locks.                              *)

Registered == {registry[t] : t \in Tab} \ {None}

(* ensure_transcript_free: no other tab's entry holds transcript c.        *)
TranscriptFree(t, c) ==
  c = None \/ \A u \in Tab \ {t} : registry[u] = None \/ slot[registry[u]] # c

(* The session mutex of e is held across a start's reap and spawn; every   *)
(* other critical section on it is a single step of this model.            *)
SessionFree(e) == \A r \in Request : pc[r] = "spawn" => at[r] # e

(* The containers of p: an unborn instance is in none of them.             *)
InContainer(p) == {i \in Instance : owner[i] # None /\ project[owner[i]] = p}

(* A mutant of Stop: a failed reap is logged and forgotten.                *)
StopForgets(I) ==
  \E sure \in SUBSET I, quiet \in SUBSET I :
    /\ proc' = [i \in Instance |-> IF i \in sure THEN "gone" ELSE proc[i]]
    /\ reading' = reading \ quiet
    /\ UNCHANGED <<owner, conv, unconfirmed, history>>

(* ChatSession::stop on each session of I: reap the instance, record it    *)
(* when the reap cannot confirm it gone, kill the exec client, and give    *)
(* the reader 200 ms to end before detaching it.                           *)
Stop(I) ==
  \E sure \in SUBSET I, quiet \in SUBSET I :
    /\ proc' = [i \in Instance |-> IF i \in sure THEN "gone" ELSE proc[i]]
    /\ unconfirmed' = unconfirmed \cup (I \ sure)
    /\ reading' = reading \ quiet
    /\ UNCHANGED <<owner, conv, history>>

(* A mutant of Sessions: stop without the instance_id check.               *)
SessionsUnchecked(E) == {session[e] : e \in E}

Sessions(E) == {session[e] : e \in E} \ {None}

(* A mutant of ReapUnconfirmed: its failure does not stop the start.       *)
ReapUnconfirmedIgnored(p, all) ==
  LET pending == unconfirmed \cap InContainer(p) IN
  \E sure \in SUBSET pending :
    /\ all
    /\ proc' = [i \in Instance |-> IF i \in sure THEN "gone" ELSE proc[i]]
    /\ unconfirmed' = unconfirmed \ sure
    /\ UNCHANGED <<owner, conv, reading, history>>

(* reap_unconfirmed for the container of project p: the recorded instances *)
(* are tried in turn; `all` tells whether every one is gone now.           *)
ReapUnconfirmed(p, all) ==
  LET pending == unconfirmed \cap InContainer(p) IN
  \E sure \in SUBSET pending :
    /\ all = (sure = pending)
    /\ proc' = [i \in Instance |-> IF i \in sure THEN "gone" ELSE proc[i]]
    /\ unconfirmed' = unconfirmed \ sure
    /\ UNCHANGED <<owner, conv, reading, history>>

Goto(r, step) == pc' = [pc EXCEPT ![r] = step]
Return(r, res) == Goto(r, "finish") /\ result' = [result EXCEPT ![r] = res]

(* A mutant of Refused: MSG_SESSION_KEPT after a recreation too.           *)
AlwaysKept(r) == Return(r, "kept")
Refused(r) == Return(r, IF recreated[r] THEN "failed" ELSE "kept")

-----------------------------------------------------------------------------
(* start_chat and resume_conversation: start_session_inner.                *)

(* ChatSessions::prepare, the part under the map lock.                     *)
Prepare(r) ==
  /\ pc[r] = "idle"
  /\ \E t \in Tab, p \in Project, c \in history \cup {None} :
       LET e == registry[t] IN
       /\ job' = [job EXCEPT ![r] = [kind |-> "start", tab |-> t, conv |-> c]]
       /\ \/ /\ e = None /\ Cardinality(Registered) >= MaxTabs
             /\ Return(r, "kept")
             /\ UNCHANGED <<entryVars, at, refs>>
          \/ /\ e # None /\ project[e] = p
             /\ at' = [at EXCEPT ![r] = e]
             /\ refs' = [refs EXCEPT ![r] = {e}]
             /\ Goto(r, "serial")
             /\ UNCHANGED <<entryVars, result>>
          \/ /\ IF e = None THEN Cardinality(Registered) < MaxTabs
                            ELSE project[e] # p
             /\ registry' = [registry EXCEPT ![t] = r]
             /\ project' = [project EXCEPT ![r] = p]
             /\ at' = [at EXCEPT ![r] = r]
             /\ refs' = [refs EXCEPT ![r] = {r, e} \ {None}]
             /\ Goto(r, IF e = None THEN "serial" ELSE "replace")
             /\ UNCHANGED <<slot, serial, session, result>>
  /\ UNCHANGED <<procVars, old, recreated, seen>>

(* A mutant of StopReplaced: the replaced session is left to itself.       *)
ReplacedLeft(r) ==
  /\ pc[r] = "replace"
  /\ session' = [e \in Entry |-> IF e \in refs[r] \ {at[r]} THEN None ELSE session[e]]
  /\ refs' = [refs EXCEPT ![r] = {at[r]}]
  /\ Goto(r, "serial")
  /\ UNCHANGED <<registry, project, slot, serial, procVars,
                 job, at, old, recreated, result, seen>>

(* prepare, after the map lock: stop the session of the replaced entry.    *)
StopReplaced(r) ==
  /\ pc[r] = "replace"
  /\ LET replaced == refs[r] \ {at[r]} IN
     /\ \A e \in replaced : SessionFree(e)
     /\ Stop(Sessions(replaced))
     /\ session' = [e \in Entry |-> IF e \in replaced THEN None ELSE session[e]]
  /\ refs' = [refs EXCEPT ![r] = {at[r]}]
  /\ Goto(r, "serial")
  /\ UNCHANGED <<registry, project, slot, serial,
                 job, at, old, recreated, result, seen>>

(* Lock start_serialize of the entry the request resolved earlier.         *)
TakeSerial(r) ==
  /\ pc[r] = "serial"
  /\ serial[at[r]] = None
  /\ serial' = [serial EXCEPT ![at[r]] = r]
  /\ seen' = [seen EXCEPT ![r] = session[at[r]]]
  /\ Goto(r, CASE job[r].kind = "start" -> "check"
               [] job[r].kind = "retry" -> "swap"
               [] OTHER -> "remove")
  /\ UNCHANGED <<registry, project, slot, session, procVars,
                 job, at, refs, old, recreated, result>>

(* A mutant of CheckFree: the transcript check after the swap.             *)
CheckAfterSwap(r) ==
  /\ pc[r] = "check"
  /\ session' = [session EXCEPT ![at[r]] = None]
  /\ IF TranscriptFree(job[r].tab, job[r].conv)
     THEN Goto(r, "preflight") /\ UNCHANGED result
     ELSE Return(r, "kept")
  /\ UNCHANGED <<registry, project, slot, serial, procVars,
                 job, at, refs, old, recreated, seen>>

(* check_transcript_free, before any start work.                           *)
CheckFree(r) ==
  /\ pc[r] = "check"
  /\ IF TranscriptFree(job[r].tab, job[r].conv)
     THEN Goto(r, "preflight") /\ UNCHANGED result
     ELSE Return(r, "kept")
  /\ UNCHANGED <<entryVars, procVars, job, at, refs, old, recreated, seen>>

(* ensure_oauth_running, ensure_images_ready and, when the OAuth service   *)
(* was started just now, the recreation of the project's containers: every *)
(* instance in them dies.                                                  *)
Preflight(r) ==
  /\ pc[r] = "preflight"
  /\ \/ Return(r, "kept") /\ UNCHANGED <<proc, recreated>>
     \/ Goto(r, "auth") /\ UNCHANGED <<proc, recreated, result>>
     \/ /\ proc' = [i \in Instance |->
                      IF i \in InContainer(project[at[r]]) THEN "gone" ELSE proc[i]]
        /\ recreated' = [recreated EXCEPT ![r] = TRUE]
        /\ Goto(r, "auth")
        /\ UNCHANGED result
  /\ UNCHANGED <<entryVars, owner, conv, reading, unconfirmed, history,
                 job, at, refs, old, seen>>

(* The sign-in check under the compose lock, then reap_unconfirmed.        *)
Authenticate(r) ==
  /\ pc[r] = "auth"
  /\ \/ Refused(r) /\ UNCHANGED procVars
     \/ ReapUnconfirmed(project[at[r]], FALSE) /\ Refused(r)
     \/ ReapUnconfirmed(project[at[r]], TRUE) /\ Goto(r, "claim") /\ UNCHANGED result
  /\ UNCHANGED <<entryVars, job, at, refs, old, recreated, seen>>

(* claim_transcript: check and set under the map lock, in whatever entry   *)
(* the tab has now.                                                        *)
Claim(r) ==
  /\ pc[r] = "claim"
  /\ LET e == registry[job[r].tab] IN
     IF TranscriptFree(job[r].tab, job[r].conv)
     THEN /\ slot' = IF e = None THEN slot ELSE [slot EXCEPT ![e] = job[r].conv]
          /\ Goto(r, "swap")
          /\ UNCHANGED result
     ELSE Refused(r) /\ UNCHANGED slot
  /\ UNCHANGED <<registry, project, serial, session, procVars,
                 job, at, refs, old, recreated, seen>>

(* Put a new ChatSession in the entry's mutex and keep the old one.        *)
Swap(r) ==
  /\ pc[r] = "swap"
  /\ old' = [old EXCEPT ![r] = session[at[r]]]
  /\ session' = [session EXCEPT ![at[r]] = None]
  /\ Goto(r, "stopOld")
  /\ UNCHANGED <<registry, project, slot, serial, procVars,
                 job, at, refs, recreated, result, seen>>

(* old_session.stop(), outside the session mutex.                          *)
StopOld(r) ==
  /\ pc[r] = "stopOld"
  /\ Stop({old[r]} \ {None})
  /\ old' = [old EXCEPT ![r] = None]
  /\ Goto(r, "reap")
  /\ UNCHANGED <<entryVars, job, at, refs, recreated, result, seen>>

(* start_with_retry under the session mutex, up to the spawn: it may fail  *)
(* (configuration), and it never spawns beside an unconfirmed instance.    *)
Reap(r) ==
  /\ pc[r] = "reap"
  /\ \/ Return(r, "failed") /\ UNCHANGED procVars
     \/ ReapUnconfirmed(project[at[r]], FALSE) /\ Return(r, "failed")
     \/ ReapUnconfirmed(project[at[r]], TRUE) /\ Goto(r, "spawn") /\ UNCHANGED result
  /\ UNCHANGED <<entryVars, job, at, refs, old, recreated, seen>>

(* start_with_retry: spawn the exec, seed the slot, start the reader; the  *)
(* wait for the first-turn gate that follows ends by itself.               *)
Spawn(r) ==
  /\ pc[r] = "spawn"
  /\ \/ Return(r, "failed") /\ UNCHANGED <<slot, session, procVars>>
     \/ /\ proc' = [proc EXCEPT ![r] = "running"]
        /\ owner' = [owner EXCEPT ![r] = at[r]]
        /\ conv' = [conv EXCEPT ![r] = job[r].conv]
        /\ reading' = reading \cup {r}
        /\ session' = [session EXCEPT ![at[r]] = r]
        /\ slot' = [slot EXCEPT ![at[r]] = job[r].conv]
        /\ Return(r, "ok")
        /\ UNCHANGED <<unconfirmed, history>>
  /\ UNCHANGED <<registry, project, serial, job, at, refs, old, recreated, seen>>

(* A mutant of Finish: a command that does not release start_serialize.    *)
FinishHolding(r) ==
  /\ pc[r] = "finish"
  /\ refs' = [refs EXCEPT ![r] = {}]
  /\ at' = [at EXCEPT ![r] = None]
  /\ Goto(r, "done")
  /\ UNCHANGED <<entryVars, procVars, job, old, recreated, result, seen>>

(* A mutant of Finish: a ChatSession without a Drop.                       *)
FinishWithoutDrop(r) ==
  /\ pc[r] = "finish"
  /\ serial' = [e \in Entry |-> IF serial[e] = r THEN None ELSE serial[e]]
  /\ refs' = [refs EXCEPT ![r] = {}]
  /\ at' = [at EXCEPT ![r] = None]
  /\ Goto(r, "done")
  /\ UNCHANGED <<registry, project, slot, session, procVars,
                 job, old, recreated, result, seen>>

(* The command returns: start_serialize is released, its Arcs are dropped, *)
(* and a ChatSession nothing refers to any more is stopped by its Drop.    *)
Finish(r) ==
  /\ pc[r] = "finish"
  /\ LET shared  == Registered \cup UNION {refs[q] : q \in Request \ {r}}
         dropped == refs[r] \ shared
     IN /\ Stop(Sessions(dropped))
        /\ session' = [e \in Entry |-> IF e \in dropped THEN None ELSE session[e]]
  /\ serial' = [e \in Entry |-> IF serial[e] = r THEN None ELSE serial[e]]
  /\ refs' = [refs EXCEPT ![r] = {}]
  /\ job' = [job EXCEPT ![r] = NoJob]
  /\ at' = [at EXCEPT ![r] = None]
  /\ recreated' = [recreated EXCEPT ![r] = FALSE]
  /\ result' = [result EXCEPT ![r] = "none"]
  /\ seen' = [seen EXCEPT ![r] = None]
  /\ Goto(r, "done")
  /\ UNCHANGED <<registry, project, slot, old>>

-----------------------------------------------------------------------------
(* retry_last_turn, close_chat_tab, and clear_chat_sessions (a project     *)
(* switch or a freshly booted web view).                                   *)

(* tab_entry_for_retry; the session id is the one the tab's stream gave.   *)
Retry(r) ==
  /\ pc[r] = "idle"
  /\ \E t \in Tab :
       LET e == registry[t] IN
       /\ e # None /\ session[e] # None /\ conv[session[e]] # None
       /\ job' = [job EXCEPT ![r] = [kind |-> "retry", tab |-> t,
                                     conv |-> conv[session[e]]]]
       /\ at' = [at EXCEPT ![r] = e]
       /\ refs' = [refs EXCEPT ![r] = {e}]
  /\ Goto(r, "serial")
  /\ UNCHANGED <<entryVars, procVars, old, recreated, result, seen>>

Close(r) ==
  /\ pc[r] = "idle"
  /\ \E t \in Tab :
       /\ registry[t] # None
       /\ job' = [job EXCEPT ![r] = [kind |-> "close", tab |-> t, conv |-> None]]
       /\ at' = [at EXCEPT ![r] = registry[t]]
       /\ refs' = [refs EXCEPT ![r] = {registry[t]}]
  /\ Goto(r, "serial")
  /\ UNCHANGED <<entryVars, procVars, old, recreated, result, seen>>

(* close_chat_tab_inner removes whatever entry the tab has by now.         *)
Remove(r) ==
  /\ pc[r] = "remove"
  /\ LET e == registry[job[r].tab] IN
     IF e = None
     THEN Return(r, "ok") /\ UNCHANGED <<registry, at, refs>>
     ELSE /\ registry' = [registry EXCEPT ![job[r].tab] = None]
          /\ at' = [at EXCEPT ![r] = e]
          /\ refs' = [refs EXCEPT ![r] = @ \cup {e}]
          /\ Goto(r, "stopRemoved")
          /\ UNCHANGED result
  /\ UNCHANGED <<project, slot, serial, session, procVars, job, old, recreated, seen>>

StopRemoved(r) ==
  /\ pc[r] = "stopRemoved"
  /\ SessionFree(at[r])
  /\ Stop(Sessions({at[r]}))
  /\ session' = [session EXCEPT ![at[r]] = None]
  /\ Return(r, "ok")
  /\ UNCHANGED <<registry, project, slot, serial, job, at, refs, old, recreated, seen>>

(* drain_all: the registry is emptied at once, the sessions stopped after. *)
Clear(r) ==
  /\ pc[r] = "idle"
  /\ Registered # {}
  /\ job' = [job EXCEPT ![r] = [kind |-> "clear", tab |-> None, conv |-> None]]
  /\ refs' = [refs EXCEPT ![r] = Registered]
  /\ registry' = [t \in Tab |-> None]
  /\ Goto(r, "drain")
  /\ UNCHANGED <<project, slot, serial, session, procVars,
                 at, old, recreated, result, seen>>

TakeDrained(r) ==
  /\ pc[r] = "drain"
  /\ \/ /\ refs[r] = {}
        /\ Return(r, "ok")
        /\ UNCHANGED <<serial, at>>
     \/ \E e \in refs[r] :
          /\ serial[e] = None
          /\ serial' = [serial EXCEPT ![e] = r]
          /\ at' = [at EXCEPT ![r] = e]
          /\ Goto(r, "stopDrained")
          /\ UNCHANGED result
  /\ UNCHANGED <<registry, project, slot, session, procVars,
                 job, refs, old, recreated, seen>>

StopDrained(r) ==
  /\ pc[r] = "stopDrained"
  /\ SessionFree(at[r])
  /\ Stop(Sessions({at[r]}))
  /\ session' = [session EXCEPT ![at[r]] = None]
  /\ serial' = [serial EXCEPT ![at[r]] = None]
  /\ refs' = [refs EXCEPT ![r] = @ \ {at[r]}]
  /\ Goto(r, "drain")
  /\ UNCHANGED <<registry, project, slot, job, at, old, recreated, result, seen>>

-----------------------------------------------------------------------------
(* The Claude Code processes and the stdout readers.                       *)

(* A SystemInit or Result line: the reader, detached or not, records the   *)
(* session id in the slot its tab entry shares.  A fresh conversation gets *)
(* its id here.                                                            *)
ReaderRecords(i) ==
  /\ i \in reading
  /\ \E c \in Transcript :
       /\ IF conv[i] = None THEN c \notin history ELSE c = conv[i]
       /\ conv' = [conv EXCEPT ![i] = c]
       /\ history' = history \cup {c}
       /\ slot' = [slot EXCEPT ![owner[i]] = c]
  /\ UNCHANGED <<registry, project, serial, session,
                 proc, owner, reading, unconfirmed, jobVars>>

ReaderEnds(i) ==
  /\ i \in reading
  /\ proc[i] = "gone"
  /\ reading' = reading \ {i}
  /\ UNCHANGED <<entryVars, proc, owner, conv, unconfirmed, history, jobVars>>

(* The process exits, crashes or is killed inside its container.           *)
Exit(i) ==
  /\ proc[i] = "running"
  /\ proc' = [proc EXCEPT ![i] = "gone"]
  /\ UNCHANGED <<entryVars, owner, conv, reading, unconfirmed, history, jobVars>>

-----------------------------------------------------------------------------
Work(r) ==
  \/ StopReplaced(r) \/ TakeSerial(r) \/ CheckFree(r) \/ Preflight(r)
  \/ Authenticate(r) \/ Claim(r) \/ Swap(r) \/ StopOld(r) \/ Reap(r)
  \/ Spawn(r) \/ Remove(r) \/ StopRemoved(r) \/ TakeDrained(r)
  \/ StopDrained(r) \/ Finish(r)

Submit(r) == Prepare(r) \/ Retry(r) \/ Close(r) \/ Clear(r)

Next ==
  \/ \E r \in Request : Submit(r) \/ Work(r)
  \/ \E i \in Instance : ReaderRecords(i) \/ ReaderEnds(i) \/ Exit(i)

Spec == Init /\ [][Next]_vars

(* Each command runs on a thread of its own and each of its steps is       *)
(* bounded by a timeout (REAP_DEADLINE, the 5 s kill wait, the 200 ms      *)
(* reader grace, FIRST_TURN_WAIT): the thread keeps running.  A std mutex  *)
(* is not fair, but nothing here takes it for ever.                        *)
FairSpec == Spec /\ \A r \in Request : SF_vars(Work(r))

-----------------------------------------------------------------------------
(* Properties.                                                             *)

(* One Claude Code process per tab entry: whatever start, retry, replace   *)
(* and close do to it, a spawn never happens beside an earlier process of  *)
(* the same entry that still runs (start_with_retry reaps first, stop      *)
(* records what it could not reap).                                        *)
OneProcessPerEntry ==
  \A i, j \in Instance :
    (proc[i] = "running" /\ proc[j] = "running" /\ owner[i] = owner[j]) => i = j

(* No process is forgotten: every running Claude Code instance is the      *)
(* session of an entry the registry or a command still refers to, or is    *)
(* being stopped by the command that swapped it out, or is recorded as     *)
(* unconfirmed for the next reap (ChatSession's Drop, UNCONFIRMED).        *)
ProcessAccounted ==
  \A i \in Instance : proc[i] = "running" =>
    \/ i \in Sessions(Registered)
    \/ \E r \in Request : i \in Sessions(refs[r])
    \/ \E r \in Request : pc[r] = "stopOld" /\ old[r] = i
    \/ i \in unconfirmed

(* "the running chat session was kept": a start that returns MSG_SESSION_  *)
(* KEPT leaves in the entry the session it found there and recreated no    *)
(* container under it, unless another command took the entry's tab away.   *)
KeptMeansKept ==
  \A r \in Request : (pc[r] = "finish" /\ result[r] = "kept" /\ at[r] # None) =>
    /\ ~recreated[r]
    /\ session[at[r]] = seen[r] \/ at[r] \notin Registered

(* ADR-090, decision 3: no two tabs' running Claude Code processes are     *)
(* attached to the same transcript; asked here only of the moments when no *)
(* command is under way, so that no start is about to correct it.          *)
OneTabPerTranscript ==
  LET current(t) == IF registry[t] = None THEN None ELSE session[registry[t]]
      attached(t, c) == /\ current(t) # None
                        /\ proc[current(t)] = "running"
                        /\ conv[current(t)] = c
  IN (\A r \in Request : pc[r] \in {"idle", "done"}) =>
       \A t, u \in Tab, c \in Transcript :
         (attached(t, c) /\ attached(u, c)) => t = u

(* Every command ends: the start serializers, the session mutexes and the  *)
(* registry lock are never waited for in a circle.                         *)
EveryRequestEnds == \A r \in Request : (pc[r] # "idle") ~> (pc[r] = "done")

(* A process whose tab entry is out of the registry does not stay: the     *)
(* command that orphaned it, or the last one that refers to it, stops it.  *)
OrphanStopped ==
  \A i \in Instance :
    (proc[i] = "running" /\ owner[i] \notin Registered)
      ~> (proc[i] = "gone" \/ i \in unconfirmed)
=============================================================================
