--------------------------- MODULE ChatTabsProofs ---------------------------
(***************************************************************************)
(* Proofs about ChatTabs for any sets of commands, tabs, projects and      *)
(* transcripts.  The inductive invariant says what a command owns at each  *)
(* of its steps, that a start which reached its spawn is alone in its      *)
(* entry, that a running instance is the session of its entry, in the      *)
(* hands of the command that swapped it out, or recorded as unconfirmed,   *)
(* and that an entry with a session is referred to.  A second invariant    *)
(* on top of it carries what a command may say it kept, a third which tab  *)
(* has which transcript.  At the end: who waits for whom.                  *)
(***************************************************************************)
EXTENDS ChatTabs, TLAPS

(* The steps at which a command holds start_serialize of its entry, and    *)
(* those at which it refers to the entry it works on.                      *)
Serialized == {"check", "preflight", "auth", "claim", "swap", "stopOld", "reap",
               "spawn", "stopDrained"}
Placed == Serialized \cup {"replace", "serial", "remove", "stopRemoved"}

Sound(r) ==
  /\ pc[r] = "idle" => refs[r] = {}
  /\ pc[r] \in Placed => at[r] \in refs[r]
  /\ pc[r] \in Serialized => serial[at[r]] = r
  /\ pc[r] \in {"replace", "serial", "remove"} => job[r].tab \in Tab
  /\ pc[r] \in {"stopOld", "reap", "spawn"} => session[at[r]] = None
  /\ pc[r] = "spawn" => \A i \in Instance : owner[i] = at[r] => proc[i] # "running"

AllSound == \A r \in Request : Sound(r)

Live ==
  \A i \in Instance : proc[i] = "running" =>
    /\ owner[i] \in Entry
    /\ \/ session[owner[i]] = i
       \/ i \in unconfirmed
       \/ \E r \in Request : pc[r] = "stopOld" /\ old[r] = i /\ serial[owner[i]] = r

Referred ==
  \A e \in Entry : session[e] # None =>
    e \in Registered \/ \E r \in Request : e \in refs[r]

IInv == TypeOK /\ AllSound /\ Live /\ OneProcessPerEntry /\ Referred

-----------------------------------------------------------------------------
(* The parts of the type: the entries', the processes' and the commands'.  *)
EntryTypes ==
  /\ registry \in [Tab -> Maybe(Entry)]
  /\ project \in [Entry -> Maybe(Project)]
  /\ slot \in [Entry -> Maybe(Transcript)]
  /\ serial \in [Entry -> Maybe(Request)]
  /\ session \in [Entry -> Maybe(Instance)]

ProcTypes ==
  /\ proc \in [Instance -> {"unborn", "running", "gone"}]
  /\ owner \in [Instance -> Maybe(Entry)]
  /\ conv \in [Instance -> Maybe(Transcript)]
  /\ reading \in SUBSET Instance
  /\ unconfirmed \in SUBSET Instance
  /\ history \in SUBSET Transcript

JobTypes ==
  /\ pc \in [Request -> Steps]
  /\ job \in [Request -> Job]
  /\ at \in [Request -> Maybe(Entry)]
  /\ refs \in [Request -> SUBSET Entry]
  /\ old \in [Request -> Maybe(Instance)]
  /\ recreated \in [Request -> BOOLEAN]
  /\ result \in [Request -> {"none", "ok", "kept", "failed"}]
  /\ seen \in [Request -> Maybe(Instance)]

LEMMA Types == TypeOK <=> (EntryTypes /\ ProcTypes /\ JobTypes)
  BY DEF TypeOK, EntryTypes, ProcTypes, JobTypes

LEMMA Names == None \notin Request /\ Entry = Request /\ Instance = Request
  BY ChatTabsAssumption DEF Entry, Instance

LEMMA InitInvariant == Init => IInv
<1> SUFFICES ASSUME Init PROVE IInv
  OBVIOUS
<1>1. EntryTypes
  BY DEF Init, EntryTypes, Maybe
<1>2. ProcTypes
  BY ChatTabsAssumption DEF Init, ProcTypes, Maybe
<1>3. JobTypes
  BY DEF Init, JobTypes, Maybe, Steps, Job, NoJob
<1>4. AllSound
  BY DEF Init, AllSound, Sound, Placed, Serialized
<1>5. Live /\ OneProcessPerEntry
  BY DEF Init, Live, OneProcessPerEntry
<1>6. Referred
  BY DEF Init, Referred
<1> QED
  BY <1>1, <1>2, <1>3, <1>4, <1>5, <1>6, Types DEF IInv

-----------------------------------------------------------------------------
(* A step of r leaves the other commands and their locks alone.            *)
Moves(r) ==
  /\ \A q \in Request \ {r} :
       /\ pc'[q] = pc[q] /\ at'[q] = at[q] /\ refs'[q] = refs[q]
       /\ job'[q] = job[q] /\ old'[q] = old[q]
  /\ \A e \in Entry, q \in Request \ {r} : serial[e] = q => serial'[e] = q

(* A step that starts no process, takes a session out of its entry only    *)
(* when it is gone or recorded, and forgets no record of a running one.    *)
Calms ==
  /\ \A i \in Instance : proc'[i] = "running" =>
       proc[i] = "running" /\ owner'[i] = owner[i] /\ (i \in unconfirmed => i \in unconfirmed')
  /\ \A e \in Entry :
       \/ session'[e] = session[e]
       \/ /\ session'[e] = None
          /\ \A i \in Instance : i = session[e] /\ proc'[i] = "running" => i \in unconfirmed'

LEMMA CalmStep ==
  ASSUME IInv, NEW r \in Request, Moves(r), Calms, Sound(r)',
         pc[r] = "stopOld" =>
           \A i \in Instance : i = old[r] /\ proc'[i] = "running" => i \in unconfirmed'
  PROVE  AllSound' /\ Live' /\ OneProcessPerEntry'
<1>1. AllSound'
  <2>1. ASSUME NEW q \in Request, q # r PROVE Sound(q)'
    <3>1. Sound(q) /\ refs[q] \subseteq Entry
      BY DEF IInv, AllSound, TypeOK
    <3>2. pc'[q] = pc[q] /\ at'[q] = at[q] /\ refs'[q] = refs[q] /\ job'[q] = job[q]
      BY <2>1 DEF Moves
    <3>3. pc[q] \in Placed => at[q] \in Entry
      BY <3>1 DEF Sound
    <3>4. pc'[q] \in Serialized => serial'[at'[q]] = q
      BY <2>1, <3>1, <3>2, <3>3 DEF Sound, Moves, Placed
    <3>5. pc'[q] \in {"stopOld", "reap", "spawn"} => session'[at'[q]] = None
      BY <3>1, <3>2, <3>3 DEF Sound, Calms, Placed, Serialized
    <3>6. pc'[q] = "spawn" => \A i \in Instance : owner'[i] = at'[q] => proc'[i] # "running"
      BY <3>1, <3>2 DEF Sound, Calms
    <3>7. pc'[q] = "idle" => refs'[q] = {}
      BY <3>1, <3>2 DEF Sound
    <3> QED
      BY <3>1, <3>2, <3>4, <3>5, <3>6, <3>7 DEF Sound
  <2> QED
    BY <2>1 DEF AllSound
<1>2. Live'
  <2> SUFFICES ASSUME NEW i \in Instance, proc'[i] = "running"
               PROVE  /\ owner'[i] \in Entry
                      /\ \/ session'[owner'[i]] = i
                         \/ i \in unconfirmed'
                         \/ \E q \in Request :
                              pc'[q] = "stopOld" /\ old'[q] = i /\ serial'[owner'[i]] = q
    BY DEF Live
  <2>1. proc[i] = "running" /\ owner'[i] = owner[i] /\ (i \in unconfirmed => i \in unconfirmed')
    BY DEF Calms
  <2>2. owner[i] \in Entry
    BY <2>1 DEF IInv, Live
  <2>3. CASE session[owner[i]] = i
    BY <2>1, <2>2, <2>3 DEF Calms
  <2>4. ASSUME NEW q \in Request, pc[q] = "stopOld", old[q] = i, serial[owner[i]] = q
        PROVE  i \in unconfirmed' \/ (pc'[q] = "stopOld" /\ old'[q] = i /\ serial'[owner[i]] = q)
    <3>1. CASE q = r
      BY <2>4, <3>1
    <3>2. CASE q # r
      BY <2>2, <2>4, <3>2 DEF Moves
    <3> QED
      BY <3>1, <3>2
  <2> QED
    BY <2>1, <2>2, <2>3, <2>4 DEF IInv, Live
<1>3. OneProcessPerEntry'
  BY DEF IInv, OneProcessPerEntry, Calms
<1> QED
  BY <1>1, <1>2, <1>3

(* The session that a start leaves behind is always referred to.           *)
LEMMA CalmReferred ==
  ASSUME IInv, Calms, UNCHANGED <<registry, refs>>
  PROVE  Referred'
<1>1. Registered' = Registered
  BY DEF Registered
<1> QED
  BY <1>1 DEF IInv, Referred, Calms

-----------------------------------------------------------------------------
(* What Stop and ReapUnconfirmed do to the processes.                      *)
LEMMA StopEffect ==
  ASSUME TypeOK, NEW I \in SUBSET Instance, Stop(I)
  PROVE  /\ ProcTypes'
         /\ owner' = owner
         /\ \A i \in Instance : proc'[i] = "running" =>
              /\ proc[i] = "running"
              /\ i \in unconfirmed \cup I => i \in unconfirmed'
<1>1. PICK sure \in SUBSET I, quiet \in SUBSET I :
        /\ proc' = [i \in Instance |-> IF i \in sure THEN "gone" ELSE proc[i]]
        /\ unconfirmed' = unconfirmed \cup (I \ sure)
        /\ reading' = reading \ quiet
        /\ UNCHANGED <<owner, conv, history>>
  BY DEF Stop
<1>2. ProcTypes'
  BY <1>1 DEF TypeOK, ProcTypes
<1>3. ASSUME NEW i \in Instance, proc'[i] = "running"
      PROVE  proc[i] = "running" /\ i \notin sure
  BY <1>1, <1>3
<1>4. ASSUME NEW i \in Instance, proc'[i] = "running", i \in unconfirmed \cup I
      PROVE  i \in unconfirmed'
  BY <1>1, <1>3, <1>4
<1> QED
  BY <1>1, <1>2, <1>3, <1>4

LEMMA SessionsType == ASSUME TypeOK, NEW E \in SUBSET Entry PROVE Sessions(E) \in SUBSET Instance
  BY DEF TypeOK, Sessions, Maybe

(* The sessions of a set of entries are stopped, and the entries emptied.  *)
LEMMA StopCalms ==
  ASSUME IInv, NEW E \in SUBSET Entry, Stop(Sessions(E)),
         session' = [e \in Entry |-> IF e \in E THEN None ELSE session[e]]
  PROVE  /\ Calms /\ ProcTypes'
         /\ session' \in [Entry -> Maybe(Instance)]
         /\ \A e \in E : session'[e] = None
<1>1. TypeOK /\ Sessions(E) \in SUBSET Instance
  BY SessionsType DEF IInv
<1>2. /\ ProcTypes' /\ owner' = owner
      /\ \A i \in Instance : proc'[i] = "running" =>
              /\ proc[i] = "running"
              /\ i \in unconfirmed \cup Sessions(E) => i \in unconfirmed'
  BY <1>1, StopEffect
<1>3. \A e \in E, i \in Instance : i = session[e] => i \in Sessions(E)
  BY Names DEF Sessions
<1>4. Calms
  BY <1>2, <1>3 DEF Calms
<1>5. session' \in [Entry -> Maybe(Instance)]
  BY <1>1 DEF TypeOK, Maybe
<1> QED
  BY <1>2, <1>4, <1>5

LEMMA StopOne ==
  ASSUME IInv, NEW e \in Entry, Stop(Sessions({e})), session' = [session EXCEPT ![e] = None]
  PROVE  /\ Calms /\ ProcTypes'
         /\ session' \in [Entry -> Maybe(Instance)]
         /\ session'[e] = None
<1>1. session' = [d \in Entry |-> IF d \in {e} THEN None ELSE session[d]]
  BY DEF IInv, TypeOK
<1> QED
  BY <1>1, StopCalms

LEMMA ReapEffect ==
  ASSUME IInv, NEW p, NEW all \in BOOLEAN, ReapUnconfirmed(p, all), session' = session
  PROVE  /\ Calms /\ ProcTypes' /\ owner' = owner
         /\ all => \A i \in unconfirmed \cap InContainer(p) : proc'[i] # "running"
<1> DEFINE pending == unconfirmed \cap InContainer(p)
<1>1. PICK sure \in SUBSET pending :
        /\ all = (sure = pending)
        /\ proc' = [i \in Instance |-> IF i \in sure THEN "gone" ELSE proc[i]]
        /\ unconfirmed' = unconfirmed \ sure
        /\ UNCHANGED <<owner, conv, reading, history>>
  BY DEF ReapUnconfirmed
<1>2. pending \subseteq Instance
  BY DEF InContainer
<1>3. ProcTypes'
  BY <1>1, <1>2 DEF IInv, TypeOK, ProcTypes
<1>4. Calms
  BY <1>1 DEF Calms
<1>5. ASSUME all, NEW i \in pending PROVE proc'[i] # "running"
  BY <1>1, <1>2, <1>5
<1> QED
  BY <1>1, <1>3, <1>4, <1>5

-----------------------------------------------------------------------------
(* The steps of a command. First those that only move it on, or to its     *)
(* return, with start_serialize in hand.                                   *)
LEMMA GotoType ==
  ASSUME TypeOK, NEW r \in Request, NEW s \in Steps, Goto(r, s)
  PROVE  pc' \in [Request -> Steps] /\ pc'[r] = s /\ \A q \in Request \ {r} : pc'[q] = pc[q]
  BY DEF TypeOK, Goto

LEMMA ReturnGoes ==
  ASSUME TypeOK, NEW r \in Request, NEW res \in {"ok", "kept", "failed"}, Return(r, res)
  PROVE  Goto(r, "finish") /\ result' \in [Request -> {"none", "ok", "kept", "failed"}]
  BY DEF TypeOK, Return

LEMMA RefusedGoes ==
  ASSUME TypeOK, NEW r \in Request, Refused(r)
  PROVE  Goto(r, "finish") /\ result' \in [Request -> {"none", "ok", "kept", "failed"}]
  BY ReturnGoes DEF Refused, TypeOK

LEMMA Advance ==
  ASSUME IInv, NEW r \in Request,
         NEW s \in {"preflight", "auth", "claim", "swap", "spawn", "finish"}, Goto(r, s),
         pc[r] \in Serialized \ {"stopOld"},
         s = "spawn" =>
           /\ session[at[r]] = None
           /\ \A i \in Instance : owner'[i] = at[r] => proc'[i] # "running",
         Calms, ProcTypes',
         UNCHANGED <<registry, project, serial, session, job, at, refs, old, seen>>,
         slot' \in [Entry -> Maybe(Transcript)],
         recreated' \in [Request -> BOOLEAN],
         result' \in [Request -> {"none", "ok", "kept", "failed"}]
  PROVE  IInv'
<1>1. pc' \in [Request -> Steps] /\ pc'[r] = s /\ \A q \in Request \ {r} : pc'[q] = pc[q]
  BY GotoType DEF IInv, Steps
<1>2. TypeOK'
  BY <1>1 DEF IInv, TypeOK, ProcTypes
<1>3. Moves(r)
  BY <1>1 DEF Moves
<1>4. Sound(r)'
  BY <1>1 DEF IInv, AllSound, Sound, Placed, Serialized
<1>5. AllSound' /\ Live' /\ OneProcessPerEntry'
  BY <1>3, <1>4, CalmStep
<1> QED
  BY <1>2, <1>5, CalmReferred DEF IInv

LEMMA NothingMoves ==
  ASSUME IInv, UNCHANGED <<procVars, session>>
  PROVE  Calms /\ ProcTypes'
  BY DEF IInv, TypeOK, Calms, ProcTypes, procVars

LEMMA CheckFreeKeeps == ASSUME IInv, NEW r \in Request, CheckFree(r) PROVE IInv'
<1>1. Calms /\ ProcTypes'
  BY NothingMoves DEF CheckFree, entryVars
<1>2. \/ Goto(r, "preflight") /\ result' = result
      \/ Goto(r, "finish") /\ result' \in [Request -> {"none", "ok", "kept", "failed"}]
  BY ReturnGoes DEF CheckFree, IInv
<1> QED
  BY <1>1, <1>2, Advance DEF CheckFree, entryVars, IInv, TypeOK, Serialized

LEMMA PreflightKeeps == ASSUME IInv, NEW r \in Request, Preflight(r) PROVE IInv'
<1>1. /\ UNCHANGED <<entryVars, owner, conv, reading, unconfirmed, history, job, at, refs, old, seen>>
      /\ pc[r] = "preflight"
  BY DEF Preflight
<1>2. proc' = proc \/ proc' = [i \in Instance |->
                                 IF i \in InContainer(project[at[r]]) THEN "gone" ELSE proc[i]]
  BY DEF Preflight
<1>3. Calms
  BY <1>1, <1>2 DEF Calms, entryVars
<1>4. ProcTypes'
  BY <1>1, <1>2 DEF IInv, TypeOK, ProcTypes
<1>5. recreated' \in [Request -> BOOLEAN]
  BY DEF Preflight, IInv, TypeOK
<1>6. \/ Goto(r, "auth") /\ result' = result
      \/ Goto(r, "finish") /\ result' \in [Request -> {"none", "ok", "kept", "failed"}]
  BY ReturnGoes DEF Preflight, IInv
<1> QED
  BY <1>1, <1>3, <1>4, <1>5, <1>6, Advance DEF entryVars, IInv, TypeOK, Serialized

LEMMA AuthenticateKeeps == ASSUME IInv, NEW r \in Request, Authenticate(r) PROVE IInv'
<1>1. UNCHANGED <<entryVars, job, at, refs, old, recreated, seen>> /\ pc[r] = "auth"
  BY DEF Authenticate
<1>2. Calms /\ ProcTypes'
  BY <1>1, NothingMoves, ReapEffect DEF Authenticate, entryVars
<1>3. \/ Goto(r, "claim") /\ result' = result
      \/ Goto(r, "finish") /\ result' \in [Request -> {"none", "ok", "kept", "failed"}]
  BY RefusedGoes DEF Authenticate, IInv
<1> QED
  BY <1>1, <1>2, <1>3, Advance DEF entryVars, IInv, TypeOK, Serialized

LEMMA ClaimKeeps == ASSUME IInv, NEW r \in Request, Claim(r) PROVE IInv'
<1>1. UNCHANGED <<registry, project, serial, session, procVars, job, at, refs, old, recreated, seen>>
      /\ pc[r] = "claim"
  BY DEF Claim
<1>2. Calms /\ ProcTypes'
  BY <1>1, NothingMoves
<1>3. job[r].conv \in Maybe(Transcript)
  BY DEF IInv, TypeOK, Job
<1>4. slot' \in [Entry -> Maybe(Transcript)]
  BY <1>3 DEF Claim, IInv, TypeOK
<1>5. \/ Goto(r, "swap") /\ result' = result
      \/ Goto(r, "finish") /\ result' \in [Request -> {"none", "ok", "kept", "failed"}]
  BY RefusedGoes DEF Claim, IInv
<1> QED
  BY <1>1, <1>2, <1>4, <1>5, Advance DEF IInv, TypeOK, Serialized

LEMMA ReapKeeps == ASSUME IInv, NEW r \in Request, Reap(r) PROVE IInv'
<1>1. UNCHANGED <<entryVars, job, at, refs, old, recreated, seen>> /\ pc[r] = "reap"
  BY DEF Reap
<1>2. Calms /\ ProcTypes'
  BY <1>1, NothingMoves, ReapEffect DEF Reap, entryVars
<1>3. /\ at[r] \in Entry /\ serial[at[r]] = r /\ session[at[r]] = None
  BY <1>1 DEF IInv, AllSound, Sound, TypeOK, Placed, Serialized
<1>4. \/ Goto(r, "finish") /\ result' \in [Request -> {"none", "ok", "kept", "failed"}]
      \/ ReapUnconfirmed(project[at[r]], TRUE) /\ Goto(r, "spawn") /\ result' = result
  BY ReturnGoes DEF Reap, IInv
<1>5. ASSUME ReapUnconfirmed(project[at[r]], TRUE), NEW i \in Instance, owner'[i] = at[r]
      PROVE  proc'[i] # "running"
  <2>1. owner' = owner /\ \A j \in unconfirmed \cap InContainer(project[at[r]]) : proc'[j] # "running"
    BY <1>1, <1>5, ReapEffect DEF entryVars
  <2>2. i \in InContainer(project[at[r]])
    BY <1>3, <1>5, <2>1, Names DEF InContainer
  <2>3. SUFFICES ASSUME proc'[i] = "running" PROVE FALSE
    OBVIOUS
  <2>4. proc[i] = "running" /\ i \notin unconfirmed
    BY <1>2, <2>1, <2>2, <2>3 DEF Calms
  <2>5. \E q \in Request : pc[q] = "stopOld" /\ serial[owner[i]] = q
    BY <1>3, <1>5, <2>1, <2>4, Names DEF IInv, Live
  <2> QED
    BY <1>1, <1>3, <1>5, <2>1, <2>5
<1> QED
  BY <1>1, <1>2, <1>3, <1>4, <1>5, Advance DEF entryVars, IInv, TypeOK, Serialized

-----------------------------------------------------------------------------
(* The steps that change what a command refers to or holds.                *)
LEMMA Handled ==
  ASSUME IInv, NEW r \in Request, pc[r] # "stopOld",
         TypeOK', Moves(r), Calms, Sound(r)', Referred'
  PROVE  IInv'
  BY CalmStep DEF IInv

LEMMA StillReferred ==
  ASSUME IInv, Calms,
         \A d \in Registered :
           session'[d] = None \/ d \in Registered' \/ \E q \in Request : d \in refs'[q],
         \A q \in Request, d \in Entry : d \in refs[q] =>
           session'[d] = None \/ d \in Registered' \/ \E o \in Request : d \in refs'[o]
  PROVE  Referred'
  BY DEF IInv, Referred, Calms

LEMMA SubmitTypes ==
  ASSUME IInv, NEW r \in Request, UNCHANGED <<procVars, slot, serial, session, old, recreated, seen>>,
         job'[r] \in Job, job' = [job EXCEPT ![r] = job'[r]],
         registry' \in [Tab -> Maybe(Entry)], project' \in [Entry -> Maybe(Project)],
         at' \in [Request -> Maybe(Entry)], refs' \in [Request -> SUBSET Entry],
         result' \in [Request -> {"none", "ok", "kept", "failed"}],
         NEW s \in Steps, Goto(r, s)
  PROVE  TypeOK' /\ Calms
<1>1. Calms /\ ProcTypes'
  BY NothingMoves
<1>2. pc' \in [Request -> Steps]
  BY GotoType DEF IInv
<1>3. job' \in [Request -> Job]
  BY DEF IInv, TypeOK
<1> QED
  BY <1>1, <1>2, <1>3 DEF IInv, TypeOK, ProcTypes

LEMMA PrepareKeeps == ASSUME IInv, NEW r \in Request, Prepare(r) PROVE IInv'
<1>1. PICK t \in Tab, p \in Project, c \in history \cup {None} :
       LET e == registry[t] IN
       /\ job' = [job EXCEPT ![r] = [kind |-> "start", tab |-> t, conv |-> c]]
       /\ \/ /\ e = None /\ Cardinality(Registered) >= MaxTabs
             /\ Return(r, "kept")
             /\ UNCHANGED <<entryVars, at, refs>>
          \/ /\ e # None /\ project[e] = p
             /\ at' = [at EXCEPT ![r] = e]
             /\ refs' = [refs EXCEPT ![r] = {e}]
             /\ Goto(r, "serial")
             /\ UNCHANGED <<entryVars, result>>
          \/ /\ IF e = None THEN Cardinality(Registered) < MaxTabs
                            ELSE project[e] # p
             /\ registry' = [registry EXCEPT ![t] = r]
             /\ project' = [project EXCEPT ![r] = p]
             /\ at' = [at EXCEPT ![r] = r]
             /\ refs' = [refs EXCEPT ![r] = {r, e} \ {None}]
             /\ Goto(r, IF e = None THEN "serial" ELSE "replace")
             /\ UNCHANGED <<slot, serial, session, result>>
  BY DEF Prepare
<1> DEFINE e == registry[t]
<1>2. /\ pc[r] = "idle" /\ UNCHANGED <<procVars, old, recreated, seen>>
      /\ UNCHANGED <<slot, serial, session>>
  BY <1>1 DEF Prepare, entryVars
<1>3. e \in Maybe(Entry) /\ r \in Entry /\ r # None
  BY Names DEF IInv, TypeOK
<1>4. job'[r] \in Job /\ job'[r].tab = t /\ job' = [job EXCEPT ![r] = job'[r]]
  <2>1. [kind |-> "start", tab |-> t, conv |-> c] \in Job
    BY DEF IInv, TypeOK, Job, Maybe
  <2> QED
    BY <1>1, <2>1 DEF IInv, TypeOK
<1>5. CASE /\ Return(r, "kept") /\ UNCHANGED <<entryVars, at, refs>>
  <2>1. Goto(r, "finish") /\ result' \in [Request -> {"none", "ok", "kept", "failed"}]
    BY <1>5, ReturnGoes DEF IInv
  <2>2. pc'[r] = "finish" /\ \A q \in Request \ {r} : pc'[q] = pc[q]
    BY <2>1, GotoType DEF IInv, Steps
  <2>3. TypeOK' /\ Calms
    BY <1>2, <1>4, <1>5, <2>1, SubmitTypes DEF IInv, TypeOK, Steps, entryVars
  <2>4. Moves(r)
    BY <1>2, <1>4, <1>5, <2>2 DEF Moves, IInv, TypeOK
  <2>5. Sound(r)'
    BY <2>2 DEF Sound, Placed, Serialized
  <2>6. Referred'
    BY <1>5, <2>3, CalmReferred DEF entryVars
  <2> QED
    BY <1>2, <2>3, <2>4, <2>5, <2>6, Handled
<1>6. CASE /\ e # None /\ at' = [at EXCEPT ![r] = e] /\ refs' = [refs EXCEPT ![r] = {e}]
           /\ Goto(r, "serial") /\ UNCHANGED <<entryVars, result>>
  <2>1. at' \in [Request -> Maybe(Entry)] /\ refs' \in [Request -> SUBSET Entry]
    BY <1>3, <1>6 DEF IInv, TypeOK, Maybe
  <2>2. pc'[r] = "serial" /\ \A q \in Request \ {r} : pc'[q] = pc[q]
    BY <1>6, GotoType DEF IInv, Steps
  <2>3. TypeOK' /\ Calms
    BY <1>2, <1>4, <1>6, <2>1, SubmitTypes DEF IInv, TypeOK, Steps, entryVars
  <2>4. Moves(r)
    BY <1>2, <1>4, <1>6, <2>2 DEF Moves, IInv, TypeOK
  <2>5. at'[r] = e /\ refs'[r] = {e}
    BY <1>6 DEF IInv, TypeOK
  <2>6. Sound(r)'
    BY <1>4, <2>2, <2>5 DEF Sound, Placed, Serialized
  <2>7. Referred'
    <3>1. UNCHANGED registry /\ refs[r] = {}
      BY <1>2, <1>6 DEF entryVars, IInv, AllSound, Sound
    <3>2. \A q \in Request, d \in Entry : d \in refs[q] => d \in refs'[q]
      BY <2>4, <3>1 DEF Moves
    <3> QED
      BY <2>3, <3>1, <3>2, StillReferred DEF Registered
  <2> QED
    BY <1>2, <2>3, <2>4, <2>6, <2>7, Handled
<1>7. CASE /\ registry' = [registry EXCEPT ![t] = r]
           /\ project' = [project EXCEPT ![r] = p]
           /\ at' = [at EXCEPT ![r] = r]
           /\ refs' = [refs EXCEPT ![r] = {r, e} \ {None}]
           /\ Goto(r, IF e = None THEN "serial" ELSE "replace")
           /\ UNCHANGED <<slot, serial, session, result>>
  <2> DEFINE s == IF e = None THEN "serial" ELSE "replace"
  <2>1. /\ registry' \in [Tab -> Maybe(Entry)] /\ project' \in [Entry -> Maybe(Project)]
        /\ at' \in [Request -> Maybe(Entry)] /\ refs' \in [Request -> SUBSET Entry]
    BY <1>3, <1>7 DEF IInv, TypeOK, Maybe
  <2>2. /\ s \in Steps /\ s \in {"serial", "replace"}
        /\ pc'[r] = s /\ \A q \in Request \ {r} : pc'[q] = pc[q]
    BY <1>7, GotoType DEF IInv, Steps
  <2>3. TypeOK' /\ Calms
    BY <1>2, <1>4, <1>7, <2>1, <2>2, SubmitTypes DEF IInv, TypeOK, procVars
  <2>4. Moves(r)
    BY <1>2, <1>4, <1>7, <2>2 DEF Moves, IInv, TypeOK
  <2>5. at'[r] = r /\ refs'[r] = {r, e} \ {None}
    BY <1>7 DEF IInv, TypeOK
  <2>6. Sound(r)'
    BY <1>3, <1>4, <2>2, <2>5 DEF Sound, Placed, Serialized
  <2>7. Referred'
    <3>1. refs[r] = {}
      BY <1>2 DEF IInv, AllSound, Sound
    <3>2. \A q \in Request, d \in Entry : d \in refs[q] => d \in refs'[q]
      BY <2>4, <3>1 DEF Moves
    <3>3. ASSUME NEW d \in Registered PROVE d \in Registered' \/ d \in refs'[r]
      <4>1. PICK u \in Tab : d = registry[u] /\ d # None
        BY DEF Registered
      <4>2. CASE u = t
        BY <2>5, <4>1, <4>2
      <4>3. CASE u # t
        BY <1>7, <4>1, <4>3 DEF Registered, IInv, TypeOK
      <4> QED
        BY <4>2, <4>3
    <3> QED
      BY <2>3, <3>2, <3>3, StillReferred
  <2> QED
    BY <1>2, <2>3, <2>4, <2>6, <2>7, Handled
<1> QED
  BY <1>1, <1>5, <1>6, <1>7

(* retry_last_turn and close_chat_tab resolve an entry and refer to it.    *)
LEMMA ResolveKeeps ==
  ASSUME IInv, NEW r \in Request, pc[r] = "idle", NEW t \in Tab, NEW e \in Entry,
         NEW j \in Job, j.tab = t, job' = [job EXCEPT ![r] = j],
         at' = [at EXCEPT ![r] = e], refs' = [refs EXCEPT ![r] = {e}],
         Goto(r, "serial"),
         UNCHANGED <<entryVars, procVars, old, recreated, result, seen>>
  PROVE  IInv'
<1>1. at' \in [Request -> Maybe(Entry)] /\ refs' \in [Request -> SUBSET Entry]
  BY DEF IInv, TypeOK, Maybe
<1>2. pc'[r] = "serial" /\ \A q \in Request \ {r} : pc'[q] = pc[q]
  BY GotoType DEF IInv, Steps
<1>3. job'[r] = j /\ at'[r] = e /\ refs'[r] = {e} /\ refs[r] = {}
  BY DEF IInv, TypeOK, AllSound, Sound
<1>4. TypeOK' /\ Calms
  BY <1>1, <1>3, SubmitTypes DEF IInv, TypeOK, Steps, entryVars
<1>5. Moves(r)
  BY <1>2 DEF Moves, IInv, TypeOK, entryVars
<1>6. Sound(r)'
  BY <1>2, <1>3 DEF Sound, Placed, Serialized
<1>7. \A q \in Request, d \in Entry : d \in refs[q] => d \in refs'[q]
  BY <1>3, <1>5 DEF Moves
<1>8. Referred'
  BY <1>4, <1>7, StillReferred DEF Registered, entryVars
<1> QED
  BY <1>4, <1>5, <1>6, <1>8, Handled

LEMMA RetryCloseKeep == ASSUME IInv, NEW r \in Request, Retry(r) \/ Close(r) PROVE IInv'
<1>1. CASE Retry(r)
  <2>1. PICK t \in Tab :
       LET e == registry[t] IN
       /\ e # None /\ session[e] # None /\ conv[session[e]] # None
       /\ job' = [job EXCEPT ![r] = [kind |-> "retry", tab |-> t,
                                     conv |-> conv[session[e]]]]
       /\ at' = [at EXCEPT ![r] = e]
       /\ refs' = [refs EXCEPT ![r] = {e}]
    BY <1>1 DEF Retry
  <2>2. registry[t] \in Entry /\ session[registry[t]] \in Instance
    BY <2>1 DEF IInv, TypeOK, Maybe
  <2>3. [kind |-> "retry", tab |-> t, conv |-> conv[session[registry[t]]]] \in Job
    BY <2>2 DEF IInv, TypeOK, Job, Maybe
  <2> QED
    BY <1>1, <2>1, <2>2, <2>3, ResolveKeeps DEF Retry
<1>2. CASE Close(r)
  <2>1. PICK t \in Tab :
       /\ registry[t] # None
       /\ job' = [job EXCEPT ![r] = [kind |-> "close", tab |-> t, conv |-> None]]
       /\ at' = [at EXCEPT ![r] = registry[t]]
       /\ refs' = [refs EXCEPT ![r] = {registry[t]}]
    BY <1>2 DEF Close
  <2>2. registry[t] \in Entry
    BY <2>1 DEF IInv, TypeOK, Maybe
  <2>3. [kind |-> "close", tab |-> t, conv |-> None] \in Job
    BY DEF Job, Maybe
  <2> QED
    BY <1>2, <2>1, <2>2, <2>3, ResolveKeeps DEF Close
<1> QED
  BY <1>1, <1>2

LEMMA RegisteredType == ASSUME TypeOK PROVE Registered \in SUBSET Entry
  BY DEF TypeOK, Registered, Maybe

LEMMA ClearKeeps == ASSUME IInv, NEW r \in Request, Clear(r) PROVE IInv'
<1>1. /\ pc[r] = "idle"
      /\ job' = [job EXCEPT ![r] = [kind |-> "clear", tab |-> None, conv |-> None]]
      /\ refs' = [refs EXCEPT ![r] = Registered]
      /\ registry' = [t \in Tab |-> None]
      /\ Goto(r, "drain")
      /\ UNCHANGED <<project, slot, serial, session, procVars, at, old, recreated, result, seen>>
  BY DEF Clear
<1>2. refs' \in [Request -> SUBSET Entry] /\ refs'[r] = Registered /\ refs[r] = {}
  BY <1>1, RegisteredType DEF IInv, TypeOK, AllSound, Sound
<1>3. [kind |-> "clear", tab |-> None, conv |-> None] \in Job
  BY DEF Job, Maybe
<1>4. job'[r] \in Job /\ job' = [job EXCEPT ![r] = job'[r]]
  BY <1>1, <1>3 DEF IInv, TypeOK
<1>5. pc'[r] = "drain" /\ \A q \in Request \ {r} : pc'[q] = pc[q]
  BY <1>1, GotoType DEF IInv, Steps
<1>6. registry' \in [Tab -> Maybe(Entry)]
  BY <1>1 DEF Maybe
<1>7. TypeOK' /\ Calms
  BY <1>1, <1>2, <1>4, <1>6, SubmitTypes DEF IInv, TypeOK, Steps
<1>8. Moves(r)
  BY <1>1, <1>5 DEF Moves, IInv, TypeOK
<1>9. Sound(r)'
  BY <1>5 DEF Sound, Placed, Serialized
<1>10. \A q \in Request, d \in Entry : d \in refs[q] => d \in refs'[q]
  BY <1>2, <1>8 DEF Moves
<1>11. Referred'
  BY <1>2, <1>7, <1>10, StillReferred
<1> QED
  BY <1>1, <1>7, <1>8, <1>9, <1>11, Handled

-----------------------------------------------------------------------------
(* A command stops the sessions of entries E, keeps entries R of those it  *)
(* refers to, and goes to step s.                                          *)
Stops(r, E, R, s) ==
  /\ Stop(Sessions(E))
  /\ session' = [e \in Entry |-> IF e \in E THEN None ELSE session[e]]
  /\ Goto(r, s)
  /\ refs' = [refs EXCEPT ![r] = R]
  /\ UNCHANGED <<registry, project, slot, old>>
  /\ job'[r] \in Job /\ job' = [job EXCEPT ![r] = job'[r]]
  /\ at'[r] \in Maybe(Entry) /\ at' = [at EXCEPT ![r] = at'[r]]
  /\ serial' \in [Entry -> Maybe(Request)]
  /\ \A e \in Entry, q \in Request \ {r} : serial[e] = q => serial'[e] = q
  /\ recreated' \in [Request -> BOOLEAN]
  /\ result' \in [Request -> {"none", "ok", "kept", "failed"}]
  /\ seen' \in [Request -> Maybe(Instance)]
  /\ \A d \in refs[r] \ R : d \in E \/ d \in Registered \/ \E q \in Request \ {r} : d \in refs[q]
  /\ s = "serial" => at'[r] \in R /\ job'[r].tab \in Tab

LEMMA StopsKeep ==
  ASSUME IInv, NEW r \in Request, pc[r] # "stopOld",
         NEW E \in SUBSET Entry, NEW R \in SUBSET Entry,
         NEW s \in {"serial", "drain", "finish", "done"}, Stops(r, E, R, s)
  PROVE  IInv'
<1> USE DEF Stops
<1>0. s \in Steps
  BY DEF Steps
<1>1. /\ Calms /\ ProcTypes'
      /\ session' \in [Entry -> Maybe(Instance)]
      /\ \A e \in E : session'[e] = None
  BY StopCalms
<1>2. pc' \in [Request -> Steps] /\ pc'[r] = s /\ \A q \in Request \ {r} : pc'[q] = pc[q]
  BY <1>0, GotoType DEF IInv
<1>3. job' \in [Request -> Job] /\ at' \in [Request -> Maybe(Entry)]
  BY DEF IInv, TypeOK
<1>4. refs' \in [Request -> SUBSET Entry] /\ refs'[r] = R
  BY DEF IInv, TypeOK
<1>5. TypeOK'
  BY <1>1, <1>2, <1>3, <1>4 DEF IInv, TypeOK, ProcTypes
<1>6. Moves(r)
  BY <1>2 DEF Moves, IInv, TypeOK
<1>7. Sound(r)'
  BY <1>2, <1>4 DEF Sound, Placed, Serialized
<1>8. Referred'
  <2>1. Registered' = Registered
    BY DEF Registered
  <2>2. ASSUME NEW q \in Request, NEW d \in Entry, d \in refs[q]
        PROVE  session'[d] = None \/ d \in Registered' \/ \E o \in Request : d \in refs'[o]
    <3>1. CASE q # r
      BY <1>6, <2>2, <3>1 DEF Moves
    <3>2. CASE q = r
      BY <1>1, <1>4, <1>6, <2>1, <2>2, <3>2 DEF Moves
    <3> QED
      BY <3>1, <3>2
  <2> QED
    BY <1>1, <2>1, <2>2, StillReferred
<1> QED
  BY <1>1, <1>5, <1>6, <1>7, <1>8, Handled

LEMMA SameJob ==
  ASSUME TypeOK, NEW r \in Request
  PROVE  /\ job[r] \in Job /\ job = [job EXCEPT ![r] = job[r]]
         /\ at[r] \in Maybe(Entry) /\ at = [at EXCEPT ![r] = at[r]]
         /\ refs[r] \in SUBSET Entry
  BY DEF TypeOK

LEMMA StopReplacedKeeps == ASSUME IInv, NEW r \in Request, StopReplaced(r) PROVE IInv'
<1> DEFINE E == refs[r] \ {at[r]}
<1>1. /\ pc[r] = "replace" /\ Stop(Sessions(E))
      /\ session' = [e \in Entry |-> IF e \in E THEN None ELSE session[e]]
      /\ refs' = [refs EXCEPT ![r] = {at[r]}]
      /\ Goto(r, "serial")
      /\ UNCHANGED <<registry, project, slot, serial, job, at, old, recreated, result, seen>>
  BY DEF StopReplaced
<1>2. at[r] \in refs[r] /\ at[r] \in Entry /\ job[r].tab \in Tab /\ refs[r] \subseteq Entry
  BY <1>1, SameJob DEF IInv, AllSound, Sound, Placed
<1>3. E \in SUBSET Entry /\ {at[r]} \in SUBSET Entry
  BY <1>2
<1>4. /\ job'[r] \in Job /\ job' = [job EXCEPT ![r] = job'[r]]
      /\ at'[r] \in Maybe(Entry) /\ at' = [at EXCEPT ![r] = at'[r]]
  BY <1>1, SameJob DEF IInv
<1>5. /\ serial' \in [Entry -> Maybe(Request)]
      /\ recreated' \in [Request -> BOOLEAN]
      /\ result' \in [Request -> {"none", "ok", "kept", "failed"}]
      /\ seen' \in [Request -> Maybe(Instance)]
  BY <1>1 DEF IInv, TypeOK
<1> HIDE DEF E
<1>6. \A d \in refs[r] \ {at[r]} : d \in E \/ d \in Registered \/ \E q \in Request \ {r} : d \in refs[q]
  BY DEF E
<1>7. at'[r] \in {at[r]} /\ job'[r].tab \in Tab
  BY <1>1, <1>2
<1>8. Stops(r, E, {at[r]}, "serial")
  BY <1>1, <1>4, <1>5, <1>6, <1>7 DEF Stops
<1> QED
  BY <1>1, <1>3, <1>8, StopsKeep

LEMMA StopRemovedKeeps == ASSUME IInv, NEW r \in Request, StopRemoved(r) PROVE IInv'
<1>1. /\ pc[r] = "stopRemoved" /\ Stop(Sessions({at[r]}))
      /\ session' = [session EXCEPT ![at[r]] = None]
      /\ Return(r, "ok")
      /\ UNCHANGED <<registry, project, slot, serial, job, at, refs, old, recreated, seen>>
  BY DEF StopRemoved
<1>2. Goto(r, "finish") /\ result' \in [Request -> {"none", "ok", "kept", "failed"}]
  BY <1>1, ReturnGoes DEF IInv
<1>3. at[r] \in Entry /\ {at[r]} \in SUBSET Entry
  BY <1>1, SameJob DEF IInv, AllSound, Sound, Placed
<1>4. session' = [e \in Entry |-> IF e \in {at[r]} THEN None ELSE session[e]]
  BY <1>1 DEF IInv, TypeOK
<1>5. /\ job'[r] \in Job /\ job' = [job EXCEPT ![r] = job'[r]]
      /\ at'[r] \in Maybe(Entry) /\ at' = [at EXCEPT ![r] = at'[r]]
      /\ refs[r] \in SUBSET Entry
  BY <1>1, SameJob DEF IInv
<1>6. /\ serial' \in [Entry -> Maybe(Request)] /\ recreated' \in [Request -> BOOLEAN]
      /\ seen' \in [Request -> Maybe(Instance)] /\ refs' = [refs EXCEPT ![r] = refs[r]]
  BY <1>1 DEF IInv, TypeOK
<1>7. \A d \in refs[r] \ refs[r] : d \in {at[r]} \/ d \in Registered \/ \E q \in Request \ {r} : d \in refs[q]
  OBVIOUS
<1>8. \A e \in Entry, q \in Request \ {r} : serial[e] = q => serial'[e] = q
  BY <1>1
<1>9. Stops(r, {at[r]}, refs[r], "finish")
  BY <1>1, <1>2, <1>4, <1>5, <1>6, <1>7, <1>8 DEF Stops
<1> QED
  BY <1>1, <1>3, <1>5, <1>9, StopsKeep

LEMMA StopDrainedKeeps == ASSUME IInv, NEW r \in Request, StopDrained(r) PROVE IInv'
<1> DEFINE R == refs[r] \ {at[r]}
<1>1. /\ pc[r] = "stopDrained" /\ Stop(Sessions({at[r]}))
      /\ session' = [session EXCEPT ![at[r]] = None]
      /\ serial' = [serial EXCEPT ![at[r]] = None]
      /\ refs' = [refs EXCEPT ![r] = R]
      /\ Goto(r, "drain")
      /\ UNCHANGED <<registry, project, slot, job, at, old, recreated, result, seen>>
  BY DEF StopDrained
<1>2. at[r] \in Entry /\ serial[at[r]] = r /\ {at[r]} \in SUBSET Entry /\ R \in SUBSET Entry
  BY <1>1, SameJob DEF IInv, AllSound, Sound, Placed, Serialized
<1>3. session' = [e \in Entry |-> IF e \in {at[r]} THEN None ELSE session[e]]
  BY <1>1 DEF IInv, TypeOK
<1>4. /\ job'[r] \in Job /\ job' = [job EXCEPT ![r] = job'[r]]
      /\ at'[r] \in Maybe(Entry) /\ at' = [at EXCEPT ![r] = at'[r]]
  BY <1>1, SameJob DEF IInv
<1>5. /\ serial' \in [Entry -> Maybe(Request)] /\ recreated' \in [Request -> BOOLEAN]
      /\ seen' \in [Request -> Maybe(Instance)]
      /\ result' \in [Request -> {"none", "ok", "kept", "failed"}]
  BY <1>1 DEF IInv, TypeOK, Maybe
<1>6. \A d \in refs[r] \ R : d \in {at[r]} \/ d \in Registered \/ \E q \in Request \ {r} : d \in refs[q]
  OBVIOUS
<1>7. \A e \in Entry, q \in Request \ {r} : serial[e] = q => serial'[e] = q
  BY <1>1, <1>2 DEF IInv, TypeOK
<1> HIDE DEF R
<1>8. Stops(r, {at[r]}, R, "drain")
  BY <1>1, <1>3, <1>4, <1>5, <1>6, <1>7 DEF Stops
<1> QED
  BY <1>1, <1>2, <1>8, StopsKeep

LEMMA FinishKeeps == ASSUME IInv, NEW r \in Request, Finish(r) PROVE IInv'
<1> DEFINE shared == Registered \cup UNION {refs[q] : q \in Request \ {r}}
           E == refs[r] \ shared
<1>1. /\ pc[r] = "finish" /\ Stop(Sessions(E))
      /\ session' = [e \in Entry |-> IF e \in E THEN None ELSE session[e]]
      /\ serial' = [e \in Entry |-> IF serial[e] = r THEN None ELSE serial[e]]
      /\ refs' = [refs EXCEPT ![r] = {}]
      /\ job' = [job EXCEPT ![r] = NoJob]
      /\ at' = [at EXCEPT ![r] = None]
      /\ recreated' = [recreated EXCEPT ![r] = FALSE]
      /\ result' = [result EXCEPT ![r] = "none"]
      /\ seen' = [seen EXCEPT ![r] = None]
      /\ Goto(r, "done")
      /\ UNCHANGED <<registry, project, slot, old>>
  BY DEF Finish
<1>2. E \in SUBSET Entry /\ {} \in SUBSET Entry
  BY SameJob DEF IInv
<1>3. /\ job'[r] \in Job /\ job' = [job EXCEPT ![r] = job'[r]]
      /\ at'[r] \in Maybe(Entry) /\ at' = [at EXCEPT ![r] = at'[r]]
  BY <1>1 DEF IInv, TypeOK, NoJob, Job, Maybe
<1>4. serial' \in [Entry -> Maybe(Request)] /\ seen' \in [Request -> Maybe(Instance)]
  BY <1>1 DEF IInv, TypeOK, Maybe
<1>5. /\ recreated' \in [Request -> BOOLEAN]
      /\ result' \in [Request -> {"none", "ok", "kept", "failed"}]
  BY <1>1 DEF IInv, TypeOK
<1>6. \A d \in refs[r] \ {} : d \in E \/ d \in Registered \/ \E q \in Request \ {r} : d \in refs[q]
  OBVIOUS
<1>7. \A e \in Entry, q \in Request \ {r} : serial[e] = q => serial'[e] = q
  BY <1>1
<1> HIDE DEF E
<1>8. Stops(r, E, {}, "done")
  BY <1>1, <1>3, <1>4, <1>5, <1>6, <1>7 DEF Stops
<1> QED
  BY <1>1, <1>2, <1>8, StopsKeep

-----------------------------------------------------------------------------
(* The locks, the removal and the change of sessions.                      *)
LEMMA TakeSerialKeeps == ASSUME IInv, NEW r \in Request, TakeSerial(r) PROVE IInv'
<1> DEFINE s == CASE job[r].kind = "start" -> "check"
                  [] job[r].kind = "retry" -> "swap"
                  [] OTHER -> "remove"
<1>1. /\ pc[r] = "serial" /\ serial[at[r]] = None
      /\ serial' = [serial EXCEPT ![at[r]] = r]
      /\ seen' = [seen EXCEPT ![r] = session[at[r]]]
      /\ Goto(r, s)
      /\ UNCHANGED <<registry, project, slot, session, procVars, job, at, refs, old, recreated, result>>
  BY DEF TakeSerial
<1>2. s \in {"check", "swap", "remove"}
  OBVIOUS
<1> HIDE DEF s
<1>3. s \in Steps /\ pc'[r] = s /\ pc' \in [Request -> Steps] /\ \A q \in Request \ {r} : pc'[q] = pc[q]
  BY <1>1, <1>2, GotoType DEF IInv, Steps
<1>4. at[r] \in refs[r] /\ at[r] \in Entry /\ job[r].tab \in Tab
  BY <1>1, SameJob DEF IInv, AllSound, Sound, Placed
<1>5. Calms /\ ProcTypes'
  BY <1>1, NothingMoves
<1>6. serial' \in [Entry -> Maybe(Request)] /\ seen' \in [Request -> Maybe(Instance)] /\ serial'[at[r]] = r
  BY <1>1, <1>4 DEF IInv, TypeOK, Maybe
<1>7. TypeOK'
  BY <1>1, <1>3, <1>5, <1>6 DEF IInv, TypeOK, ProcTypes
<1>8. Moves(r)
  <2>1. \A e \in Entry, q \in Request \ {r} : serial[e] = q => serial'[e] = q
    BY <1>1, <1>4, Names DEF IInv, TypeOK
  <2> QED
    BY <1>1, <1>3, <2>1 DEF Moves
<1>9. Sound(r)'
  BY <1>1, <1>2, <1>3, <1>4, <1>6 DEF Sound, Placed, Serialized
<1>10. Referred'
  BY <1>1, <1>5, CalmReferred
<1> QED
  BY <1>1, <1>5, <1>7, <1>8, <1>9, <1>10, Handled

LEMMA TakeDrainedKeeps == ASSUME IInv, NEW r \in Request, TakeDrained(r) PROVE IInv'
<1>1. /\ pc[r] = "drain"
      /\ UNCHANGED <<registry, project, slot, session, procVars, job, refs, old, recreated, seen>>
  BY DEF TakeDrained
<1>2. Calms /\ ProcTypes'
  BY <1>1, NothingMoves
<1>3. Referred'
  BY <1>1, <1>2, CalmReferred
<1>4. CASE Return(r, "ok") /\ UNCHANGED <<serial, at>>
  <2>1. Goto(r, "finish") /\ result' \in [Request -> {"none", "ok", "kept", "failed"}]
    BY <1>4, ReturnGoes DEF IInv
  <2>2. pc'[r] = "finish" /\ pc' \in [Request -> Steps] /\ \A q \in Request \ {r} : pc'[q] = pc[q]
    BY <2>1, GotoType DEF IInv, Steps
  <2>3. TypeOK'
    BY <1>1, <1>2, <1>4, <2>1, <2>2 DEF IInv, TypeOK, ProcTypes
  <2>4. Moves(r) /\ Sound(r)'
    BY <1>1, <1>4, <2>2 DEF Moves, Sound, Placed, Serialized
  <2> QED
    BY <1>1, <1>2, <1>3, <2>3, <2>4, Handled
<1>5. ASSUME NEW e \in refs[r], serial[e] = None, serial' = [serial EXCEPT ![e] = r],
             at' = [at EXCEPT ![r] = e], Goto(r, "stopDrained"), result' = result
      PROVE  IInv'
  <2>1. pc'[r] = "stopDrained" /\ pc' \in [Request -> Steps] /\ \A q \in Request \ {r} : pc'[q] = pc[q]
    BY <1>5, GotoType DEF IInv, Steps
  <2>2. e \in Entry
    BY <1>5, SameJob DEF IInv
  <2>3. /\ serial' \in [Entry -> Maybe(Request)] /\ at' \in [Request -> Maybe(Entry)]
        /\ serial'[e] = r /\ at'[r] = e
    BY <1>5, <2>2 DEF IInv, TypeOK, Maybe
  <2>4. TypeOK'
    BY <1>1, <1>2, <1>5, <2>1, <2>3 DEF IInv, TypeOK, ProcTypes
  <2>5. \A d \in Entry, q \in Request \ {r} : serial[d] = q => serial'[d] = q
    BY <1>5, <2>2, Names DEF IInv, TypeOK
  <2>6. Moves(r)
    BY <1>1, <1>5, <2>1, <2>5 DEF Moves, IInv, TypeOK
  <2>7. Sound(r)'
    BY <1>1, <1>5, <2>1, <2>3 DEF Sound, Placed, Serialized
  <2> QED
    BY <1>1, <1>2, <1>3, <2>4, <2>6, <2>7, Handled
<1> QED
  BY <1>4, <1>5 DEF TakeDrained

LEMMA RemoveKeeps == ASSUME IInv, NEW r \in Request, Remove(r) PROVE IInv'
<1> DEFINE t == job[r].tab
           e == registry[t]
<1>1. /\ pc[r] = "remove"
      /\ UNCHANGED <<project, slot, serial, session, procVars, job, old, recreated, seen>>
  BY DEF Remove
<1>2. Calms /\ ProcTypes'
  BY <1>1, NothingMoves
<1>3. t \in Tab /\ e \in Maybe(Entry)
  BY <1>1 DEF IInv, AllSound, Sound, TypeOK
<1>4. CASE Return(r, "ok") /\ UNCHANGED <<registry, at, refs>>
  <2>1. Goto(r, "finish") /\ result' \in [Request -> {"none", "ok", "kept", "failed"}]
    BY <1>4, ReturnGoes DEF IInv
  <2>2. pc'[r] = "finish" /\ pc' \in [Request -> Steps] /\ \A q \in Request \ {r} : pc'[q] = pc[q]
    BY <2>1, GotoType DEF IInv, Steps
  <2>3. TypeOK'
    BY <1>1, <1>2, <1>4, <2>1, <2>2 DEF IInv, TypeOK, ProcTypes
  <2>4. Moves(r) /\ Sound(r)'
    BY <1>1, <1>4, <2>2 DEF Moves, Sound, Placed, Serialized
  <2> QED
    BY <1>1, <1>2, <1>4, <2>3, <2>4, CalmReferred, Handled
<1>5. CASE /\ e # None /\ registry' = [registry EXCEPT ![t] = None]
           /\ at' = [at EXCEPT ![r] = e]
           /\ refs' = [refs EXCEPT ![r] = refs[r] \cup {e}]
           /\ Goto(r, "stopRemoved") /\ result' = result
  <2>1. pc'[r] = "stopRemoved" /\ pc' \in [Request -> Steps] /\ \A q \in Request \ {r} : pc'[q] = pc[q]
    BY <1>5, GotoType DEF IInv, Steps
  <2>2. /\ e \in Entry /\ registry' \in [Tab -> Maybe(Entry)] /\ at' \in [Request -> Maybe(Entry)]
        /\ refs' \in [Request -> SUBSET Entry] /\ at'[r] = e /\ refs'[r] = refs[r] \cup {e}
    BY <1>3, <1>5 DEF IInv, TypeOK, Maybe
  <2>3. TypeOK'
    BY <1>1, <1>2, <1>5, <2>1, <2>2 DEF IInv, TypeOK, ProcTypes
  <2>4. Moves(r)
    BY <1>1, <1>5, <2>1 DEF Moves, IInv, TypeOK
  <2>5. Sound(r)'
    BY <2>1, <2>2 DEF Sound, Placed, Serialized
  <2>6. \A q \in Request, d \in Entry : d \in refs[q] => d \in refs'[q]
    BY <2>2, <2>4 DEF Moves
  <2>7. ASSUME NEW d \in Registered PROVE d \in Registered' \/ d \in refs'[r]
    <3>1. PICK u \in Tab : d = registry[u] /\ d # None
      BY DEF Registered
    <3>2. CASE u = t
      BY <2>2, <3>1, <3>2
    <3>3. CASE u # t
      BY <1>5, <3>1, <3>3 DEF Registered, IInv, TypeOK
    <3> QED
      BY <3>2, <3>3
  <2>8. Referred'
    BY <1>2, <2>6, <2>7, StillReferred
  <2> QED
    BY <1>1, <1>2, <2>3, <2>4, <2>5, <2>8, Handled
<1> QED
  BY <1>4, <1>5 DEF Remove

(* Two commands at steps that hold start_serialize are in two entries.     *)
LEMMA Alone ==
  ASSUME IInv, NEW r \in Request, NEW q \in Request, q # r,
         pc[r] \in Serialized, pc[q] \in Serialized
  PROVE  at[q] # at[r] /\ at[q] \in Entry /\ at[r] \in Entry
  BY SameJob DEF IInv, AllSound, Sound, Placed

LEMMA SwapKeeps == ASSUME IInv, NEW r \in Request, Swap(r) PROVE IInv'
<1>1. /\ pc[r] = "swap" /\ old' = [old EXCEPT ![r] = session[at[r]]]
      /\ session' = [session EXCEPT ![at[r]] = None]
      /\ Goto(r, "stopOld")
      /\ UNCHANGED <<registry, project, slot, serial, procVars, job, at, refs, recreated, result, seen>>
  BY DEF Swap
<1>2. at[r] \in refs[r] /\ at[r] \in Entry /\ serial[at[r]] = r
  BY <1>1, SameJob DEF IInv, AllSound, Sound, Placed, Serialized
<1>3. pc'[r] = "stopOld" /\ pc' \in [Request -> Steps] /\ \A q \in Request \ {r} : pc'[q] = pc[q]
  BY <1>1, GotoType DEF IInv, Steps
<1>4. /\ session' \in [Entry -> Maybe(Instance)] /\ old' \in [Request -> Maybe(Instance)]
      /\ session'[at[r]] = None /\ old'[r] = session[at[r]]
      /\ \A e \in Entry \ {at[r]} : session'[e] = session[e]
      /\ \A q \in Request \ {r} : old'[q] = old[q]
  BY <1>1, <1>2 DEF IInv, TypeOK, Maybe
<1>5. TypeOK'
  BY <1>1, <1>3, <1>4 DEF IInv, TypeOK, procVars
<1>6. UNCHANGED <<proc, owner, unconfirmed>>
  BY <1>1 DEF procVars
<1>7. AllSound'
  <2>1. Sound(r)'
    BY <1>1, <1>2, <1>3, <1>4 DEF Sound, Placed, Serialized
  <2>2. ASSUME NEW q \in Request, q # r PROVE Sound(q)'
    <3>1. pc'[q] = pc[q] /\ at'[q] = at[q] /\ refs'[q] = refs[q] /\ job'[q] = job[q] /\ serial' = serial
      BY <1>1, <1>3, <2>2
    <3>2. pc[q] \in {"stopOld", "reap", "spawn"} => session'[at[q]] = session[at[q]]
      BY <1>1, <1>4, <2>2, Alone DEF Serialized
    <3> QED
      BY <1>6, <3>1, <3>2 DEF IInv, AllSound, Sound
  <2> QED
    BY <2>1, <2>2 DEF AllSound
<1>8. Live'
  <2> SUFFICES ASSUME NEW i \in Instance, proc[i] = "running"
               PROVE  /\ owner[i] \in Entry
                      /\ \/ session'[owner[i]] = i
                         \/ i \in unconfirmed
                         \/ \E q \in Request :
                              pc'[q] = "stopOld" /\ old'[q] = i /\ serial[owner[i]] = q
    BY <1>1, <1>6 DEF Live
  <2>1. owner[i] \in Entry
    BY DEF IInv, Live
  <2>2. CASE session[owner[i]] = i
    BY <1>2, <1>3, <1>4, <2>1, <2>2
  <2>3. ASSUME NEW q \in Request, pc[q] = "stopOld", old[q] = i, serial[owner[i]] = q
        PROVE  pc'[q] = "stopOld" /\ old'[q] = i /\ serial[owner[i]] = q
    BY <1>1, <1>3, <1>4, <2>3
  <2> QED
    BY <2>1, <2>2, <2>3 DEF IInv, Live
<1>9. OneProcessPerEntry' /\ Referred'
  BY <1>1, <1>4, <1>6 DEF IInv, OneProcessPerEntry, Referred, Registered
<1> QED
  BY <1>5, <1>7, <1>8, <1>9 DEF IInv

LEMMA StopOldKeeps == ASSUME IInv, NEW r \in Request, StopOld(r) PROVE IInv'
<1>1. /\ pc[r] = "stopOld" /\ Stop({old[r]} \ {None})
      /\ old' = [old EXCEPT ![r] = None]
      /\ Goto(r, "reap")
      /\ UNCHANGED <<entryVars, job, at, refs, recreated, result, seen>>
  BY DEF StopOld
<1>2. TypeOK /\ {old[r]} \ {None} \in SUBSET Instance
  BY DEF IInv, TypeOK, Maybe
<1>3. /\ ProcTypes' /\ owner' = owner
      /\ \A i \in Instance : proc'[i] = "running" =>
           proc[i] = "running" /\ (i \in unconfirmed \cup ({old[r]} \ {None}) => i \in unconfirmed')
  BY <1>1, <1>2, StopEffect
<1>4. Calms
  BY <1>1, <1>3 DEF Calms, entryVars
<1>5. pc'[r] = "reap" /\ pc' \in [Request -> Steps] /\ \A q \in Request \ {r} : pc'[q] = pc[q]
  BY <1>1, GotoType DEF IInv, Steps
<1>6. TypeOK'
  BY <1>1, <1>3, <1>5 DEF IInv, TypeOK, ProcTypes, entryVars, Maybe
<1>7. Moves(r)
  BY <1>1, <1>5 DEF Moves, IInv, TypeOK, entryVars
<1>8. Sound(r)'
  BY <1>1, <1>5 DEF IInv, AllSound, Sound, Placed, Serialized, entryVars
<1>9. \A i \in Instance : i = old[r] /\ proc'[i] = "running" => i \in unconfirmed'
  BY <1>3, Names
<1>10. AllSound' /\ Live' /\ OneProcessPerEntry'
  BY <1>4, <1>7, <1>8, <1>9, CalmStep
<1>11. Referred'
  BY <1>1, <1>4, CalmReferred DEF entryVars
<1> QED
  BY <1>6, <1>10, <1>11 DEF IInv

LEMMA SpawnKeeps == ASSUME IInv, NEW r \in Request, Spawn(r) PROVE IInv'
<1>1. pc[r] = "spawn" /\ UNCHANGED <<registry, project, serial, job, at, refs, old, recreated, seen>>
  BY DEF Spawn
<1>2. CASE Return(r, "failed") /\ UNCHANGED <<slot, session, procVars>>
  <2>1. Goto(r, "finish") /\ result' \in [Request -> {"none", "ok", "kept", "failed"}]
    BY <1>2, ReturnGoes DEF IInv
  <2>2. Calms /\ ProcTypes'
    BY <1>2, NothingMoves
  <2> QED
    BY <1>1, <1>2, <2>1, <2>2, Advance DEF IInv, TypeOK, Serialized
<1>3. CASE /\ proc' = [proc EXCEPT ![r] = "running"]
           /\ owner' = [owner EXCEPT ![r] = at[r]]
           /\ conv' = [conv EXCEPT ![r] = job[r].conv]
           /\ reading' = reading \cup {r}
           /\ session' = [session EXCEPT ![at[r]] = r]
           /\ slot' = [slot EXCEPT ![at[r]] = job[r].conv]
           /\ Return(r, "ok")
           /\ UNCHANGED <<unconfirmed, history>>
  <2>1. Goto(r, "finish") /\ result' \in [Request -> {"none", "ok", "kept", "failed"}]
    BY <1>3, ReturnGoes DEF IInv
  <2>2. pc'[r] = "finish" /\ pc' \in [Request -> Steps] /\ \A q \in Request \ {r} : pc'[q] = pc[q]
    BY <2>1, GotoType DEF IInv, Steps
  <2>3. /\ at[r] \in refs[r] /\ at[r] \in Entry /\ session[at[r]] = None
        /\ \A i \in Instance : owner[i] = at[r] => proc[i] # "running"
    BY <1>1, SameJob DEF IInv, AllSound, Sound, Placed, Serialized
  <2>4. job[r].conv \in Maybe(Transcript) /\ r \in Instance
    BY Names DEF IInv, TypeOK, Job
  <2>5. TypeOK'
    <3>1. proc' \in [Instance -> {"unborn", "running", "gone"}] /\ owner' \in [Instance -> Maybe(Entry)]
      BY <1>3, <2>3 DEF IInv, TypeOK, Maybe
    <3>2. conv' \in [Instance -> Maybe(Transcript)] /\ reading' \in SUBSET Instance
      BY <1>3, <2>4 DEF IInv, TypeOK
    <3>3. session' \in [Entry -> Maybe(Instance)] /\ slot' \in [Entry -> Maybe(Transcript)]
      BY <1>3, <2>4 DEF IInv, TypeOK, Maybe
    <3> QED
      BY <1>1, <1>3, <2>1, <2>2, <3>1, <3>2, <3>3 DEF IInv, TypeOK
  <2>6. /\ proc'[r] = "running" /\ owner'[r] = at[r] /\ session'[at[r]] = r
        /\ \A i \in Instance \ {r} : proc'[i] = proc[i] /\ owner'[i] = owner[i]
        /\ \A e \in Entry \ {at[r]} : session'[e] = session[e]
    BY <1>3, <2>3, <2>4 DEF IInv, TypeOK
  <2>7. AllSound'
    <3>1. Sound(r)'
      BY <2>2 DEF Sound, Placed, Serialized
    <3>2. ASSUME NEW q \in Request, q # r PROVE Sound(q)'
      <4>1. pc'[q] = pc[q] /\ at'[q] = at[q] /\ refs'[q] = refs[q] /\ job'[q] = job[q] /\ serial' = serial
        BY <1>1, <2>2, <3>2
      <4>2. pc[q] \in {"stopOld", "reap", "spawn"} => at[q] # at[r] /\ at[q] \in Entry
        BY <1>1, <3>2, Alone DEF Serialized
      <4>3. pc'[q] \in {"stopOld", "reap", "spawn"} => session'[at'[q]] = None
        BY <2>6, <4>1, <4>2 DEF IInv, AllSound, Sound
      <4>4. pc'[q] = "spawn" => \A i \in Instance : owner'[i] = at'[q] => proc'[i] # "running"
        BY <2>6, <4>1, <4>2 DEF IInv, AllSound, Sound
      <4> QED
        BY <4>1, <4>3, <4>4 DEF IInv, AllSound, Sound
    <3> QED
      BY <3>1, <3>2 DEF AllSound
  <2>8. Live'
    <3> SUFFICES ASSUME NEW i \in Instance, proc'[i] = "running"
                 PROVE  /\ owner'[i] \in Entry
                        /\ \/ session'[owner'[i]] = i
                           \/ i \in unconfirmed'
                           \/ \E q \in Request :
                                pc'[q] = "stopOld" /\ old'[q] = i /\ serial'[owner'[i]] = q
      BY DEF Live
    <3>1. CASE i = r
      BY <2>3, <2>6, <3>1
    <3>2. CASE i # r
      <4>1. proc[i] = "running" /\ owner'[i] = owner[i] /\ owner[i] # at[r]
        BY <2>3, <2>6, <3>2
      <4>2. /\ owner[i] \in Entry
            /\ \/ session[owner[i]] = i
               \/ i \in unconfirmed
               \/ \E q \in Request : pc[q] = "stopOld" /\ old[q] = i /\ serial[owner[i]] = q
        BY <4>1 DEF IInv, Live
      <4>3. session'[owner[i]] = session[owner[i]]
        BY <2>6, <4>1, <4>2
      <4>4. \A q \in Request : pc[q] = "stopOld" => pc'[q] = "stopOld" /\ old'[q] = old[q]
        BY <1>1, <2>2
      <4> QED
        BY <1>1, <1>3, <4>1, <4>2, <4>3, <4>4
    <3> QED
      BY <3>1, <3>2
  <2>9. OneProcessPerEntry'
    <3> SUFFICES ASSUME NEW i \in Instance, NEW j \in Instance, proc'[i] = "running",
                        proc'[j] = "running", owner'[i] = owner'[j]
                 PROVE  i = j
      BY DEF OneProcessPerEntry
    <3>1. \A k \in Instance \ {r} : proc'[k] = "running" => owner'[k] # at[r]
      BY <2>3, <2>6
    <3>2. CASE i # r /\ j # r
      BY <2>6, <3>2 DEF IInv, OneProcessPerEntry
    <3> QED
      BY <2>6, <3>1, <3>2
  <2>10. Referred'
    BY <1>1, <2>3, <2>6 DEF IInv, Referred, Registered
  <2> QED
    BY <2>5, <2>7, <2>8, <2>9, <2>10 DEF IInv
<1> QED
  BY <1>2, <1>3 DEF Spawn

-----------------------------------------------------------------------------
(* The readers and the processes.                                          *)
LEMMA OutsideKeeps ==
  ASSUME IInv, NEW i \in Instance, ReaderRecords(i) \/ ReaderEnds(i) \/ Exit(i)
  PROVE  IInv'
<1>1. /\ UNCHANGED <<registry, project, serial, session, owner, unconfirmed, jobVars>>
      /\ \A j \in Instance : proc'[j] = "running" => proc[j] = "running"
  BY DEF ReaderRecords, ReaderEnds, Exit, entryVars, IInv, TypeOK
<1>2. TypeOK'
  <2>1. CASE ReaderRecords(i)
    <3>1. PICK c \in Transcript : /\ conv' = [conv EXCEPT ![i] = c]
                                  /\ history' = history \cup {c}
                                  /\ slot' = [slot EXCEPT ![owner[i]] = c]
      BY <2>1 DEF ReaderRecords
    <3>2. /\ conv' \in [Instance -> Maybe(Transcript)]
          /\ history' \in SUBSET Transcript
          /\ slot' \in [Entry -> Maybe(Transcript)]
      BY <3>1 DEF IInv, TypeOK, Maybe
    <3>3. UNCHANGED <<proc, reading>>
      BY <2>1 DEF ReaderRecords
    <3> QED
      BY <1>1, <3>2, <3>3 DEF IInv, TypeOK, jobVars
  <2>2. CASE ReaderEnds(i) \/ Exit(i)
    <3>1. /\ UNCHANGED <<conv, history, slot>>
          /\ proc' \in [Instance -> {"unborn", "running", "gone"}]
          /\ reading' \in SUBSET Instance
      BY <2>2 DEF ReaderEnds, Exit, entryVars, IInv, TypeOK
    <3> QED
      BY <1>1, <3>1 DEF IInv, TypeOK, jobVars
  <2> QED
    BY <2>1, <2>2
<1>3. AllSound'
  BY <1>1 DEF IInv, AllSound, Sound, jobVars
<1>4. Live' /\ OneProcessPerEntry' /\ Referred'
  BY <1>1 DEF IInv, Live, OneProcessPerEntry, Referred, Registered, jobVars
<1> QED
  BY <1>2, <1>3, <1>4 DEF IInv

LEMMA StepInvariant == IInv /\ [Next]_vars => IInv'
<1> SUFFICES ASSUME IInv, [Next]_vars PROVE IInv'
  OBVIOUS
<1>1. CASE UNCHANGED vars
  <2>1. TypeOK'
    BY <1>1 DEF vars, entryVars, procVars, jobVars, IInv, TypeOK
  <2>2. AllSound' /\ Live' /\ OneProcessPerEntry' /\ Referred'
    BY <1>1 DEF vars, entryVars, procVars, jobVars, IInv, AllSound, Sound, Live,
                OneProcessPerEntry, Referred, Registered
  <2> QED
    BY <2>1, <2>2 DEF IInv
<1>2. ASSUME NEW r \in Request, Submit(r) PROVE IInv'
  BY <1>2, PrepareKeeps, RetryCloseKeep, ClearKeeps DEF Submit
<1>3. ASSUME NEW r \in Request, Work(r) PROVE IInv'
  BY <1>3, StopReplacedKeeps, TakeSerialKeeps, CheckFreeKeeps, PreflightKeeps, AuthenticateKeeps,
     ClaimKeeps, SwapKeeps, StopOldKeeps, ReapKeeps, SpawnKeeps, RemoveKeeps, StopRemovedKeeps,
     TakeDrainedKeeps, StopDrainedKeeps, FinishKeeps DEF Work
<1> QED
  BY <1>1, <1>2, <1>3, OutsideKeeps DEF Next

LEMMA Invariance == Spec => []IInv
  BY InitInvariant, StepInvariant, PTL DEF Spec

-----------------------------------------------------------------------------
(* Type correctness of the registry, the processes and the commands.       *)
THEOREM TypeCorrect == Spec => []TypeOK
<1>1. IInv => TypeOK
  BY DEF IInv
<1> QED
  BY Invariance, <1>1, PTL

(* start_with_retry, stop, reap_unconfirmed: whatever the commands do to a *)
(* tab entry, two Claude Code processes of it never run at once.           *)
THEOREM NeverTwoProcesses == Spec => []OneProcessPerEntry
<1>1. IInv => OneProcessPerEntry
  BY DEF IInv
<1> QED
  BY Invariance, <1>1, PTL

(* ChatSession::stop and Drop, UNCONFIRMED: a running Claude Code process  *)
(* has an owner that can still stop it, or is recorded for the next reap.  *)
THEOREM NoProcessForgotten == Spec => []ProcessAccounted
<1>1. ASSUME IInv PROVE ProcessAccounted
  <2> SUFFICES ASSUME NEW i \in Instance, proc[i] = "running"
               PROVE  \/ i \in Sessions(Registered)
                      \/ \E r \in Request : i \in Sessions(refs[r])
                      \/ \E r \in Request : pc[r] = "stopOld" /\ old[r] = i
                      \/ i \in unconfirmed
    BY DEF ProcessAccounted
  <2>1. owner[i] \in Entry /\ i # None
    BY <1>1, Names DEF IInv, Live
  <2>2. CASE session[owner[i]] = i
    <3>1. owner[i] \in Registered \/ \E r \in Request : owner[i] \in refs[r]
      BY <1>1, <2>1, <2>2 DEF IInv, Referred
    <3> QED
      BY <2>1, <2>2, <3>1 DEF Sessions
  <2> QED
    BY <1>1, <2>2 DEF IInv, Live
<1> QED
  BY Invariance, <1>1, PTL

-----------------------------------------------------------------------------
(* What "kept" rests on.  A command that may still say so holds the        *)
(* serializer of its entry and refers to it; nobody else takes the session *)
(* out of an entry in that state unless the entry's tab was taken away.    *)
Waits(r) ==
  \/ pc[r] \in {"check", "preflight", "auth", "claim"}
  \/ pc[r] = "finish" /\ result[r] = "kept" /\ at[r] # None

Kept(r) ==
  Waits(r) => /\ at[r] \in refs[r]
              /\ serial[at[r]] = r
              /\ session[at[r]] = seen[r] \/ at[r] \notin Registered

(* Containers are recreated only on the way to a start, and a command that *)
(* did so never says "kept".                                               *)
Whole(r) ==
  /\ pc[r] \notin {"auth", "claim", "swap", "stopOld", "reap", "spawn", "finish"} => ~recreated[r]
  /\ (pc[r] = "finish" /\ result[r] = "kept") => ~recreated[r]

(* An entry that a command replaced or removed is out of the registry.     *)
Out(r) ==
  /\ pc[r] = "replace" => \A e \in refs[r] \ {at[r]} : e \notin Registered
  /\ pc[r] = "stopRemoved" => at[r] \notin Registered

(* The entry of a command that was not sent yet is nobody's.               *)
Fresh(r) ==
  pc[r] = "idle" => /\ r \notin Registered /\ at[r] = None
                    /\ \A q \in Request : at[q] # r /\ r \notin refs[q]

Distinct ==
  \A t, u \in Tab : (registry[t] = registry[u] /\ registry[t] # None) => t = u

KeptInv == Distinct /\ \A r \in Request : Kept(r) /\ Whole(r) /\ Out(r) /\ Fresh(r)

LEMMA KeptInit == Init => KeptInv
<1> SUFFICES ASSUME Init PROVE KeptInv
  OBVIOUS
<1>1. Registered = {} /\ Distinct
  BY DEF Init, Registered, Distinct
<1>2. ASSUME NEW r \in Request PROVE pc[r] = "idle" /\ at[r] = None /\ refs[r] = {}
  BY <1>2 DEF Init
<1>3. ASSUME NEW r \in Request PROVE ~recreated[r]
  BY <1>3 DEF Init
<1>4. ASSUME NEW r \in Request PROVE Kept(r) /\ Whole(r) /\ Out(r) /\ Fresh(r)
  BY <1>1, <1>2, <1>3, Names DEF Kept, Waits, Whole, Out, Fresh
<1> QED
  BY <1>1, <1>4 DEF KeptInv

(* A step of r that takes sessions only out of entries that left the       *)
(* registry, whose serializer r holds, or that nobody else refers to.      *)
LEMMA KeptStep ==
  ASSUME IInv, KeptInv, NEW r \in Request, Moves(r),
         \A q \in Request \ {r} :
           recreated'[q] = recreated[q] /\ result'[q] = result[q] /\ seen'[q] = seen[q],
         \A e \in Registered' : e \in Registered \/ (e = r /\ pc[r] = "idle"),
         pc'[r] # "idle",
         \A q \in Request \ {r} : pc[q] = "idle" => at'[r] # q /\ q \notin refs'[r],
         \A e \in Entry : \/ session'[e] = session[e]
                          \/ e \notin Registered'
                          \/ serial[e] = r
                          \/ \A q \in Request \ {r} : e \notin refs[q],
         Kept(r)', Whole(r)', Out(r)', Distinct'
  PROVE  KeptInv'
<1>1. ASSUME NEW q \in Request, q # r PROVE Kept(q)' /\ Whole(q)' /\ Out(q)' /\ Fresh(q)'
  <2>1. /\ pc'[q] = pc[q] /\ at'[q] = at[q] /\ refs'[q] = refs[q]
        /\ result'[q] = result[q] /\ recreated'[q] = recreated[q] /\ seen'[q] = seen[q]
    BY <1>1 DEF Moves
  <2>2. Kept(q) /\ Whole(q) /\ Out(q) /\ Fresh(q) /\ refs[q] \subseteq Entry
    BY DEF KeptInv, IInv, TypeOK
  <2>3. pc[r] = "idle" => at[q] # r /\ r \notin refs[q]
    BY DEF KeptInv, Fresh
  <2>4. Kept(q)'
    <3> SUFFICES ASSUME Waits(q)'
                 PROVE  /\ at'[q] \in refs'[q] /\ serial'[at'[q]] = q
                        /\ session'[at'[q]] = seen'[q] \/ at'[q] \notin Registered'
      BY DEF Kept
    <3>1. /\ at[q] \in refs[q] /\ at[q] \in Entry /\ serial[at[q]] = q
          /\ session[at[q]] = seen[q] \/ at[q] \notin Registered
      BY <2>1, <2>2 DEF Kept, Waits
    <3>2. serial'[at[q]] = q
      BY <1>1, <3>1 DEF Moves
    <3>3. session'[at[q]] = session[at[q]] \/ at[q] \notin Registered'
      BY <1>1, <3>1
    <3> QED
      BY <2>1, <2>3, <3>1, <3>2, <3>3
  <2>5. Whole(q)' /\ Out(q)'
    BY <2>1, <2>2, <2>3 DEF Whole, Out
  <2>6. Fresh(q)'
    <3>1. \A o \in Request \ {r} : at'[o] = at[o] /\ refs'[o] = refs[o]
      BY DEF Moves
    <3> QED
      BY <1>1, <2>1, <2>2, <3>1 DEF Fresh
  <2> QED
    BY <2>4, <2>5, <2>6
<1> QED
  BY <1>1 DEF KeptInv, Fresh

(* The frame of a step of r, in the variables that only "kept" looks at.   *)
Spares(r) ==
  \A q \in Request \ {r} :
    recreated'[q] = recreated[q] /\ result'[q] = result[q] /\ seen'[q] = seen[q]

LEMMA ReturnSets ==
  ASSUME TypeOK, NEW r \in Request, NEW res \in {"ok", "kept", "failed"}, Return(r, res)
  PROVE  /\ result'[r] = res /\ pc'[r] = "finish"
         /\ \A q \in Request \ {r} : result'[q] = result[q]
  BY DEF TypeOK, Return, Goto

LEMMA RefusedSets ==
  ASSUME TypeOK, NEW r \in Request, Refused(r)
  PROVE  /\ pc'[r] = "finish"
         /\ recreated[r] => result'[r] = "failed"
         /\ \A q \in Request \ {r} : result'[q] = result[q]
<1>1. CASE recreated[r]
  BY <1>1, ReturnSets DEF Refused
<1>2. CASE ~recreated[r]
  BY <1>2, ReturnSets DEF Refused
<1> QED
  BY <1>1, <1>2

(* The steps of a start that touch neither an entry's session nor its lock. *)
LEMMA KeptAdvance ==
  ASSUME IInv, KeptInv, NEW r \in Request,
         UNCHANGED <<registry, serial, session, job, at, refs, old, seen>>,
         NEW s \in {"preflight", "auth", "claim", "swap", "spawn", "finish", "reap"}, Goto(r, s),
         Spares(r), Waits(r) \/ ~Waits(r)', Whole(r)'
  PROVE  KeptInv'
<1>1. pc'[r] = s /\ \A q \in Request \ {r} : pc'[q] = pc[q]
  BY GotoType DEF IInv, Steps
<1>2. Moves(r)
  BY <1>1 DEF Moves
<1>3. Kept(r)' /\ Out(r)'
  BY <1>1 DEF KeptInv, Kept, Out, Registered
<1>4. Distinct' /\ Registered' = Registered
  BY DEF KeptInv, Distinct, Registered
<1>5. \A q \in Request \ {r} : pc[q] = "idle" => at'[r] # q /\ q \notin refs'[r]
  BY DEF KeptInv, Fresh
<1> QED
  BY <1>1, <1>2, <1>3, <1>4, <1>5, KeptStep DEF Spares

LEMMA KeptCheckFree == ASSUME IInv, KeptInv, NEW r \in Request, CheckFree(r) PROVE KeptInv'
<1>1. /\ pc[r] = "check" /\ UNCHANGED <<entryVars, procVars, job, at, refs, old, recreated, seen>>
      /\ ~recreated[r] /\ Waits(r)
  BY DEF CheckFree, KeptInv, Whole, Waits
<1>2. CASE Goto(r, "preflight") /\ UNCHANGED result
  <2>1. Whole(r)' /\ Spares(r)
    BY <1>1, <1>2 DEF Whole, Spares
  <2> QED
    BY <1>1, <1>2, <2>1, KeptAdvance DEF entryVars
<1>3. CASE Return(r, "kept")
  <2>1. Whole(r)' /\ Spares(r) /\ Goto(r, "finish")
    BY <1>1, <1>3, ReturnSets, ReturnGoes DEF Whole, Spares, IInv
  <2> QED
    BY <1>1, <2>1, KeptAdvance DEF entryVars
<1> QED
  BY <1>2, <1>3 DEF CheckFree

LEMMA KeptPreflight == ASSUME IInv, KeptInv, NEW r \in Request, Preflight(r) PROVE KeptInv'
<1>1. /\ pc[r] = "preflight" /\ UNCHANGED <<entryVars, job, at, refs, old, seen>>
      /\ ~recreated[r] /\ Waits(r)
  BY DEF Preflight, KeptInv, Whole, Waits
<1>2. CASE Return(r, "kept") /\ UNCHANGED recreated
  <2>1. Whole(r)' /\ Spares(r) /\ Goto(r, "finish")
    BY <1>1, <1>2, ReturnSets, ReturnGoes DEF Whole, Spares, IInv
  <2> QED
    BY <1>1, <2>1, KeptAdvance DEF entryVars
<1>3. CASE /\ Goto(r, "auth") /\ UNCHANGED result
           /\ recreated' = recreated \/ recreated' = [recreated EXCEPT ![r] = TRUE]
  <2>1. pc'[r] = "auth"
    BY <1>3, GotoType DEF IInv, Steps
  <2>2. \A q \in Request \ {r} : recreated'[q] = recreated[q]
    BY <1>3 DEF IInv, TypeOK
  <2>3. Whole(r)' /\ Spares(r)
    BY <1>1, <1>3, <2>1, <2>2 DEF Whole, Spares
  <2> QED
    BY <1>1, <1>3, <2>3, KeptAdvance DEF entryVars
<1> QED
  BY <1>2, <1>3 DEF Preflight

LEMMA KeptRefused ==
  ASSUME IInv, KeptInv, NEW r \in Request, Waits(r), Refused(r),
         UNCHANGED <<registry, serial, session, job, at, refs, old, recreated, seen>>
  PROVE  KeptInv'
<1>1. pc'[r] = "finish" /\ Spares(r) /\ Goto(r, "finish")
  BY RefusedSets, RefusedGoes DEF Spares, IInv
<1>2. Whole(r)'
  BY <1>1, RefusedSets DEF Whole, IInv
<1> QED
  BY <1>1, <1>2, KeptAdvance

LEMMA KeptAuthenticate == ASSUME IInv, KeptInv, NEW r \in Request, Authenticate(r) PROVE KeptInv'
<1>1. /\ pc[r] = "auth" /\ UNCHANGED <<entryVars, job, at, refs, old, recreated, seen>>
      /\ Waits(r)
  BY DEF Authenticate, Waits
<1>2. CASE Refused(r)
  BY <1>1, <1>2, KeptRefused DEF entryVars
<1>3. CASE Goto(r, "claim") /\ UNCHANGED result
  <2>1. pc'[r] = "claim"
    BY <1>3, GotoType DEF IInv, Steps
  <2>2. Whole(r)' /\ Spares(r)
    BY <1>1, <1>3, <2>1 DEF Whole, Spares
  <2> QED
    BY <1>1, <1>3, <2>2, KeptAdvance DEF entryVars
<1> QED
  BY <1>2, <1>3 DEF Authenticate

LEMMA KeptClaim == ASSUME IInv, KeptInv, NEW r \in Request, Claim(r) PROVE KeptInv'
<1>1. /\ pc[r] = "claim" /\ Waits(r)
      /\ UNCHANGED <<registry, serial, session, job, at, refs, old, recreated, seen>>
  BY DEF Claim, Waits
<1>2. CASE Refused(r)
  BY <1>1, <1>2, KeptRefused
<1>3. CASE Goto(r, "swap") /\ UNCHANGED result
  <2>1. pc'[r] = "swap"
    BY <1>3, GotoType DEF IInv, Steps
  <2>2. Whole(r)' /\ Spares(r)
    BY <1>1, <1>3, <2>1 DEF Whole, Spares
  <2> QED
    BY <1>1, <1>3, <2>2, KeptAdvance
<1> QED
  BY <1>2, <1>3 DEF Claim

LEMMA KeptReap == ASSUME IInv, KeptInv, NEW r \in Request, Reap(r) PROVE KeptInv'
<1>1. pc[r] = "reap" /\ UNCHANGED <<entryVars, job, at, refs, old, recreated, seen>>
  BY DEF Reap
<1>2. CASE Return(r, "failed")
  <2>1. Whole(r)' /\ Spares(r) /\ Goto(r, "finish") /\ ~Waits(r)'
    BY <1>1, <1>2, ReturnSets, ReturnGoes DEF Whole, Spares, Waits, IInv
  <2> QED
    BY <1>1, <2>1, KeptAdvance DEF entryVars
<1>3. CASE Goto(r, "spawn") /\ UNCHANGED result
  <2>1. pc'[r] = "spawn"
    BY <1>3, GotoType DEF IInv, Steps
  <2>2. Whole(r)' /\ Spares(r) /\ ~Waits(r)'
    BY <1>1, <1>3, <2>1 DEF Whole, Spares, Waits
  <2> QED
    BY <1>1, <1>3, <2>2, KeptAdvance DEF entryVars
<1> QED
  BY <1>2, <1>3 DEF Reap

(* A step of r that leaves the registry alone and refers to nothing new.   *)
LEMMA KeptWork ==
  ASSUME IInv, KeptInv, NEW r \in Request, UNCHANGED registry, Moves(r), Spares(r),
         pc'[r] # "idle", at'[r] \in refs[r] \cup {at[r], None}, refs'[r] \subseteq refs[r],
         \A e \in Entry : \/ session'[e] = session[e]
                          \/ e \notin Registered
                          \/ serial[e] = r
                          \/ \A q \in Request \ {r} : e \notin refs[q],
         Kept(r)', Whole(r)', Out(r)'
  PROVE  KeptInv'
<1>1. Distinct' /\ Registered' = Registered
  BY DEF KeptInv, Distinct, Registered
<1>2. \A q \in Request \ {r} : pc[q] = "idle" => at'[r] # q /\ q \notin refs'[r]
  BY Names DEF KeptInv, Fresh
<1> QED
  BY <1>1, <1>2, KeptStep DEF Spares

LEMMA KeptTakeSerial == ASSUME IInv, KeptInv, NEW r \in Request, TakeSerial(r) PROVE KeptInv'
<1>1. /\ pc[r] = "serial" /\ serial[at[r]] = None
      /\ serial' = [serial EXCEPT ![at[r]] = r]
      /\ seen' = [seen EXCEPT ![r] = session[at[r]]]
      /\ pc' = [pc EXCEPT ![r] = CASE job[r].kind = "start" -> "check"
                                   [] job[r].kind = "retry" -> "swap"
                                   [] OTHER -> "remove"]
      /\ UNCHANGED <<registry, session, job, at, refs, old, recreated, result>>
  BY DEF TakeSerial, Goto
<1>2. pc'[r] \in {"check", "swap", "remove"} /\ \A q \in Request \ {r} : pc'[q] = pc[q]
  BY <1>1 DEF IInv, TypeOK
<1>3. at[r] \in refs[r] /\ at[r] \in Entry /\ ~recreated[r]
  BY <1>1, SameJob DEF IInv, AllSound, Sound, Placed, KeptInv, Whole
<1>4. serial'[at[r]] = r /\ seen'[r] = session[at[r]]
  BY <1>1, <1>3 DEF IInv, TypeOK
<1>5. Moves(r)
  <2>1. \A e \in Entry, q \in Request \ {r} : serial[e] = q => serial'[e] = q
    BY <1>1, <1>3, Names DEF IInv, TypeOK
  <2> QED
    BY <1>1, <1>2, <2>1 DEF Moves
<1>6. Spares(r)
  BY <1>1 DEF Spares, IInv, TypeOK
<1>7. Kept(r)' /\ Whole(r)' /\ Out(r)'
  BY <1>1, <1>2, <1>3, <1>4 DEF Kept, Waits, Whole, Out
<1> QED
  BY <1>1, <1>2, <1>5, <1>6, <1>7, KeptWork

LEMMA KeptSwap == ASSUME IInv, KeptInv, NEW r \in Request, Swap(r) PROVE KeptInv'
<1>1. /\ pc[r] = "swap" /\ old' = [old EXCEPT ![r] = session[at[r]]]
      /\ session' = [session EXCEPT ![at[r]] = None] /\ Goto(r, "stopOld")
      /\ UNCHANGED <<registry, serial, job, at, refs, recreated, result, seen>>
  BY DEF Swap
<1>2. serial[at[r]] = r
  BY <1>1 DEF IInv, AllSound, Sound, Serialized
<1>3. pc'[r] = "stopOld" /\ \A q \in Request \ {r} : pc'[q] = pc[q]
  BY <1>1, GotoType DEF IInv, Steps
<1>4. Moves(r) /\ Spares(r)
  BY <1>1, <1>3 DEF Moves, Spares, IInv, TypeOK
<1>5. \A e \in Entry : session'[e] = session[e] \/ serial[e] = r
  BY <1>1, <1>2 DEF IInv, TypeOK
<1>6. Kept(r)' /\ Whole(r)' /\ Out(r)'
  BY <1>3 DEF Kept, Waits, Whole, Out
<1> QED
  BY <1>1, <1>3, <1>4, <1>5, <1>6, KeptWork

LEMMA KeptStopOld == ASSUME IInv, KeptInv, NEW r \in Request, StopOld(r) PROVE KeptInv'
<1>1. /\ pc[r] = "stopOld" /\ old' = [old EXCEPT ![r] = None] /\ Goto(r, "reap")
      /\ UNCHANGED <<entryVars, job, at, refs, recreated, result, seen>>
  BY DEF StopOld
<1>2. pc'[r] = "reap" /\ \A q \in Request \ {r} : pc'[q] = pc[q]
  BY <1>1, GotoType DEF IInv, Steps
<1>3. Moves(r) /\ Spares(r)
  BY <1>1, <1>2 DEF Moves, Spares, IInv, TypeOK, entryVars
<1>4. Kept(r)' /\ Whole(r)' /\ Out(r)'
  BY <1>2 DEF Kept, Waits, Whole, Out
<1> QED
  BY <1>1, <1>2, <1>3, <1>4, KeptWork DEF entryVars

LEMMA KeptSpawn == ASSUME IInv, KeptInv, NEW r \in Request, Spawn(r) PROVE KeptInv'
<1>1. /\ pc[r] = "spawn" /\ UNCHANGED <<registry, serial, job, at, refs, old, recreated, seen>>
      /\ session' = session \/ session' = [session EXCEPT ![at[r]] = r]
      /\ Return(r, "failed") \/ Return(r, "ok")
  BY DEF Spawn
<1>2. serial[at[r]] = r
  BY <1>1 DEF IInv, AllSound, Sound, Serialized
<1>3. /\ pc'[r] = "finish" /\ result'[r] # "kept" /\ \A q \in Request \ {r} : result'[q] = result[q]
      /\ \A q \in Request \ {r} : pc'[q] = pc[q]
  BY <1>1, ReturnSets, ReturnGoes, GotoType DEF IInv, Steps
<1>4. Moves(r) /\ Spares(r)
  BY <1>1, <1>3 DEF Moves, Spares
<1>5. \A e \in Entry : session'[e] = session[e] \/ serial[e] = r
  BY <1>1, <1>2 DEF IInv, TypeOK
<1>6. Kept(r)' /\ Whole(r)' /\ Out(r)'
  BY <1>3 DEF Kept, Waits, Whole, Out
<1> QED
  BY <1>1, <1>3, <1>4, <1>5, <1>6, KeptWork

LEMMA KeptStopReplaced == ASSUME IInv, KeptInv, NEW r \in Request, StopReplaced(r) PROVE KeptInv'
<1> DEFINE E == refs[r] \ {at[r]}
<1>1. /\ pc[r] = "replace" /\ Goto(r, "serial")
      /\ session' = [e \in Entry |-> IF e \in E THEN None ELSE session[e]]
      /\ refs' = [refs EXCEPT ![r] = {at[r]}]
      /\ UNCHANGED <<registry, serial, job, at, old, recreated, result, seen>>
  BY DEF StopReplaced
<1>2. at[r] \in refs[r] /\ refs'[r] = {at[r]}
  BY <1>1 DEF IInv, TypeOK, AllSound, Sound, Placed
<1>3. pc'[r] = "serial" /\ \A q \in Request \ {r} : pc'[q] = pc[q]
  BY <1>1, GotoType DEF IInv, Steps
<1>4. Moves(r) /\ Spares(r)
  BY <1>1, <1>3 DEF Moves, Spares, IInv, TypeOK
<1>5. \A e \in Entry : session'[e] = session[e] \/ e \notin Registered
  BY <1>1 DEF KeptInv, Out
<1>6. Kept(r)' /\ Whole(r)' /\ Out(r)'
  BY <1>1, <1>3 DEF Kept, Waits, Whole, Out, KeptInv
<1> QED
  BY <1>1, <1>2, <1>3, <1>4, <1>5, <1>6, KeptWork

LEMMA KeptStopRemoved == ASSUME IInv, KeptInv, NEW r \in Request, StopRemoved(r) PROVE KeptInv'
<1>1. /\ pc[r] = "stopRemoved" /\ Return(r, "ok")
      /\ session' = [session EXCEPT ![at[r]] = None]
      /\ UNCHANGED <<registry, serial, job, at, refs, old, recreated, seen>>
  BY DEF StopRemoved
<1>2. /\ pc'[r] = "finish" /\ result'[r] = "ok" /\ \A q \in Request \ {r} : result'[q] = result[q]
      /\ \A q \in Request \ {r} : pc'[q] = pc[q]
  BY <1>1, ReturnSets, ReturnGoes, GotoType DEF IInv, Steps
<1>3. Moves(r) /\ Spares(r)
  BY <1>1, <1>2 DEF Moves, Spares
<1>4. \A e \in Entry : session'[e] = session[e] \/ e \notin Registered
  BY <1>1 DEF KeptInv, Out, IInv, TypeOK
<1>5. Kept(r)' /\ Whole(r)' /\ Out(r)'
  BY <1>2 DEF Kept, Waits, Whole, Out
<1> QED
  BY <1>1, <1>2, <1>3, <1>4, <1>5, KeptWork

LEMMA KeptTakeDrained == ASSUME IInv, KeptInv, NEW r \in Request, TakeDrained(r) PROVE KeptInv'
<1>1. /\ pc[r] = "drain" /\ UNCHANGED <<registry, session, job, refs, old, recreated, seen>>
      /\ ~recreated[r]
  BY DEF TakeDrained, KeptInv, Whole
<1>2. CASE Return(r, "ok") /\ UNCHANGED <<serial, at>>
  <2>1. /\ pc'[r] = "finish" /\ result'[r] = "ok" /\ \A q \in Request \ {r} : result'[q] = result[q]
        /\ \A q \in Request \ {r} : pc'[q] = pc[q]
    BY <1>2, ReturnSets, ReturnGoes, GotoType DEF IInv, Steps
  <2>2. Moves(r) /\ Spares(r)
    BY <1>1, <1>2, <2>1 DEF Moves, Spares
  <2>3. Kept(r)' /\ Whole(r)' /\ Out(r)'
    BY <2>1 DEF Kept, Waits, Whole, Out
  <2> QED
    BY <1>1, <1>2, <2>1, <2>2, <2>3, KeptWork
<1>3. ASSUME NEW e \in refs[r], serial[e] = None, serial' = [serial EXCEPT ![e] = r],
             at' = [at EXCEPT ![r] = e], Goto(r, "stopDrained"), result' = result
      PROVE  KeptInv'
  <2>1. pc'[r] = "stopDrained" /\ \A q \in Request \ {r} : pc'[q] = pc[q]
    BY <1>3, GotoType DEF IInv, Steps
  <2>2. e \in Entry /\ at'[r] = e
    BY <1>3, SameJob DEF IInv, TypeOK
  <2>3. \A d \in Entry, q \in Request \ {r} : serial[d] = q => serial'[d] = q
    BY <1>3, <2>2, Names DEF IInv, TypeOK
  <2>4. Moves(r) /\ Spares(r)
    BY <1>1, <1>3, <2>1, <2>3 DEF Moves, Spares, IInv, TypeOK
  <2>5. Kept(r)' /\ Whole(r)' /\ Out(r)'
    BY <1>1, <2>1 DEF Kept, Waits, Whole, Out
  <2> QED
    BY <1>1, <2>1, <2>2, <2>4, <2>5, KeptWork
<1> QED
  BY <1>2, <1>3 DEF TakeDrained

LEMMA KeptStopDrained == ASSUME IInv, KeptInv, NEW r \in Request, StopDrained(r) PROVE KeptInv'
<1>1. /\ pc[r] = "stopDrained" /\ Goto(r, "drain")
      /\ session' = [session EXCEPT ![at[r]] = None]
      /\ serial' = [serial EXCEPT ![at[r]] = None]
      /\ refs' = [refs EXCEPT ![r] = @ \ {at[r]}]
      /\ UNCHANGED <<registry, job, at, old, recreated, result, seen>>
  BY DEF StopDrained
<1>2. serial[at[r]] = r /\ ~recreated[r]
  BY <1>1 DEF IInv, AllSound, Sound, Serialized, KeptInv, Whole
<1>3. pc'[r] = "drain" /\ \A q \in Request \ {r} : pc'[q] = pc[q]
  BY <1>1, GotoType DEF IInv, Steps
<1>4. \A e \in Entry, q \in Request \ {r} : serial[e] = q => serial'[e] = q
  BY <1>1, <1>2 DEF IInv, TypeOK
<1>5. Moves(r) /\ Spares(r) /\ refs'[r] \subseteq refs[r]
  BY <1>1, <1>3, <1>4 DEF Moves, Spares, IInv, TypeOK
<1>6. \A e \in Entry : session'[e] = session[e] \/ serial[e] = r
  BY <1>1, <1>2 DEF IInv, TypeOK
<1>7. Kept(r)' /\ Whole(r)' /\ Out(r)'
  BY <1>1, <1>2, <1>3 DEF Kept, Waits, Whole, Out
<1> QED
  BY <1>1, <1>3, <1>5, <1>6, <1>7, KeptWork

LEMMA KeptFinish == ASSUME IInv, KeptInv, NEW r \in Request, Finish(r) PROVE KeptInv'
<1> DEFINE E == refs[r] \ (Registered \cup UNION {refs[q] : q \in Request \ {r}})
<1>1. /\ pc[r] = "finish" /\ Goto(r, "done")
      /\ session' = [e \in Entry |-> IF e \in E THEN None ELSE session[e]]
      /\ serial' = [e \in Entry |-> IF serial[e] = r THEN None ELSE serial[e]]
      /\ refs' = [refs EXCEPT ![r] = {}]
      /\ job' = [job EXCEPT ![r] = NoJob]
      /\ at' = [at EXCEPT ![r] = None]
      /\ recreated' = [recreated EXCEPT ![r] = FALSE]
      /\ result' = [result EXCEPT ![r] = "none"]
      /\ seen' = [seen EXCEPT ![r] = None]
      /\ UNCHANGED <<registry, old>>
  BY DEF Finish
<1>2. pc'[r] = "done" /\ \A q \in Request \ {r} : pc'[q] = pc[q]
  BY <1>1, GotoType DEF IInv, Steps
<1>3. at'[r] = None /\ refs'[r] = {} /\ ~recreated'[r]
  BY <1>1 DEF IInv, TypeOK
<1>4. Moves(r) /\ Spares(r)
  BY <1>1, <1>2 DEF Moves, Spares, IInv, TypeOK
<1>5. \A e \in Entry : session'[e] = session[e] \/ e \notin Registered
  BY <1>1
<1>6. Kept(r)' /\ Whole(r)' /\ Out(r)'
  BY <1>2, <1>3 DEF Kept, Waits, Whole, Out
<1> QED
  BY <1>1, <1>2, <1>3, <1>4, <1>5, <1>6, KeptWork

LEMMA KeptRemove == ASSUME IInv, KeptInv, NEW r \in Request, Remove(r) PROVE KeptInv'
<1> DEFINE t == job[r].tab
           e == registry[t]
<1>1. /\ pc[r] = "remove" /\ UNCHANGED <<serial, session, job, old, recreated, seen>>
      /\ ~recreated[r]
  BY DEF Remove, KeptInv, Whole
<1>2. t \in Tab
  BY <1>1 DEF IInv, AllSound, Sound
<1>3. CASE Return(r, "ok") /\ UNCHANGED <<registry, at, refs>>
  <2>1. /\ pc'[r] = "finish" /\ result'[r] = "ok" /\ \A q \in Request \ {r} : result'[q] = result[q]
        /\ \A q \in Request \ {r} : pc'[q] = pc[q]
    BY <1>3, ReturnSets, ReturnGoes, GotoType DEF IInv, Steps
  <2>2. Moves(r) /\ Spares(r)
    BY <1>1, <1>3, <2>1 DEF Moves, Spares
  <2>3. Kept(r)' /\ Whole(r)' /\ Out(r)'
    BY <2>1 DEF Kept, Waits, Whole, Out
  <2> QED
    BY <1>1, <1>3, <2>1, <2>2, <2>3, KeptWork
<1>4. CASE /\ e # None /\ registry' = [registry EXCEPT ![t] = None]
           /\ at' = [at EXCEPT ![r] = e]
           /\ refs' = [refs EXCEPT ![r] = refs[r] \cup {e}]
           /\ Goto(r, "stopRemoved") /\ result' = result
  <2>1. pc'[r] = "stopRemoved" /\ \A q \in Request \ {r} : pc'[q] = pc[q]
    BY <1>4, GotoType DEF IInv, Steps
  <2>2. at'[r] = e /\ refs'[r] = refs[r] \cup {e} /\ e \in Registered
    BY <1>2, <1>4 DEF IInv, TypeOK, Registered
  <2>3. registry'[t] = None /\ \A u \in Tab \ {t} : registry'[u] = registry[u]
    BY <1>2, <1>4 DEF IInv, TypeOK
  <2>4. Registered' \subseteq Registered /\ Distinct'
    BY <2>3 DEF Registered, Distinct, KeptInv
  <2>5. e \notin Registered'
    BY <1>2, <1>4, <2>3 DEF Registered, KeptInv, Distinct
  <2>6. Moves(r) /\ Spares(r)
    BY <1>1, <1>4, <2>1 DEF Moves, Spares, IInv, TypeOK
  <2>7. Kept(r)' /\ Whole(r)' /\ Out(r)'
    BY <1>1, <2>1, <2>2, <2>5 DEF Kept, Waits, Whole, Out
  <2>8. \A q \in Request \ {r} : pc[q] = "idle" => at'[r] # q /\ q \notin refs'[r]
    BY <2>2 DEF KeptInv, Fresh
  <2> QED
    BY <1>1, <2>1, <2>4, <2>6, <2>7, <2>8, KeptStep DEF Spares
<1> QED
  BY <1>3, <1>4 DEF Remove

(* The commands as they are sent: they take no session out of an entry.    *)
LEMMA KeptSubmit ==
  ASSUME IInv, KeptInv, NEW r \in Request, pc[r] = "idle",
         NEW s \in {"replace", "serial", "drain"}, Goto(r, s),
         job' = [job EXCEPT ![r] = job'[r]], refs' = [refs EXCEPT ![r] = refs'[r]],
         at' = [at EXCEPT ![r] = at'[r]],
         UNCHANGED <<serial, session, old, recreated, result, seen>>,
         refs'[r] \cup {at'[r]} \subseteq Registered \cup {r, None},
         \A e \in Registered' : e \in Registered \/ e = r,
         s = "replace" => \A e \in refs'[r] \ {at'[r]} : e \notin Registered',
         Distinct'
  PROVE  KeptInv'
<1>1. pc'[r] = s /\ \A q \in Request \ {r} : pc'[q] = pc[q]
  BY GotoType DEF IInv, Steps
<1>2. ~recreated[r]
  BY DEF KeptInv, Whole
<1>3. Moves(r) /\ Spares(r)
  BY <1>1 DEF Moves, Spares, IInv, TypeOK
<1>4. Kept(r)' /\ Whole(r)' /\ Out(r)'
  BY <1>1, <1>2 DEF Kept, Waits, Whole, Out
<1>5. \A q \in Request \ {r} : pc[q] = "idle" => at'[r] # q /\ q \notin refs'[r]
  BY Names DEF KeptInv, Fresh
<1> QED
  BY <1>1, <1>3, <1>4, <1>5, KeptStep DEF Spares

LEMMA KeptPrepare == ASSUME IInv, KeptInv, NEW r \in Request, Prepare(r) PROVE KeptInv'
<1>1. PICK t \in Tab, p \in Project, c \in history \cup {None} :
       LET e == registry[t] IN
       /\ job' = [job EXCEPT ![r] = [kind |-> "start", tab |-> t, conv |-> c]]
       /\ \/ /\ e = None /\ Cardinality(Registered) >= MaxTabs
             /\ Return(r, "kept")
             /\ UNCHANGED <<entryVars, at, refs>>
          \/ /\ e # None /\ project[e] = p
             /\ at' = [at EXCEPT ![r] = e]
             /\ refs' = [refs EXCEPT ![r] = {e}]
             /\ Goto(r, "serial")
             /\ UNCHANGED <<entryVars, result>>
          \/ /\ IF e = None THEN Cardinality(Registered) < MaxTabs
                            ELSE project[e] # p
             /\ registry' = [registry EXCEPT ![t] = r]
             /\ project' = [project EXCEPT ![r] = p]
             /\ at' = [at EXCEPT ![r] = r]
             /\ refs' = [refs EXCEPT ![r] = {r, e} \ {None}]
             /\ Goto(r, IF e = None THEN "serial" ELSE "replace")
             /\ UNCHANGED <<slot, serial, session, result>>
  BY DEF Prepare
<1> DEFINE e == registry[t]
<1>2. /\ pc[r] = "idle" /\ UNCHANGED <<old, recreated, seen, serial, session>>
      /\ at[r] = None /\ r \notin Registered /\ ~recreated[r]
  BY <1>1 DEF Prepare, entryVars, KeptInv, Fresh, Whole
<1>3. /\ r # None /\ (e # None => e \in Registered)
      /\ job' = [job EXCEPT ![r] = job'[r]]
  BY <1>1, Names DEF Registered, IInv, TypeOK
<1>4. CASE Return(r, "kept") /\ UNCHANGED <<entryVars, at, refs>>
  <2>1. /\ pc'[r] = "finish" /\ \A q \in Request \ {r} : result'[q] = result[q]
        /\ \A q \in Request \ {r} : pc'[q] = pc[q]
    BY <1>4, ReturnSets, ReturnGoes, GotoType DEF IInv, Steps
  <2>2. Moves(r) /\ Spares(r)
    BY <1>1, <1>2, <1>4, <2>1 DEF Moves, Spares, IInv, TypeOK
  <2>3. Kept(r)' /\ Whole(r)' /\ Out(r)'
    BY <1>2, <1>4, <2>1 DEF Kept, Waits, Whole, Out
  <2> QED
    BY <1>2, <1>4, <2>1, <2>2, <2>3, KeptWork DEF entryVars
<1>5. CASE /\ e # None /\ at' = [at EXCEPT ![r] = e] /\ refs' = [refs EXCEPT ![r] = {e}]
           /\ Goto(r, "serial") /\ UNCHANGED <<entryVars, result>>
  <2>1. Registered' = Registered /\ Distinct'
    BY <1>5 DEF Registered, Distinct, KeptInv, entryVars
  <2>2. refs'[r] = {e} /\ at'[r] = e
    BY <1>5 DEF IInv, TypeOK
  <2>3. refs' = [refs EXCEPT ![r] = refs'[r]] /\ at' = [at EXCEPT ![r] = at'[r]]
    BY <1>5, <2>2
  <2>4. refs'[r] \cup {at'[r]} \subseteq Registered \cup {r, None}
    BY <1>3, <1>5, <2>2
  <2> QED
    BY <1>2, <1>3, <1>5, <2>1, <2>3, <2>4, KeptSubmit
<1>6. CASE /\ registry' = [registry EXCEPT ![t] = r]
           /\ at' = [at EXCEPT ![r] = r]
           /\ refs' = [refs EXCEPT ![r] = {r, e} \ {None}]
           /\ Goto(r, IF e = None THEN "serial" ELSE "replace")
           /\ UNCHANGED result
  <2> DEFINE s == IF e = None THEN "serial" ELSE "replace"
  <2>1. registry'[t] = r /\ \A u \in Tab \ {t} : registry'[u] = registry[u]
    BY <1>6 DEF IInv, TypeOK
  <2>2. \A d \in Registered' : d \in Registered \/ d = r
    BY <2>1 DEF Registered
  <2>3. Distinct'
    <3>1. \A u \in Tab : registry[u] # r
      BY <1>2, <1>3 DEF Registered
    <3> QED
      BY <2>1, <3>1 DEF Distinct, KeptInv
  <2>4. refs'[r] = {r, e} \ {None} /\ at'[r] = r
    BY <1>6 DEF IInv, TypeOK
  <2>5. refs' = [refs EXCEPT ![r] = refs'[r]] /\ at' = [at EXCEPT ![r] = at'[r]]
    BY <1>6, <2>4
  <2>6. refs'[r] \cup {at'[r]} \subseteq Registered \cup {r, None}
    BY <1>3, <2>4
  <2>7. \A d \in refs'[r] \ {at'[r]} : d \notin Registered'
    BY <1>2, <1>3, <2>1, <2>4 DEF Registered, Distinct, KeptInv
  <2>8. s \in {"replace", "serial", "drain"} /\ Goto(r, s)
    BY <1>6
  <2> HIDE DEF s
  <2> QED
    BY <1>2, <1>3, <1>6, <2>2, <2>3, <2>5, <2>6, <2>7, <2>8, KeptSubmit
<1> QED
  BY <1>1, <1>4, <1>5, <1>6

LEMMA KeptRetryClose == ASSUME IInv, KeptInv, NEW r \in Request, Retry(r) \/ Close(r) PROVE KeptInv'
<1>1. Registered' = Registered /\ Distinct'
  BY DEF Retry, Close, Registered, Distinct, KeptInv, entryVars
<1>2. PICK t \in Tab :
        /\ registry[t] # None
        /\ at' = [at EXCEPT ![r] = registry[t]]
        /\ refs' = [refs EXCEPT ![r] = {registry[t]}]
  BY DEF Retry, Close
<1>3. /\ pc[r] = "idle" /\ Goto(r, "serial")
      /\ UNCHANGED <<serial, session, old, recreated, result, seen>>
  BY DEF Retry, Close, entryVars
<1>4. at'[r] = registry[t] /\ refs'[r] = {registry[t]} /\ job' = [job EXCEPT ![r] = job'[r]]
  BY <1>2 DEF Retry, Close, IInv, TypeOK
<1>5. refs'[r] \cup {at'[r]} \subseteq Registered \cup {r, None}
  BY <1>2, <1>4 DEF Registered
<1>6. refs' = [refs EXCEPT ![r] = refs'[r]] /\ at' = [at EXCEPT ![r] = at'[r]]
  BY <1>2, <1>4
<1> QED
  BY <1>1, <1>3, <1>4, <1>5, <1>6, KeptSubmit

LEMMA KeptClear == ASSUME IInv, KeptInv, NEW r \in Request, Clear(r) PROVE KeptInv'
<1> DEFINE j == [kind |-> "clear", tab |-> None, conv |-> None]
<1>1. /\ pc[r] = "idle" /\ Goto(r, "drain") /\ job' = [job EXCEPT ![r] = j]
      /\ refs' = [refs EXCEPT ![r] = Registered] /\ registry' = [t \in Tab |-> None]
      /\ UNCHANGED <<serial, session, at, old, recreated, result, seen>>
  BY DEF Clear
<1>2. Registered' = {} /\ Distinct'
  BY <1>1 DEF Registered, Distinct
<1>3. /\ at' = [at EXCEPT ![r] = at'[r]] /\ at'[r] = None
      /\ refs'[r] = Registered /\ job'[r] = j
  BY <1>1 DEF IInv, TypeOK, KeptInv, Fresh
<1>4. refs' = [refs EXCEPT ![r] = refs'[r]] /\ job' = [job EXCEPT ![r] = job'[r]]
  BY <1>1, <1>3
<1> HIDE DEF j
<1> QED
  BY <1>1, <1>2, <1>3, <1>4, KeptSubmit

LEMMA KeptInvariant == IInv /\ KeptInv /\ [Next]_vars => KeptInv'
<1> SUFFICES ASSUME IInv, KeptInv, [Next]_vars PROVE KeptInv'
  OBVIOUS
<1>1. ASSUME UNCHANGED <<registry, serial, session, jobVars>> PROVE KeptInv'
  BY <1>1 DEF KeptInv, Distinct, Kept, Waits, Whole, Out, Fresh, Registered, jobVars
<1>2. CASE UNCHANGED vars
  BY <1>1, <1>2 DEF vars, entryVars
<1>3. ASSUME NEW r \in Request, Submit(r) PROVE KeptInv'
  BY <1>3, KeptPrepare, KeptRetryClose, KeptClear DEF Submit
<1>4. ASSUME NEW r \in Request, Work(r) PROVE KeptInv'
  BY <1>4, KeptStopReplaced, KeptTakeSerial, KeptCheckFree, KeptPreflight, KeptAuthenticate,
     KeptClaim, KeptSwap, KeptStopOld, KeptReap, KeptSpawn, KeptRemove, KeptStopRemoved,
     KeptTakeDrained, KeptStopDrained, KeptFinish DEF Work
<1>5. ASSUME NEW i \in Instance, ReaderRecords(i) \/ ReaderEnds(i) \/ Exit(i) PROVE KeptInv'
  BY <1>1, <1>5 DEF ReaderRecords, ReaderEnds, Exit, entryVars
<1> QED
  BY <1>2, <1>3, <1>4, <1>5 DEF Next

(* MSG_SESSION_KEPT: a refused start that says so left the session of its  *)
(* entry in place and its containers alone.                                *)
THEOREM KeptIsKept == Spec => []KeptMeansKept
<1>1. KeptInv => KeptMeansKept
  BY DEF KeptInv, KeptMeansKept, Kept, Whole, Waits
<1>2. Spec => []KeptInv
  BY Invariance, KeptInit, KeptInvariant, PTL DEF Spec
<1> QED
  BY <1>1, <1>2, PTL

-----------------------------------------------------------------------------
(* ADR-090's promise, one tab per transcript, and the steps that break it. *)

(* A start that has claimed its transcript and not yet taken the old       *)
(* session out.                                                            *)
Claiming(r) == pc[r] = "swap" /\ job[r].kind # "retry"

(* A reader writes the slot of an entry that holds another session by now, *)
(* or whose start has claimed another transcript.                          *)
Overwrites(i) ==
  ReaderRecords(i) /\ (session[owner[i]] # i \/ \E r \in Request : Claiming(r) /\ at[r] = owner[i])

(* A start claims for whatever entry its tab has by now, not for its own.  *)
Misclaims(r) == Claim(r) /\ registry[job[r].tab] \notin {at[r], None}

(* A retry goes back to a transcript that its entry claims no more.        *)
Unclaimed(r) == Swap(r) /\ job[r].kind = "retry" /\ slot[at[r]] # job[r].conv

Trespass ==
  \/ \E i \in Instance : Overwrites(i)
  \/ \E r \in Request : Misclaims(r) \/ Unclaimed(r)

(* The entry of a command is that of its tab, or of none.                  *)
Tied(r) ==
  /\ pc[r] \in {"check", "preflight", "auth", "claim"} => job[r].kind = "start" /\ job[r].tab \in Tab
  /\ pc[r] \in {"replace", "serial", "check", "preflight", "auth", "claim"} =>
       \A t \in Tab : registry[t] = at[r] => t = job[r].tab

(* From its claim to its spawn a command's entry claims its transcript.    *)
Claimed(r) ==
  (Claiming(r) \/ pc[r] \in {"stopOld", "reap", "spawn"}) /\ at[r] \in Registered =>
    slot[at[r]] = job[r].conv

(* A command that was not sent has claimed nothing, and one that has not   *)
(* spawned owns nothing.                                                   *)
Unsent(r) ==
  /\ pc[r] = "idle" => slot[r] = None
  /\ pc[r] \notin {"finish", "done"} => owner[r] = None

(* A session is of its entry; a reader reads for one.                      *)
Owned ==
  /\ \A e \in Entry : session[e] # None => owner[session[e]] = e
  /\ \A i \in reading : owner[i] \in Entry

(* Every transcript that is claimed, asked for or attached to exists.      *)
Known ==
  /\ \A e \in Entry : slot[e] \in history \cup {None}
  /\ \A r \in Request : job[r].conv \in history \cup {None}
  /\ \A i \in Instance : conv[i] \in history \cup {None}

(* A tab claims what its session is attached to, until a start takes that  *)
(* session out; and no two tabs claim one transcript.                      *)
Attached ==
  \A e \in Registered : session[e] # None =>
    conv[session[e]] = slot[e] \/ \E r \in Request : Claiming(r) /\ at[r] = e

Unique ==
  \A t, u \in Tab :
    (t # u /\ registry[t] # None /\ registry[u] # None /\ slot[registry[t]] # None)
      => slot[registry[t]] # slot[registry[u]]

ClaimInv ==
  /\ \A r \in Request : Tied(r) /\ Claimed(r) /\ Unsent(r)
  /\ Owned /\ Known /\ Attached /\ Unique

LEMMA ClaimInit == Init => ClaimInv
<1> SUFFICES ASSUME Init PROVE ClaimInv
  OBVIOUS
<1>1. \A r \in Request : Tied(r) /\ Claimed(r) /\ Unsent(r)
  BY DEF Init, Tied, Claimed, Claiming, Unsent, Entry, Instance
<1>2. Owned /\ Attached /\ Unique
  BY DEF Init, Owned, Attached, Unique, Registered
<1>3. Known
  BY DEF Init, Known, NoJob
<1> QED
  BY <1>1, <1>2, <1>3 DEF ClaimInv

(* The others stay where they are, and an entry that a step registers is   *)
(* new.                                                                    *)
Others(r) ==
  /\ \A q \in Request \ {r} : pc'[q] = pc[q] /\ at'[q] = at[q] /\ job'[q] = job[q]
  /\ pc'[r] # "idle"

Registers(r) ==
  \A t \in Tab : registry'[t] \in {registry[t], None} \/ (pc[r] = "idle" /\ registry'[t] = r)

(* An entry that a command was not sent for is empty.                      *)
LEMMA FreshEmpty ==
  ASSUME IInv, KeptInv, ClaimInv, NEW r \in Request, pc[r] = "idle"
  PROVE  /\ r \notin Registered /\ slot[r] = None /\ session[r] = None
         /\ \A q \in Request : at[q] # r
<1>1. r \notin Registered /\ \A q \in Request : at[q] # r /\ r \notin refs[q]
  BY DEF KeptInv, Fresh
<1> QED
  BY <1>1 DEF ClaimInv, Unsent, IInv, Referred, Entry

(* A step that writes no slot and attaches nothing.                        *)
LEMMA ClaimStep ==
  ASSUME IInv, KeptInv, ClaimInv, NEW r \in Request, Others(r), Registers(r), Distinct',
         UNCHANGED <<slot, conv, owner, history>>, reading' \subseteq reading,
         \A e \in Entry : session'[e] \in {session[e], None},
         Claiming(r) => \A e \in Entry : e = at[r] => session'[e] = None,
         job'[r].conv \in history \cup {None},
         Tied(r)', Claimed(r)', pc[r] \in {"finish", "done"} => pc'[r] \in {"finish", "done"}
  PROVE  ClaimInv'
<1>1. \A e \in Registered' : e \in Registered \/ (pc[r] = "idle" /\ e = r)
  BY DEF Registers, Registered
<1>2. \A e \in Registered' : e \in Entry
  BY <1>1, RegisteredType DEF IInv, Entry
<1>3. ASSUME NEW q \in Request, q # r PROVE Tied(q)' /\ Claimed(q)' /\ Unsent(q)'
  <2>1. pc'[q] = pc[q] /\ at'[q] = at[q] /\ job'[q] = job[q]
    BY <1>3 DEF Others
  <2>2. Tied(q) /\ Claimed(q) /\ Unsent(q)
    BY DEF ClaimInv
  <2>3. pc[r] = "idle" => at[q] # r
    BY FreshEmpty
  <2>4. pc[q] \in Placed => at[q] # None
    <3>1. pc[q] \in Placed => at[q] \in refs[q] /\ refs[q] \subseteq Request
      BY Names DEF IInv, AllSound, Sound, TypeOK
    <3> QED
      BY <3>1, Names
  <2>5. Tied(q)'
    <3> SUFFICES ASSUME pc[q] \in {"replace", "serial", "check", "preflight", "auth", "claim"},
                        NEW t \in Tab, registry'[t] = at[q]
                 PROVE  t = job[q].tab
      BY <2>1, <2>2 DEF Tied
    <3>1. at[q] # None
      BY <2>4 DEF Placed, Serialized
    <3>2. registry[t] = at[q]
      BY <2>3, <3>1 DEF Registers
    <3> QED
      BY <2>2, <3>2 DEF Tied
  <2>6. Claimed(q)'
    BY <1>1, <2>1, <2>2, <2>3 DEF Claimed, Claiming
  <2> QED
    BY <2>1, <2>2, <2>5, <2>6 DEF Unsent
<1>4. Unsent(r)'
  BY DEF Unsent, ClaimInv, Others
<1>5. Owned' /\ Known'
  <2>1. Owned'
    BY DEF ClaimInv, Owned
  <2>2. \A q \in Request : job'[q].conv \in history \cup {None}
    BY DEF ClaimInv, Known, Others
  <2> QED
    BY <2>1, <2>2 DEF ClaimInv, Known
<1>6. Attached'
  <2> SUFFICES ASSUME NEW e \in Registered', session'[e] # None
               PROVE  (conv[session[e]] = slot[e] /\ session'[e] = session[e])
                      \/ \E q \in Request : Claiming(q)' /\ at'[q] = e
    BY DEF Attached
  <2>1. e \in Entry /\ session'[e] = session[e]
    BY <1>2
  <2>2. e \in Registered
    BY <1>1, <2>1, FreshEmpty
  <2>3. CASE conv[session[e]] = slot[e]
    BY <2>1, <2>3
  <2>4. ASSUME NEW q \in Request, Claiming(q), at[q] = e PROVE Claiming(q)' /\ at'[q] = e
    BY <2>1, <2>4 DEF Others, Claiming
  <2>5. conv[session[e]] = slot[e] \/ \E q \in Request : Claiming(q) /\ at[q] = e
    BY <2>1, <2>2 DEF ClaimInv, Attached
  <2> QED
    BY <2>3, <2>4, <2>5
<1>7. Unique'
  <2> SUFFICES ASSUME NEW t \in Tab, NEW u \in Tab, t # u, registry'[t] # None, registry'[u] # None,
                      slot[registry'[t]] # None
               PROVE  slot[registry'[t]] # slot[registry'[u]]
    BY DEF Unique
  <2>1. registry'[t] = registry[t]
    BY FreshEmpty DEF Registers
  <2>2. registry'[u] = registry[u] \/ slot[registry'[u]] = None
    BY FreshEmpty DEF Registers
  <2> QED
    BY <2>1, <2>2 DEF ClaimInv, Unique
<1> QED
  BY <1>3, <1>4, <1>5, <1>6, <1>7 DEF ClaimInv

(* The steps of a command that keep its job and entry.                     *)
LEMMA ClaimAdvance ==
  ASSUME IInv, KeptInv, ClaimInv, NEW r \in Request, NEW s \in Steps \ {"idle"}, Goto(r, s),
         UNCHANGED <<registry, slot, job, at, conv, owner, history>>, reading' \subseteq reading,
         \A e \in Entry : session'[e] \in {session[e], None},
         Claiming(r) => \A e \in Entry : e = at[r] => session'[e] = None,
         Tied(r)', Claimed(r)', pc[r] \notin {"finish", "done"} \/ s = "done"
  PROVE  ClaimInv'
<1>1. pc'[r] = s /\ \A q \in Request \ {r} : pc'[q] = pc[q]
  BY GotoType DEF IInv
<1>2. Others(r) /\ Registers(r)
  BY <1>1 DEF Others, Registers
<1>3. Distinct'
  BY DEF KeptInv, Distinct
<1>4. job'[r].conv \in history \cup {None}
  BY DEF ClaimInv, Known
<1> QED
  BY <1>1, <1>2, <1>3, <1>4, ClaimStep

(* Steps that claim nothing and wait for no claim.                         *)
LEMMA NoClaim ==
  ASSUME NEW r \in Request, pc'[r] \in {"remove", "stopRemoved", "drain", "stopDrained", "finish", "done"}
  PROVE  Tied(r)' /\ Claimed(r)'
  BY DEF Tied, Claimed, Claiming

(* ... and those that go on towards the claim.                             *)
LEMMA StaysTied ==
  ASSUME ClaimInv, NEW r \in Request, UNCHANGED <<registry, job, at>>,
         \/ pc[r] = "replace" /\ pc'[r] = "serial"
         \/ pc[r] = "serial" /\ pc'[r] = "check" /\ job[r].kind = "start" /\ job[r].tab \in Tab
         \/ pc[r] \in {"check", "preflight", "auth"} /\ pc'[r] \in {"preflight", "auth", "claim"}
  PROVE  Tied(r)' /\ Claimed(r)'
  BY DEF ClaimInv, Tied, Claimed, Claiming

LEMMA StopLeaves ==
  ASSUME NEW I, Stop(I)
  PROVE  UNCHANGED <<owner, conv, history>> /\ reading' \subseteq reading
  BY DEF Stop

LEMMA ReapLeaves ==
  ASSUME NEW p, NEW all, ReapUnconfirmed(p, all)
  PROVE  UNCHANGED <<owner, conv, history, reading>>
  BY DEF ReapUnconfirmed

(* The session of an entry stays, or is dropped.                           *)
LEMMA SessionsDrop ==
  ASSUME TypeOK, NEW E,
         \/ session' = session
         \/ session' = [e \in Entry |-> IF e \in E THEN None ELSE session[e]]
         \/ \E e \in Entry : session' = [session EXCEPT ![e] = None]
  PROVE  \A e \in Entry : session'[e] \in {session[e], None}
  BY DEF TypeOK

LEMMA ClaimWaits ==
  ASSUME IInv, KeptInv, ClaimInv, NEW r \in Request,
         CheckFree(r) \/ Preflight(r) \/ Authenticate(r) \/ Reap(r)
  PROVE  ClaimInv'
<1>1. UNCHANGED <<registry, slot, session, job, at, conv, owner, history, reading>>
  BY ReapLeaves DEF CheckFree, Preflight, Authenticate, Reap, entryVars, procVars
<1>2. PICK s \in {"preflight", "auth", "claim", "spawn", "finish"} :
        /\ Goto(r, s) /\ pc[r] \in {"check", "preflight", "auth", "reap"}
        /\ s \in {"preflight", "auth", "claim"} => pc[r] \in {"check", "preflight", "auth"}
        /\ s = "spawn" => pc[r] = "reap"
  BY DEF CheckFree, Preflight, Authenticate, Reap, Return, Refused
<1>3. pc'[r] = s
  BY <1>2, GotoType DEF IInv, Steps
<1>4. ~Claiming(r)
  BY <1>2 DEF Claiming
<1>5. Tied(r)' /\ Claimed(r)'
  <2>1. CASE s \in {"preflight", "auth", "claim"}
    BY <1>1, <1>2, <1>3, <2>1, StaysTied
  <2>2. CASE s = "finish"
    BY <1>3, <2>2, NoClaim
  <2>3. CASE s = "spawn"
    BY <1>1, <1>2, <1>3, <2>3 DEF ClaimInv, Tied, Claimed, Claiming, Registered
  <2> QED
    BY <1>2, <2>1, <2>2, <2>3
<1> QED
  BY <1>1, <1>2, <1>4, <1>5, ClaimAdvance DEF Steps

LEMMA ClaimStops ==
  ASSUME IInv, KeptInv, ClaimInv, NEW r \in Request,
         StopReplaced(r) \/ StopRemoved(r) \/ StopOld(r)
  PROVE  ClaimInv'
<1>1. UNCHANGED <<registry, slot, job, at, conv, owner, history>> /\ reading' \subseteq reading
  BY StopLeaves DEF StopReplaced, StopRemoved, StopOld, entryVars
<1>2. PICK s \in {"serial", "finish", "reap"} :
        /\ Goto(r, s) /\ pc[r] \in {"replace", "stopRemoved", "stopOld"}
        /\ s = "serial" => pc[r] = "replace"
        /\ s = "reap" => pc[r] = "stopOld"
  BY DEF StopReplaced, StopRemoved, StopOld, Return
<1>3. pc'[r] = s /\ ~Claiming(r)
  BY <1>2, GotoType DEF IInv, Steps, Claiming
<1>4. \A e \in Entry : session'[e] \in {session[e], None}
  <2>1. CASE StopReplaced(r)
    BY <2>1, SessionsDrop DEF StopReplaced, IInv
  <2>2. CASE StopRemoved(r)
    BY <2>2 DEF StopRemoved, IInv, TypeOK
  <2>3. CASE StopOld(r)
    BY <2>3 DEF StopOld, entryVars
  <2> QED
    BY <2>1, <2>2, <2>3
<1>5. Tied(r)' /\ Claimed(r)'
  <2>1. CASE s = "serial"
    BY <1>1, <1>2, <1>3, <2>1, StaysTied
  <2>2. CASE s = "finish"
    BY <1>3, <2>2, NoClaim
  <2>3. CASE s = "reap"
    BY <1>1, <1>2, <1>3, <2>3 DEF ClaimInv, Tied, Claimed, Claiming, Registered
  <2> QED
    BY <1>2, <2>1, <2>2, <2>3
<1> QED
  BY <1>1, <1>2, <1>3, <1>4, <1>5, ClaimAdvance DEF Steps

LEMMA ClaimTakeSerial == ASSUME IInv, KeptInv, ClaimInv, NEW r \in Request, TakeSerial(r) PROVE ClaimInv'
<1>1. UNCHANGED <<registry, slot, session, job, at, conv, owner, history, reading>> /\ pc[r] = "serial"
  BY DEF TakeSerial, procVars
<1>2. PICK s \in {"check", "swap", "remove"} :
        /\ Goto(r, s) /\ (s = "check" => job[r].kind = "start") /\ (s = "swap" => job[r].kind = "retry")
        /\ job[r].tab \in Tab
  BY DEF TakeSerial, IInv, AllSound, Sound
<1>3. pc'[r] = s /\ ~Claiming(r)
  BY <1>1, <1>2, GotoType DEF IInv, Steps, Claiming
<1>4. Tied(r)' /\ Claimed(r)'
  <2>1. CASE s = "check"
    BY <1>1, <1>2, <1>3, <2>1, StaysTied
  <2>2. CASE s = "swap"
    BY <1>1, <1>2, <1>3, <2>2 DEF Tied, Claimed, Claiming
  <2>3. CASE s = "remove"
    BY <1>3, <2>3, NoClaim
  <2> QED
    BY <2>1, <2>2, <2>3
<1> QED
  BY <1>1, <1>2, <1>3, <1>4, ClaimAdvance DEF Steps

LEMMA ClaimSwap ==
  ASSUME IInv, KeptInv, ClaimInv, NEW r \in Request, Swap(r), ~Unclaimed(r)
  PROVE  ClaimInv'
<1>1. /\ UNCHANGED <<registry, slot, job, at, conv, owner, history, reading>>
      /\ pc[r] = "swap" /\ Goto(r, "stopOld") /\ session' = [session EXCEPT ![at[r]] = None]
  BY DEF Swap, procVars
<1>2. pc'[r] = "stopOld"
  BY <1>1, GotoType DEF IInv, Steps
<1>3. \A e \in Entry : session'[e] \in {session[e], None} /\ (e = at[r] => session'[e] = None)
  BY <1>1 DEF IInv, TypeOK
<1>4. Claimed(r)'
  BY <1>1, <1>2 DEF ClaimInv, Claimed, Claiming, Unclaimed, Registered
<1>5. Tied(r)'
  BY <1>2 DEF Tied
<1> QED
  BY <1>1, <1>3, <1>4, <1>5, ClaimAdvance DEF Steps

LEMMA ClaimRemove == ASSUME IInv, KeptInv, ClaimInv, NEW r \in Request, Remove(r) PROVE ClaimInv'
<1>1. /\ UNCHANGED <<slot, session, job, conv, owner, history, reading>> /\ pc[r] = "remove"
      /\ \/ registry' = registry /\ at' = at
         \/ \E e \in Entry : /\ registry' = [registry EXCEPT ![job[r].tab] = None]
                             /\ at' = [at EXCEPT ![r] = e]
  BY DEF Remove, procVars, IInv, TypeOK, Maybe, AllSound, Sound
<1>2. PICK s \in {"finish", "stopRemoved"} : Goto(r, s)
  BY DEF Remove, Return
<1>3. pc'[r] = s /\ \A q \in Request \ {r} : pc'[q] = pc[q]
  BY <1>2, GotoType DEF IInv, Steps
<1>4. Others(r)
  BY <1>1, <1>3 DEF Others, IInv, TypeOK
<1>5. Registers(r)
  BY <1>1 DEF Registers, IInv, TypeOK
<1>6. Distinct'
  BY <1>5, <1>1 DEF Registers, Distinct, KeptInv
<1>7. job'[r].conv \in history \cup {None} /\ ~Claiming(r)
  BY <1>1 DEF ClaimInv, Known, Claiming
<1>8. Tied(r)' /\ Claimed(r)'
  BY <1>3, NoClaim
<1> QED
  BY <1>1, <1>4, <1>5, <1>6, <1>7, <1>8, ClaimStep

LEMMA ClaimDrains ==
  ASSUME IInv, KeptInv, ClaimInv, NEW r \in Request, TakeDrained(r) \/ StopDrained(r) \/ Finish(r)
  PROVE  ClaimInv'
<1>1. UNCHANGED <<registry, slot, conv, owner, history>> /\ reading' \subseteq reading
  BY StopLeaves DEF TakeDrained, StopDrained, Finish, procVars
<1>2. PICK s \in {"finish", "stopDrained", "drain", "done"} :
        /\ Goto(r, s) /\ pc[r] \in {"drain", "stopDrained", "finish"}
        /\ pc[r] = "finish" => s = "done"
  BY DEF TakeDrained, StopDrained, Finish, Return
<1>3. pc'[r] = s /\ \A q \in Request \ {r} : pc'[q] = pc[q]
  BY <1>2, GotoType DEF IInv, Steps
<1>4. Others(r)
  BY <1>2, <1>3 DEF Others, TakeDrained, StopDrained, Finish, IInv, TypeOK
<1>5. Registers(r) /\ Distinct' /\ ~Claiming(r)
  BY <1>1, <1>2 DEF Registers, Distinct, KeptInv, Claiming
<1>6. job'[r].conv \in history \cup {None}
  <2>1. job' = job \/ job'[r] = NoJob
    BY DEF TakeDrained, StopDrained, Finish, IInv, TypeOK
  <2> QED
    BY <2>1 DEF ClaimInv, Known, NoJob
<1>7. \A e \in Entry : session'[e] \in {session[e], None}
  <2>1. CASE TakeDrained(r)
    BY <2>1 DEF TakeDrained
  <2>2. CASE StopDrained(r)
    BY <2>2 DEF StopDrained, IInv, TypeOK
  <2>3. CASE Finish(r)
    <3>1. PICK E : session' = [e \in Entry |-> IF e \in E THEN None ELSE session[e]]
      BY <2>3 DEF Finish
    <3> QED
      BY <3>1, SessionsDrop DEF IInv
  <2> QED
    BY <2>1, <2>2, <2>3
<1>8. Tied(r)' /\ Claimed(r)'
  BY <1>3, NoClaim
<1> QED
  BY <1>1, <1>2, <1>3, <1>4, <1>5, <1>6, <1>7, <1>8, ClaimStep

LEMMA ClaimSubmit == ASSUME IInv, KeptInv, ClaimInv, NEW r \in Request, Submit(r) PROVE ClaimInv'
<1>1. /\ pc[r] = "idle" /\ UNCHANGED <<slot, session, conv, owner, history, reading>>
  BY DEF Submit, Prepare, Retry, Close, Clear, entryVars, procVars
<1>2. PICK s \in {"finish", "serial", "replace", "drain"} : Goto(r, s)
  BY DEF Submit, Prepare, Retry, Close, Clear, Return
<1>3. pc'[r] = s /\ \A q \in Request \ {r} : pc'[q] = pc[q]
  BY <1>2, GotoType DEF IInv, Steps
<1>4. Others(r)
  BY <1>3 DEF Others, Submit, Prepare, Retry, Close, Clear, IInv, TypeOK
<1>5. Distinct'
  <2>1. KeptInv'
    BY KeptPrepare, KeptRetryClose, KeptClear DEF Submit
  <2> QED
    BY <2>1 DEF KeptInv
<1>6. Registers(r)
  BY <1>1 DEF Registers, Submit, Prepare, Retry, Close, Clear, entryVars, IInv, TypeOK
<1>7. job'[r].conv \in history \cup {None}
  <2>1. CASE Prepare(r)
    BY <2>1 DEF Prepare, IInv, TypeOK
  <2>2. CASE Retry(r)
    <3>1. PICK t \in Tab : /\ registry[t] # None /\ session[registry[t]] # None
                           /\ job'[r].conv = conv[session[registry[t]]]
      BY <2>2 DEF Retry, IInv, TypeOK
    <3>2. session[registry[t]] \in Instance
      BY <3>1 DEF IInv, TypeOK, Maybe
    <3> QED
      BY <3>1, <3>2 DEF ClaimInv, Known
  <2>3. CASE Close(r) \/ Clear(r)
    BY <2>3 DEF Close, Clear, IInv, TypeOK
  <2> QED
    BY <2>1, <2>2, <2>3 DEF Submit
<1>8. s \in {"serial", "replace"} => \A t \in Tab : registry'[t] = at'[r] => t = job'[r].tab
  <2> SUFFICES ASSUME s \in {"serial", "replace"}
               PROVE  \E t \in Tab : registry'[t] = at'[r] /\ at'[r] # None /\ t = job'[r].tab
    BY <1>5 DEF Distinct
  <2>1. pc'[r] \in {"serial", "replace"}
    BY <1>3
  <2>2. CASE Prepare(r)
    <3>1. PICK t \in Tab, p \in Project, c \in history \cup {None} :
            /\ job' = [job EXCEPT ![r] = [kind |-> "start", tab |-> t, conv |-> c]]
            /\ \/ Return(r, "kept")
               \/ registry[t] # None /\ at' = [at EXCEPT ![r] = registry[t]] /\ registry' = registry
               \/ registry' = [registry EXCEPT ![t] = r] /\ at' = [at EXCEPT ![r] = r]
      BY <2>2 DEF Prepare, entryVars
    <3>2. ~Return(r, "kept")
      BY <2>1, ReturnSets DEF IInv
    <3>3. job'[r].tab = t
      BY <3>1 DEF IInv, TypeOK
    <3>4. registry'[t] = at'[r] /\ at'[r] # None
      BY <3>1, <3>2, Names DEF IInv, TypeOK
    <3> QED
      BY <3>3, <3>4
  <2>3. CASE Retry(r) \/ Close(r)
    BY <2>3 DEF Retry, Close, entryVars, IInv, TypeOK
  <2>4. CASE Clear(r)
    BY <2>1, <2>4, GotoType DEF Clear, IInv, Steps
  <2> QED
    BY <2>2, <2>3, <2>4 DEF Submit
<1>9. Tied(r)' /\ Claimed(r)' /\ ~Claiming(r)
  BY <1>1, <1>3, <1>8 DEF Tied, Claimed, Claiming
<1> QED
  BY <1>1, <1>3, <1>4, <1>5, <1>6, <1>7, <1>9, ClaimStep

(* The claim: checked and written in one step, so that it is of one tab.   *)
LEMMA ClaimClaim ==
  ASSUME IInv, KeptInv, ClaimInv, NEW r \in Request, Claim(r), ~Misclaims(r)
  PROVE  ClaimInv'
<1> DEFINE t == job[r].tab
           c == job[r].conv
           e == at[r]
<1>1. /\ pc[r] = "claim" /\ ~Claiming(r)
      /\ UNCHANGED <<registry, session, job, at, conv, owner, history, reading>>
      /\ registry[t] \in {e, None}
  BY DEF Claim, Misclaims, Claiming, procVars
<1>2. \A d \in Entry : session'[d] \in {session[d], None}
  BY <1>1
<1>3. CASE Refused(r) /\ slot' = slot
  <2>1. Goto(r, "finish")
    BY <1>3, RefusedGoes DEF IInv
  <2>2. pc'[r] = "finish"
    BY <2>1, GotoType DEF IInv, Steps
  <2>3. Tied(r)' /\ Claimed(r)'
    BY <2>2, NoClaim
  <2> QED
    BY <1>1, <1>2, <1>3, <2>1, <2>3, ClaimAdvance DEF Steps
<1>4. CASE /\ TranscriptFree(t, c) /\ Goto(r, "swap")
           /\ slot' = IF registry[t] = None THEN slot ELSE [slot EXCEPT ![registry[t]] = c]
  <2>1. pc'[r] = "swap" /\ \A q \in Request \ {r} : pc'[q] = pc[q]
    BY <1>4, GotoType DEF IInv, Steps
  <2>2. Tied(r)' /\ job[r].kind = "start" /\ \A u \in Tab : registry[u] = e => u = t
    BY <1>1, <2>1 DEF ClaimInv, Tied
  <2>3. e \in refs[r] /\ e \in Entry /\ serial[e] = r
    BY <1>1 DEF IInv, AllSound, Sound, TypeOK, Placed, Serialized
  <2>4. CASE registry[t] = None
    <3>1. e \notin Registered
      BY <2>2, <2>3, <2>4, Names DEF Registered
    <3>2. Claimed(r)'
      BY <1>1, <3>1 DEF Claimed, Registered
    <3> QED
      BY <1>1, <1>2, <1>4, <2>2, <2>4, <3>2, ClaimAdvance DEF Steps
  <2>5. CASE registry[t] = e /\ e # None
    <3>1. slot'[e] = c /\ \A d \in Entry \ {e} : slot'[d] = slot[d]
      BY <1>4, <2>3, <2>5 DEF IInv, TypeOK
    <3>2. e \in Registered /\ t \in Tab
      BY <1>1, <2>5 DEF Registered, ClaimInv, Tied
    <3>3. Registered' = Registered
      BY <1>1 DEF Registered
    <3>4. \A q \in Request \ {r} : at[q] = e => ~Claiming(q) /\ pc[q] \notin {"stopOld", "reap", "spawn", "idle"}
      <4>1. \A q \in Request : pc[q] = "idle" => at[q] = None
        BY DEF KeptInv, Fresh
      <4> QED
        BY <2>3, <2>5, <4>1 DEF IInv, AllSound, Sound, Claiming, Serialized
    <3>5. ASSUME NEW q \in Request, q # r PROVE Tied(q)' /\ Claimed(q)' /\ Unsent(q)'
      <4>1. Tied(q) /\ Claimed(q) /\ Unsent(q) /\ pc'[q] = pc[q]
        BY <2>1, <3>5 DEF ClaimInv
      <4>2. Tied(q)'
        BY <1>1, <4>1 DEF Tied
      <4>3. Claimed(q)'
        <5>1. at[q] \in Registered => at[q] \in Entry
          BY RegisteredType DEF IInv
        <5> QED
          BY <1>1, <3>1, <3>3, <3>4, <3>5, <4>1, <5>1 DEF Claimed, Claiming
      <4>4. Unsent(q)'
        <5>1. pc[q] = "idle" => q # e
          BY <3>2, FreshEmpty
        <5> QED
          BY <1>1, <3>1, <4>1, <5>1 DEF Unsent, Entry
      <4> QED
        BY <4>2, <4>3, <4>4
    <3>6. Claimed(r)' /\ Unsent(r)'
      BY <1>1, <2>1, <3>1 DEF Claimed, Unsent, ClaimInv
    <3>7. Owned' /\ Known'
      BY <1>1, <3>1 DEF ClaimInv, Owned, Known
    <3>8. Attached'
      <4> SUFFICES ASSUME NEW d \in Registered, session[d] # None
                   PROVE  conv[session[d]] = slot'[d] \/ \E q \in Request : Claiming(q)' /\ at[q] = d
        BY <1>1, <3>3 DEF Attached
      <4>1. CASE d = e
        BY <1>1, <2>1, <2>2, <4>1 DEF Claiming
      <4>2. CASE d # e
        <5>1. slot'[d] = slot[d]
          BY <3>1, <4>2, RegisteredType DEF IInv
        <5>2. \A q \in Request : Claiming(q) => Claiming(q)'
          BY <1>1, <2>1 DEF Claiming
        <5>3. conv[session[d]] = slot[d] \/ \E q \in Request : Claiming(q) /\ at[q] = d
          BY DEF ClaimInv, Attached
        <5> QED
          BY <5>1, <5>2, <5>3
      <4> QED
        BY <4>1, <4>2
    <3>9. Unique'
      <4> SUFFICES ASSUME NEW u \in Tab, NEW v \in Tab, u # v, registry[u] # None, registry[v] # None,
                          slot'[registry[u]] # None
                   PROVE  slot'[registry[u]] # slot'[registry[v]]
        BY <1>1 DEF Unique
      <4>1. registry[u] \in Entry /\ registry[v] \in Entry
        BY RegisteredType DEF Registered, IInv
      <4>2. (u = t => registry[v] # e) /\ (v = t => registry[u] # e)
        BY <2>2
      <4>3. u = t \/ registry[u] # e
        BY <2>2
      <4>4. v = t \/ registry[v] # e
        BY <2>2
      <4>5. CASE u = t
        BY <1>4, <2>5, <3>1, <4>1, <4>2, <4>5 DEF TranscriptFree
      <4>6. CASE v = t
        BY <1>4, <2>5, <3>1, <4>1, <4>2, <4>6 DEF TranscriptFree
      <4>7. CASE u # t /\ v # t
        BY <3>1, <4>1, <4>3, <4>4, <4>7 DEF ClaimInv, Unique
      <4> QED
        BY <4>5, <4>6, <4>7
    <3> QED
      BY <2>2, <3>5, <3>6, <3>7, <3>8, <3>9 DEF ClaimInv
  <2> QED
    BY <1>1, <2>3, <2>4, <2>5, Names
<1> QED
  BY <1>1, <1>3, <1>4 DEF Claim

(* The spawn: the entry claims what its new session is attached to.        *)
LEMMA ClaimSpawn == ASSUME IInv, KeptInv, ClaimInv, NEW r \in Request, Spawn(r) PROVE ClaimInv'
<1> DEFINE e == at[r]
<1>1. /\ pc[r] = "spawn" /\ UNCHANGED <<registry, job, at>> /\ ~Claiming(r)
      /\ Registered' = Registered
  BY DEF Spawn, Claiming, Registered
<1>2. pc'[r] = "finish" /\ \A q \in Request \ {r} : pc'[q] = pc[q]
  <2>1. Goto(r, "finish")
    BY DEF Spawn, Return
  <2> QED
    BY <2>1, GotoType DEF IInv, Steps
<1>3. e \in refs[r] /\ e \in Entry /\ session[e] = None
  BY <1>1 DEF IInv, AllSound, Sound, TypeOK, Placed, Serialized
<1>4. Tied(r)' /\ Claimed(r)'
  BY <1>2, NoClaim
<1>5. CASE UNCHANGED <<slot, session, procVars>>
  <2>1. Goto(r, "finish")
    BY DEF Spawn, Return
  <2>2. \A d \in Entry : session'[d] \in {session[d], None}
    BY <1>5
  <2> QED
    BY <1>1, <1>4, <1>5, <2>1, <2>2, ClaimAdvance DEF Steps, procVars
<1>6. CASE /\ owner' = [owner EXCEPT ![r] = e] /\ conv' = [conv EXCEPT ![r] = job[r].conv]
           /\ reading' = reading \cup {r} /\ session' = [session EXCEPT ![e] = r]
           /\ slot' = [slot EXCEPT ![e] = job[r].conv] /\ history' = history
  <2>1. /\ owner'[r] = e /\ conv'[r] = job[r].conv /\ session'[e] = r /\ slot'[e] = job[r].conv
        /\ \A i \in Instance \ {r} : owner'[i] = owner[i] /\ conv'[i] = conv[i]
        /\ \A d \in Entry \ {e} : session'[d] = session[d] /\ slot'[d] = slot[d]
    BY <1>3, <1>6 DEF IInv, TypeOK, Entry, Instance
  <2>2. \A d \in Registered : d \in Entry /\ slot'[d] = slot[d]
    BY <1>1, <2>1, RegisteredType DEF IInv, ClaimInv, Claimed
  <2>3. \A d \in Entry \ {e} : session[d] # None => session[d] \in Instance \ {r}
    <3>1. owner[r] = None
      BY <1>1 DEF ClaimInv, Unsent
    <3>2. \A d \in Entry : session[d] # None => owner[session[d]] = d /\ d # None
      BY Names DEF ClaimInv, Owned
    <3> QED
      BY <3>1, <3>2 DEF IInv, TypeOK, Maybe
  <2>4. ASSUME NEW q \in Request, q # r PROVE Tied(q)' /\ Claimed(q)' /\ Unsent(q)'
    <3>1. Tied(q) /\ Claimed(q) /\ Unsent(q) /\ pc'[q] = pc[q] /\ owner'[q] = owner[q]
      BY <1>2, <2>1, <2>4 DEF ClaimInv, Instance
    <3>2. pc[q] = "idle" => slot'[q] = None
      <4>1. pc[q] = "idle" => q # e
        BY FreshEmpty
      <4> QED
        BY <2>1, <3>1, <4>1 DEF Unsent, Entry
    <3>3. Claimed(q)'
      BY <1>1, <2>2, <3>1 DEF Claimed, Claiming
    <3> QED
      BY <1>1, <3>1, <3>2, <3>3 DEF Tied, Unsent
  <2>5. Unsent(r)'
    BY <1>2 DEF Unsent
  <2>6. Owned'
    <3>1. ASSUME NEW d \in Entry, session'[d] # None PROVE owner'[session'[d]] = d
      BY <2>1, <2>3, <3>1 DEF ClaimInv, Owned
    <3>2. ASSUME NEW i \in reading' PROVE owner'[i] \in Entry
      BY <1>3, <1>6, <2>1, <3>2 DEF ClaimInv, Owned, IInv, TypeOK
    <3> QED
      BY <3>1, <3>2 DEF Owned
  <2>7. Known'
    BY <1>1, <1>6, <2>1 DEF ClaimInv, Known
  <2>8. Attached'
    <3> SUFFICES ASSUME NEW d \in Registered, session'[d] # None
                 PROVE  conv'[session'[d]] = slot'[d] \/ \E q \in Request : Claiming(q)' /\ at'[q] = d
      BY <1>1 DEF Attached
    <3>1. CASE d = e
      BY <2>1, <3>1
    <3>2. CASE d # e
      <4>1. /\ session'[d] = session[d] /\ slot'[d] = slot[d]
            /\ conv'[session[d]] = conv[session[d]]
        BY <2>1, <2>2, <2>3, <3>2
      <4>2. \A q \in Request : Claiming(q) /\ at[q] = d => Claiming(q)' /\ at'[q] = d
        BY <1>1, <1>2 DEF Claiming
      <4>3. conv[session[d]] = slot[d] \/ \E q \in Request : Claiming(q) /\ at[q] = d
        BY <4>1 DEF ClaimInv, Attached
      <4> QED
        BY <4>1, <4>2, <4>3
    <3> QED
      BY <3>1, <3>2
  <2>9. Unique'
    <3>1. \A t \in Tab : registry[t] # None => slot'[registry[t]] = slot[registry[t]]
      BY <2>2 DEF Registered
    <3> QED
      BY <1>1, <3>1 DEF ClaimInv, Unique
  <2> QED
    BY <1>4, <2>4, <2>5, <2>6, <2>7, <2>8, <2>9 DEF ClaimInv
<1> QED
  BY <1>1, <1>5, <1>6 DEF Spawn

(* The reader of a tab's session: it writes what the tab claims already,   *)
(* or the id of a conversation that did not exist before.                  *)
LEMMA ClaimReader ==
  ASSUME IInv, KeptInv, ClaimInv, NEW i \in Instance, ReaderRecords(i), ~Overwrites(i)
  PROVE  ClaimInv'
<1> DEFINE e == owner[i]
<1>1. PICK c \in Transcript :
        /\ IF conv[i] = None THEN c \notin history ELSE c = conv[i]
        /\ conv' = [conv EXCEPT ![i] = c] /\ history' = history \cup {c}
        /\ slot' = [slot EXCEPT ![e] = c]
  BY DEF ReaderRecords
<1>2. /\ UNCHANGED <<registry, session, owner, reading, pc, job, at>> /\ i \in reading
      /\ Registered' = Registered
  BY DEF ReaderRecords, jobVars, Registered
<1>3. e \in Entry /\ session[e] = i /\ i # None /\ c # None
  BY <1>2, Names, ChatTabsAssumption DEF ClaimInv, Owned, Overwrites
<1>4. \A r \in Request : Claiming(r) => at[r] # e
  BY DEF Overwrites
<1>5. /\ conv'[i] = c /\ slot'[e] = c
      /\ \A j \in Instance \ {i} : conv'[j] = conv[j]
      /\ \A d \in Entry \ {e} : slot'[d] = slot[d]
  BY <1>1, <1>3 DEF IInv, TypeOK
<1>6. ASSUME NEW r \in Request PROVE Tied(r)' /\ Claimed(r)' /\ Unsent(r)'
  <2>1. Tied(r) /\ Claimed(r) /\ Unsent(r)
    BY DEF ClaimInv
  <2>2. pc[r] \in {"stopOld", "reap", "spawn"} => at[r] # e
    BY <1>3 DEF IInv, AllSound, Sound
  <2>3. at[r] \in Registered => at[r] \in Entry
    BY RegisteredType DEF IInv
  <2>4. Claimed(r)'
    BY <1>2, <1>4, <1>5, <2>1, <2>2, <2>3 DEF Claimed, Claiming
  <2>5. pc[r] = "idle" => r # e
    BY <1>3, FreshEmpty
  <2>6. Unsent(r)'
    BY <1>2, <1>5, <2>1, <2>5 DEF Unsent, Entry
  <2> QED
    BY <1>2, <2>1, <2>4, <2>6 DEF Tied
<1>7. Owned'
  BY <1>2 DEF ClaimInv, Owned
<1>8. Known'
  BY <1>1, <1>2, <1>5 DEF ClaimInv, Known
<1>9. Attached'
  <2> SUFFICES ASSUME NEW d \in Registered, session[d] # None
               PROVE  conv'[session[d]] = slot'[d] \/ \E q \in Request : Claiming(q)' /\ at'[q] = d
    BY <1>2 DEF Attached
  <2>1. CASE d = e
    BY <1>3, <1>5, <2>1
  <2>2. CASE d # e
    <3>1. d \in Entry /\ session[d] \in Instance /\ session[d] # i
      BY <1>3, <2>2, RegisteredType DEF ClaimInv, Owned, IInv, TypeOK, Maybe
    <3>2. conv[session[d]] = slot[d] \/ \E q \in Request : Claiming(q) /\ at[q] = d
      BY DEF ClaimInv, Attached
    <3>3. \A q \in Request : Claiming(q) /\ at[q] = d => Claiming(q)' /\ at'[q] = d
      BY <1>2 DEF Claiming
    <3> QED
      BY <1>5, <2>2, <3>1, <3>2, <3>3
  <2> QED
    BY <2>1, <2>2
<1>10. Unique'
  <2> SUFFICES ASSUME NEW t \in Tab, NEW u \in Tab, t # u, registry[t] # None, registry[u] # None,
                      slot'[registry[t]] # None
               PROVE  slot'[registry[t]] # slot'[registry[u]]
    BY <1>2 DEF Unique
  <2>1. registry[t] \in Entry /\ registry[u] \in Entry /\ registry[t] # registry[u]
    BY RegisteredType DEF Registered, IInv, KeptInv, Distinct
  <2>2. ASSUME e \in Registered PROVE slot[e] = c \/ c \notin history
    <3>1. conv[i] = slot[e]
      BY <1>3, <1>4, <2>2 DEF ClaimInv, Attached
    <3> QED
      BY <1>1, <3>1
  <2>3. \A d \in Entry : slot[d] \in history \cup {None}
    BY DEF ClaimInv, Known
  <2>4. slot[registry[t]] # None => slot[registry[t]] # slot[registry[u]]
    BY DEF ClaimInv, Unique
  <2>5. slot[registry[u]] # None => slot[registry[u]] # slot[registry[t]]
    BY DEF ClaimInv, Unique
  <2>6. CASE registry[t] = e
    <3>1. slot'[registry[t]] = c /\ slot'[registry[u]] = slot[registry[u]] /\ e \in Registered
      BY <1>3, <1>5, <2>1, <2>6, Names DEF Registered
    <3> QED
      BY <1>3, <2>1, <2>2, <2>3, <2>4, <2>6, <3>1
  <2>7. CASE registry[u] = e
    <3>1. slot'[registry[u]] = c /\ slot'[registry[t]] = slot[registry[t]] /\ e \in Registered
      BY <1>3, <1>5, <2>1, <2>7, Names DEF Registered
    <3> QED
      BY <1>3, <2>1, <2>2, <2>3, <2>5, <2>7, <3>1
  <2>8. CASE registry[t] # e /\ registry[u] # e
    BY <1>5, <2>1, <2>4, <2>8
  <2> QED
    BY <2>6, <2>7, <2>8
<1> QED
  BY <1>6, <1>7, <1>8, <1>9, <1>10 DEF ClaimInv

LEMMA ClaimInvariant == IInv /\ KeptInv /\ ClaimInv /\ [Next /\ ~Trespass]_vars => ClaimInv'
<1> SUFFICES ASSUME IInv, KeptInv, ClaimInv, [Next /\ ~Trespass]_vars PROVE ClaimInv'
  OBVIOUS
<1>1. ASSUME UNCHANGED <<registry, slot, session, owner, conv, history, pc, job, at>>, reading' \subseteq reading
      PROVE  ClaimInv'
  BY <1>1 DEF ClaimInv, Tied, Claimed, Claiming, Unsent, Owned, Known, Attached, Unique, Registered
<1>2. CASE UNCHANGED vars
  BY <1>1, <1>2 DEF vars, entryVars, procVars, jobVars
<1>3. ASSUME NEW r \in Request, Submit(r) PROVE ClaimInv'
  BY <1>3, ClaimSubmit
<1>4. ASSUME NEW r \in Request, Work(r), ~Misclaims(r), ~Unclaimed(r) PROVE ClaimInv'
  BY <1>4, ClaimWaits, ClaimStops, ClaimTakeSerial, ClaimSwap, ClaimRemove, ClaimDrains, ClaimClaim,
     ClaimSpawn DEF Work
<1>5. ASSUME NEW i \in Instance, ReaderRecords(i), ~Overwrites(i) PROVE ClaimInv'
  BY <1>5, ClaimReader
<1>6. ASSUME NEW i \in Instance, ReaderEnds(i) \/ Exit(i) PROVE ClaimInv'
  BY <1>1, <1>6 DEF ReaderEnds, Exit, entryVars, jobVars
<1> QED
  BY <1>2, <1>3, <1>4, <1>5, <1>6 DEF Next, Trespass

(* ADR-090, decision 3: what the run tabs_exclusive refutes of the code    *)
(* holds up to a step of four kinds: a reader that writes the slot of an   *)
(* entry its session has left, or after the claim of the next start; a     *)
(* claim that goes to another entry than the start's; and a retry of a     *)
(* conversation that its tab has given up.  Nothing else in start, resume, *)
(* retry, close and clear lets two tabs share a transcript.                *)
THEOREM ClaimsExclude == Spec /\ [][~Trespass]_vars => []OneTabPerTranscript
<1>1. ASSUME IInv, KeptInv, ClaimInv PROVE OneTabPerTranscript
  <2> DEFINE current(t) == IF registry[t] = None THEN None ELSE session[registry[t]]
             attached(t, c) == /\ current(t) # None /\ proc[current(t)] = "running"
                               /\ conv[current(t)] = c
  <2> SUFFICES ASSUME \A r \in Request : pc[r] \in {"idle", "done"},
                      NEW t \in Tab, NEW u \in Tab, NEW c \in Transcript,
                      attached(t, c), attached(u, c)
               PROVE  t = u
    BY DEF OneTabPerTranscript
  <2>1. /\ registry[t] # None /\ session[registry[t]] # None /\ conv[session[registry[t]]] = c
        /\ registry[u] # None /\ session[registry[u]] # None /\ conv[session[registry[u]]] = c
    OBVIOUS
  <2>2. \A r \in Request : ~Claiming(r)
    BY DEF Claiming
  <2>3. slot[registry[t]] = c /\ slot[registry[u]] = c
    BY <1>1, <2>1, <2>2 DEF ClaimInv, Attached, Registered
  <2>4. c # None
    BY ChatTabsAssumption
  <2> QED
    BY <1>1, <2>1, <2>3, <2>4 DEF ClaimInv, Unique
<1>2. Spec => []IInv /\ []KeptInv
  BY Invariance, KeptInit, KeptInvariant, PTL DEF Spec
<1>3. Spec /\ [][~Trespass]_vars => []ClaimInv
  <2>1. [Next]_vars /\ [~Trespass]_vars => [Next /\ ~Trespass]_vars
    OBVIOUS
  <2> QED
    BY <1>2, <2>1, ClaimInit, ClaimInvariant, PTL DEF Spec
<1> QED
  BY <1>1, <1>2, <1>3, PTL

-----------------------------------------------------------------------------
(* Nobody waits in a circle: the part of EveryRequestEnds that fairness    *)
(* has no share in.                                                        *)

(* r waits for q: for the start serializer of an entry, or for the session *)
(* mutex that a start holds from its reap to its spawn.                    *)
WaitsFor(r, q) ==
  \/ pc[r] = "serial" /\ serial[at[r]] = q
  \/ pc[r] = "drain" /\ \E e \in refs[r] : serial[e] = q
  \/ pc[q] = "spawn" /\ pc[r] = "replace" /\ at[q] \in refs[r] \ {at[r]}
  \/ pc[q] = "spawn" /\ pc[r] \in {"stopRemoved", "stopDrained"} /\ at[q] = at[r]

NoCircle ==
  /\ \A r, q \in Request : WaitsFor(r, q) => pc[q] \notin {"idle", "done"}
  /\ \A r, q, s, u \in Request : ~(WaitsFor(r, q) /\ WaitsFor(q, s) /\ WaitsFor(s, u))

(* Who has a serializer works on its entry, or is about to return.         *)
Holds(q, e) == pc[q] \in {"remove", "stopRemoved", "finish"} \/ (pc[q] \in Serialized /\ at[q] = e)
Holders == \A e \in Entry, q \in Request : serial[e] = q => Holds(q, e)

LEMMA HoldersStep ==
  ASSUME Holders, NEW r \in Request,
         \A q \in Request \ {r} : pc'[q] = pc[q] /\ at'[q] = at[q],
         \A e \in Entry : serial'[e] \in {serial[e], r} \/ serial'[e] \notin Request,
         \A e \in Entry : serial'[e] = r => Holds(r, e)'
  PROVE  Holders'
  BY DEF Holders, Holds

LEMMA HoldersNext == ASSUME IInv, Holders, Next PROVE Holders'
<1> USE DEF IInv
<1>0. TypeOK /\ None \notin Request
  BY Names
<1>t. /\ pc \in [Request -> Steps] /\ at \in [Request -> Maybe(Entry)]
      /\ serial \in [Entry -> Maybe(Request)]
  BY <1>0 DEF TypeOK
<1>1. ASSUME NEW r \in Request, Submit(r) \/ StopReplaced(r) PROVE Holders'
  <2>1. serial' = serial /\ pc[r] \in {"idle", "replace"}
    BY <1>1 DEF Submit, Prepare, Retry, Close, Clear, StopReplaced, entryVars
  <2>2. \A q \in Request \ {r} : pc'[q] = pc[q] /\ at'[q] = at[q]
    BY <1>t, <1>1 DEF Submit, Prepare, Retry, Close, Clear, StopReplaced, Goto, Return
  <2>3. \A e \in Entry : serial[e] # r
    BY <2>1 DEF Holders, Holds, Serialized
  <2> QED
    BY <2>1, <2>2, <2>3, HoldersStep
<1>2. ASSUME NEW r \in Request, TakeSerial(r) PROVE Holders'
  <2>1. /\ pc[r] = "serial" /\ serial' = [serial EXCEPT ![at[r]] = r] /\ at' = at
        /\ pc'[r] \in {"check", "swap", "remove"}
        /\ \A q \in Request \ {r} : pc'[q] = pc[q]
    BY <1>t, <1>2 DEF TakeSerial, Goto
  <2>2. \A e \in Entry : serial[e] # r
    BY <2>1 DEF Holders, Holds, Serialized
  <2>3. \A e \in Entry : serial'[e] = r => e = at[r]
    BY <1>t, <2>1, <2>2
  <2>4. \A e \in Entry : serial'[e] \in {serial[e], r}
    BY <1>t, <2>1
  <2> QED
    BY <2>1, <2>3, <2>4, HoldersStep DEF Holds, Serialized
<1>3. ASSUME NEW r \in Request,
             \/ CheckFree(r) \/ Preflight(r) \/ Authenticate(r) \/ Claim(r) \/ Swap(r)
             \/ StopOld(r) \/ Reap(r) \/ Spawn(r)
      PROVE  Holders'
  <2>1. serial' = serial /\ at' = at /\ pc[r] \in Serialized
    BY <1>3 DEF CheckFree, Preflight, Authenticate, Claim, Swap, StopOld, Reap, Spawn, entryVars, Serialized
  <2>2. \E s \in Serialized \cup {"finish"} : Goto(r, s)
    BY <1>3 DEF CheckFree, Preflight, Authenticate, Claim, Swap, StopOld, Reap, Spawn, Refused, Return, Serialized
  <2>3. pc'[r] \in Serialized \cup {"finish"} /\ \A q \in Request \ {r} : pc'[q] = pc[q]
    BY <1>t, <2>2 DEF Goto
  <2>4. \A e \in Entry : serial[e] = r => at[r] = e
    BY <2>1 DEF Holders, Holds, Serialized
  <2> QED
    BY <2>1, <2>3, <2>4, HoldersStep DEF Holds
<1>4. ASSUME NEW r \in Request, Remove(r) \/ StopRemoved(r) PROVE Holders'
  <2>1. serial' = serial /\ pc'[r] \in {"stopRemoved", "finish"}
    BY <1>t, <1>4 DEF Remove, StopRemoved, Return, Goto
  <2>2. \A q \in Request \ {r} : pc'[q] = pc[q] /\ at'[q] = at[q]
    BY <1>t, <1>4 DEF Remove, StopRemoved, Return, Goto
  <2> QED
    BY <2>1, <2>2, HoldersStep DEF Holds
<1>5. ASSUME NEW r \in Request, TakeDrained(r) PROVE Holders'
  <2>1. pc[r] = "drain" /\ \A e \in Entry : serial[e] # r
    BY <1>5 DEF TakeDrained, Holders, Holds, Serialized
  <2>2. CASE Return(r, "ok") /\ UNCHANGED <<serial, at>>
    BY <1>t, <2>1, <2>2, HoldersStep DEF Return, Goto
  <2>3. ASSUME NEW e \in refs[r], serial' = [serial EXCEPT ![e] = r], at' = [at EXCEPT ![r] = e],
               Goto(r, "stopDrained")
        PROVE  Holders'
    <3>1. \A d \in Entry : serial'[d] \in {serial[d], r} /\ (serial'[d] = r => d = e)
      BY <1>t, <2>1, <2>3
    <3>2. at'[r] = e /\ pc'[r] = "stopDrained" /\ \A q \in Request \ {r} : pc'[q] = pc[q] /\ at'[q] = at[q]
      BY <1>t, <2>3 DEF Goto
    <3> QED
      BY <3>1, <3>2, HoldersStep DEF Holds, Serialized
  <2> QED
    BY <1>5, <2>2, <2>3 DEF TakeDrained
<1>6. ASSUME NEW r \in Request, StopDrained(r) PROVE Holders'
  <2>1. /\ pc[r] = "stopDrained" /\ serial' = [serial EXCEPT ![at[r]] = None] /\ at' = at
        /\ pc'[r] = "drain" /\ \A q \in Request \ {r} : pc'[q] = pc[q]
    BY <1>t, <1>6 DEF StopDrained, Goto
  <2>2. \A e \in Entry : serial[e] = r => e = at[r]
    BY <2>1 DEF Holders, Holds, Serialized
  <2>3. \A e \in Entry : serial'[e] # r /\ serial'[e] \in {serial[e], None}
    BY <1>0, <1>t, <2>1, <2>2
  <2> QED
    BY <1>0, <2>1, <2>3, HoldersStep
<1>7. ASSUME NEW r \in Request, Finish(r) PROVE Holders'
  <2>1. serial' = [e \in Entry |-> IF serial[e] = r THEN None ELSE serial[e]]
    BY <1>7 DEF Finish
  <2>2. \A q \in Request \ {r} : pc'[q] = pc[q] /\ at'[q] = at[q]
    BY <1>t, <1>7 DEF Finish, Goto
  <2>3. \A e \in Entry : serial'[e] # r /\ serial'[e] \in {serial[e], None}
    BY <1>0, <2>1
  <2> QED
    BY <1>0, <2>2, <2>3, HoldersStep
<1>8. ASSUME NEW i \in Instance, ReaderRecords(i) \/ ReaderEnds(i) \/ Exit(i) PROVE Holders'
  BY <1>8 DEF ReaderRecords, ReaderEnds, Exit, entryVars, jobVars, Holders, Holds
<1> QED
  BY <1>1, <1>2, <1>3, <1>4, <1>5, <1>6, <1>7, <1>8 DEF Next, Work

LEMMA HoldersNoCircle == ASSUME IInv, Holders PROVE NoCircle
<1>0. \A r \in Request : (pc[r] = "serial" => at[r] \in Entry) /\ refs[r] \subseteq Entry
  BY DEF IInv, TypeOK, AllSound, Sound, Placed
<1>1. ASSUME NEW r \in Request, NEW q \in Request, WaitsFor(r, q)
      PROVE  pc[q] \in Serialized \cup {"remove", "stopRemoved", "finish"}
  BY <1>0, <1>1 DEF WaitsFor, Holders, Holds, Serialized
<1>2. ASSUME NEW r \in Request, NEW q \in Request, NEW s \in Request, WaitsFor(r, q), WaitsFor(q, s)
      PROVE  pc[s] = "spawn"
  BY <1>1, <1>2 DEF WaitsFor, Serialized
<1>3. \A s, u \in Request : pc[s] = "spawn" => ~WaitsFor(s, u)
  BY DEF WaitsFor
<1> QED
  BY <1>1, <1>2, <1>3 DEF NoCircle, Serialized

(* start_serialize, the session mutex and the commands that wait for them: *)
(* a command waits for one that goes on, or for one that waits for a spawn *)
(* to end, and for none that has returned.                                 *)
THEOREM NobodyWaitsInACircle == Spec => []NoCircle
<1>1. Init => Holders
  BY Names DEF Init, Holders
<1>2. IInv /\ Holders /\ [Next]_vars => Holders'
  <2>1. ASSUME Holders, UNCHANGED vars PROVE Holders'
    BY <2>1 DEF vars, entryVars, jobVars, Holders, Holds
  <2> QED
    BY <2>1, HoldersNext
<1> QED
  BY <1>1, <1>2, HoldersNoCircle, Invariance, PTL DEF Spec
=============================================================================
