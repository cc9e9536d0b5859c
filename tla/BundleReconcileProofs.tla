------------------------ MODULE BundleReconcileProofs ------------------------
(***************************************************************************)
(* Proofs about BundleReconcile, for any projects and reconcile threads,   *)
(* any number of updates and launches, and an install beside a reconcile   *)
(* or not: type correctness; the refinement of RestartLedger and what      *)
(* becomes of a project whose restart is left for later; what can mislead  *)
(* who restores; and that whoever waits for the images waits for a thread  *)
(* that is there.                                                          *)
(***************************************************************************)
EXTENDS BundleReconcile, TLAPS

(* The parts of TypeOK.                                                    *)
StateTypes == disk \in BundleState /\ st \in [Actors -> BundleState]

WorldTypes ==
  /\ up \in SUBSET Projects /\ halted \in SUBSET Projects
  /\ configured \in SUBSET Projects /\ gone \in SUBSET Projects
  /\ up \cap halted = {}

ControlTypes ==
  /\ flight \in {"idle", "checking", "rebuilding"}
  /\ ready \in {"Ready", "Checking", "Building", "Failed"}
  /\ pc \in [Workers -> WorkerState]
  /\ upc \in InstallState

BatchTypes ==
  /\ todo \in [Actors -> SUBSET Projects]
  /\ kept \in [Actors -> SUBSET Projects]
  /\ cfg \in [Actors -> SUBSET Projects]
  /\ stale \subseteq Actors

Lives == alive \in BOOLEAN

Listed == \A a \in Actors : todo[a] # {} => Batching(a)

Over == ~alive => upc = "none" /\ \A w \in Workers : pc[w] = "none"

LEMMA Types ==
  TypeOK <=> StateTypes /\ WorldTypes /\ ControlTypes /\ BatchTypes /\ Lives /\ Listed /\ Over
  BY DEF TypeOK, StateTypes, WorldTypes, ControlTypes, BatchTypes, Lives, Listed, Over

USE DEF Actors

-----------------------------------------------------------------------------
(* A state of another phase or list is one.                                *)
LEMMA Rewritten ==
  ASSUME NEW s \in BundleState, NEW ph \in Phase, NEW list \in SUBSET Projects
  PROVE  /\ [s EXCEPT !.phase = ph] \in BundleState
         /\ [s EXCEPT !.pending = list] \in BundleState
         /\ [s EXCEPT !.phase = ph, !.pending = list] \in BundleState
         /\ [s EXCEPT !.applied = FALSE] \in BundleState
         /\ s.pending \in SUBSET Projects
  BY Zenon DEF BundleState

LEMMA WritesTyped ==
  ASSUME StateTypes, NEW a \in Actors, NEW s \in BundleState, Writes(a, s) \/ Saves(a, s)
  PROVE  StateTypes'
  BY DEF StateTypes, Writes, Saves

LEMMA BlankTyped == Blank \in BundleState /\ Phase = {"pending", "begun", "done"}
  BY DEF Blank, BundleState, Phase

LEMMA ReturnsTyped ==
  ASSUME StateTypes, NEW w \in Workers, NEW s, Returns(w, s), disk' \in BundleState
  PROVE  StateTypes'
  BY BlankTyped DEF StateTypes, Returns, Clears

LEMMA StateStep ==
  ASSUME StateTypes, WorldTypes, BatchTypes, NEW w \in Workers, Step(w)
  PROVE  StateTypes'
<1>s. st[w] \in BundleState /\ disk \in BundleState
  BY DEF StateTypes
<1>b. Blank \in BundleState /\ Phase = {"pending", "begun", "done"}
  BY BlankTyped
<1>1. CASE Load(w)
  <2>1. PICK s \in Readings : st' = [st EXCEPT ![w] = s]
    BY <1>1 DEF Load
  <2> QED
    BY <1>1, <2>1, <1>s, <1>b DEF Load, Readings, StateTypes
<1>2. CASE EngineNotReady(w) \/ Aborts(w)
  BY <1>2, <1>s, ReturnsTyped DEF EngineNotReady, Aborts
<1>3. CASE ImagesMissing(w) \/ ImagesPresent(w) \/ EngineReady(w) \/ SkipStop(w) \/ Stop(w) \/ StopEnds(w)
           \/ Restore(w) \/ Settles(w) \/ Drop(w)
  BY <1>3 DEF ImagesMissing, ImagesPresent, EngineReady, SkipStop, Stop, StopEnds, Restore, Settles, Drop,
    StateTypes, copies
<1>4. CASE Prepare(w) \/ Synced(w) \/ Built(w) \/ RestoreEnds(w)
  <2>1. \A ph \in Phase : [st[w] EXCEPT !.phase = ph] \in BundleState
    BY <1>s, Rewritten
  <2>2. \/ UNCHANGED <<disk, st>>
        \/ \E ph \in Phase : Writes(w, [st[w] EXCEPT !.phase = ph]) \/ Saves(w, [st[w] EXCEPT !.phase = ph])
    BY <1>4, <1>b DEF Prepare, Synced, Built, RestoreEnds, copies
  <2>3. CASE UNCHANGED <<disk, st>>
    BY <2>3 DEF StateTypes
  <2> QED
    BY <2>1, <2>2, <2>3, WritesTyped
<1>5. CASE RecordRunning(w) \/ RecordRestores(w)
  <2>1. PICK running \in SUBSET Projects :
          \/ Writes(w, [st[w] EXCEPT !.pending = @ \cup running])
          \/ Saves(w, [st[w] EXCEPT !.pending = @ \cup running])
    BY <1>5 DEF RecordRunning, RecordRestores, WorldTypes
  <2>2. st[w].pending \cup running \in SUBSET Projects
    BY <1>s, <1>b, Rewritten
  <2>3. [st[w] EXCEPT !.pending = st[w].pending \cup running] \in BundleState
    BY <2>2, <1>s, <1>b, Rewritten
  <2> QED
    BY <2>1, <2>3, WritesTyped
<1>6. CASE RestoreFails(w) \/ Reports(w)
  <2>1. disk' \in BundleState
    BY <1>6, <1>s DEF RestoreFails, Reports, SavesError
  <2> QED
    BY <1>6, <2>1, ReturnsTyped DEF RestoreFails, Reports, SavesError
<1>7. CASE Finish(w) \/ SameEnds(w)
  <2>1. kept[w] \in SUBSET Projects
    BY DEF BatchTypes
  <2>2. [applied |-> TRUE, phase |-> "done", pending |-> kept[w]] \in BundleState
    BY <2>1, <1>b DEF BundleState
  <2>3. [st[w] EXCEPT !.pending = kept[w]] \in BundleState
    BY <2>1, <1>s, <1>b, Rewritten
  <2>4. disk' \in BundleState /\ Returns(w, "ok")
    BY <1>7, <2>2, <2>3, <1>s DEF Finish, SameEnds
  <2> QED
    BY <2>4, ReturnsTyped
<1> QED
  BY <1>1, <1>2, <1>3, <1>4, <1>5, <1>6, <1>7 DEF Step

LEMMA InstallStateStep ==
  ASSUME StateTypes, WorldTypes, BatchTypes, Install
  PROVE  StateTypes'
<1>s. st[Updater] \in BundleState /\ disk \in BundleState
  BY DEF StateTypes
<1>b. Blank \in BundleState /\ Phase = {"pending", "begun", "done"}
  BY BlankTyped
<1>1. CASE Record
  <2>1. PICK running \in SUBSET Projects, s \in BundleState :
          Saves(Updater, [s EXCEPT !.phase = "pending", !.pending = running])
    BY <1>1, <1>s, <1>b DEF Record, Readings, WorldTypes
  <2>2. [s EXCEPT !.phase = "pending", !.pending = running] \in BundleState
    BY <1>b, Rewritten
  <2> QED
    BY <2>1, <2>2, WritesTyped
<1>2. CASE UpdaterStops \/ UpdaterStopped \/ TakeBack \/ UpdaterRestores
  BY <1>2 DEF UpdaterStops, UpdaterStopped, TakeBack, UpdaterRestores, copies, StateTypes
<1>3. CASE UpdaterRestored \/ UpdaterBreaks
  <2>1. PICK list \in SUBSET Projects : Undone(list)
    <3>1. kept[Updater] \in SUBSET Projects /\ Ran \in SUBSET Projects
      BY <1>s, <1>b, Rewritten DEF BatchTypes, Ran
    <3> QED
      BY <1>3, <3>1 DEF UpdaterRestored, UpdaterBreaks
  <2>2. PICK s \in BundleState : disk' \in {disk, [s EXCEPT !.phase = "done", !.pending = list]}
    BY <2>1, <1>s, <1>b DEF Undone, Readings
  <2>3. [s EXCEPT !.phase = "done", !.pending = list] \in BundleState
    BY <1>b, Rewritten
  <2> QED
    BY <2>1, <2>2, <2>3, <1>s, <1>b DEF Undone, Clears, StateTypes
<1>4. CASE UpdaterPanics
  BY <1>4, <1>b DEF UpdaterPanics, Clears, StateTypes
<1>5. CASE Installed
  <2>1. [disk EXCEPT !.applied = FALSE] \in BundleState
    BY <1>s, <1>b, Rewritten
  <2> QED
    BY <1>5, <2>1, <1>s, <1>b DEF Installed, Ends, StateTypes
<1> QED
  BY <1>1, <1>2, <1>3, <1>4, <1>5 DEF Install

LEMMA NextStates == ASSUME TypeOK, Next PROVE StateTypes'
<1> USE Types
<1>1. ASSUME NEW w \in Workers, Launch(w) \/ Retry(w) PROVE StateTypes'
  BY <1>1 DEF Launch, Retry, copies, StateTypes
<1>2. CASE World
  BY <1>2 DEF World, UserStarts, UserStops, DirChanges, Unwanted, Wanted, copies, StateTypes
<1>3. CASE Crash \/ Quit
  BY <1>3, BlankTyped DEF Crash, Quit, Ends, StateTypes
<1> QED
  BY <1>1, <1>2, <1>3, StateStep, InstallStateStep DEF Next

(* What a step of a reconcile thread leaves as it is.                      *)
LEMMA StepFrame == ASSUME NEW w \in Workers, Step(w) PROVE UNCHANGED <<alive, upc, world>>
  BY DEF Step, Load, EngineNotReady, ImagesMissing, ImagesPresent, Prepare, EngineReady,
    RecordRunning, SkipStop, Stop, StopEnds, Synced, Built, RecordRestores, Restore,
    RestoreFails, RestoreEnds, Finish, SameEnds, Aborts, Reports, Settles, Drop

LEMMA WorldStep == ASSUME TypeOK, Next PROVE WorldTypes'
<1> USE Types DEF BatchTypes, WorldTypes, world, stacks
<1>1. ASSUME NEW w \in Workers, Launch(w) \/ Retry(w) PROVE WorldTypes'
  BY <1>1 DEF Launch, Retry
<1>2. ASSUME NEW w \in Workers, Step(w) PROVE WorldTypes'
  <2>1. CASE Stop(w) \/ Restore(w)
    BY <2>1 DEF Stop, StopsOne, Restore, RestoresOne, Dropped, Deferred, Restored
  <2>2. CASE RestoreFails(w)
    BY <2>2 DEF RestoreFails, RestoreBreaks
  <2>3. CASE Step(w) /\ UNCHANGED stacks
    BY <2>3, StepFrame
  <2> QED
    BY <1>2, <2>1, <2>2, <2>3 DEF Step, Load, EngineNotReady, ImagesMissing, ImagesPresent, Prepare,
      EngineReady, RecordRunning, SkipStop, StopEnds, Synced, Built, RecordRestores,
      RestoreEnds, Finish, SameEnds, Aborts, Reports, Settles, Drop
<1>3. CASE Install
  <2>1. CASE UpdaterStops \/ UpdaterRestores \/ UpdaterBreaks
    BY <2>1 DEF UpdaterStops, StopsOne, UpdaterRestores, RestoresOne, Dropped, Deferred, Restored,
      UpdaterBreaks, RestoreBreaks
  <2> QED
    BY <1>3, <2>1 DEF Install, Record, UpdaterStopped, TakeBack, UpdaterRestored, UpdaterPanics, Installed, Ends
<1>4. CASE World
  BY <1>4, BundleAssumption DEF World, UserStarts, UserStops, DirChanges, Unwanted, Wanted
<1>5. CASE Crash \/ Quit
  BY <1>5 DEF Crash, Quit, Ends
<1> QED
  BY <1>1, <1>2, <1>3, <1>4, <1>5 DEF Next

LEMMA ControlStep == ASSUME TypeOK, Next PROVE ControlTypes'
<1> USE Types DEF ControlTypes, readiness
<1>1. pc' \in [Workers -> WorkerState]
  <2>1. ASSUME NEW w \in Workers, Launch(w) \/ Retry(w) PROVE pc' \in [Workers -> WorkerState]
    BY <2>1 DEF Launch, Retry, Enters, Goes, WorkerState, Working
  <2>2. ASSUME NEW w \in Workers, Step(w) PROVE pc' \in [Workers -> WorkerState]
    BY <2>2 DEF Step, Load, EngineNotReady, ImagesMissing, ImagesPresent, Prepare, EngineReady,
      RecordRunning, SkipStop, Stop, StopEnds, Synced, Built, RecordRestores, Restore,
      RestoreFails, RestoreEnds, Finish, SameEnds, Aborts, Reports, Settles, Drop,
      SavesError, Returns, Goes, WorkerState, Working
  <2>3. CASE Install
    BY <2>3 DEF Install, Record, UpdaterStops, UpdaterStopped, TakeBack, UpdaterRestores,
      UpdaterRestored, UpdaterBreaks, UpdaterPanics, Installed, Ends, WorkerState
  <2>4. CASE World
    BY <2>4 DEF World, UserStarts, UserStops, DirChanges, Unwanted, Wanted
  <2>5. CASE Crash \/ Quit
    BY <2>5 DEF Crash, Quit, Ends, WorkerState
  <2> QED
    BY <2>1, <2>2, <2>3, <2>4, <2>5 DEF Next
<1>2. flight' \in {"idle", "checking", "rebuilding"} /\ ready' \in {"Ready", "Checking", "Building", "Failed"}
  <2>1. ASSUME NEW w \in Workers, Launch(w) \/ Retry(w) \/ Settles(w) \/ Drop(w) PROVE <1>2!1 /\ <1>2!2
    BY <2>1 DEF Launch, Retry, Enters, Settles, Drop
  <2>2. ASSUME NEW w \in Workers, Step(w) PROVE <1>2!1 /\ <1>2!2
    BY <2>1, <2>2 DEF Step, Load, EngineNotReady, ImagesMissing, ImagesPresent, Prepare, EngineReady,
      RecordRunning, SkipStop, Stop, StopEnds, Synced, Built, RecordRestores, Restore,
      RestoreFails, RestoreEnds, Finish, SameEnds, Aborts, Reports
  <2>3. CASE Install
    BY <2>3 DEF Install, Record, UpdaterStops, UpdaterStopped, TakeBack, UpdaterRestores,
      UpdaterRestored, UpdaterBreaks, UpdaterPanics, Installed, Ends
  <2>4. CASE World
    BY <2>4 DEF World, UserStarts, UserStops, DirChanges, Unwanted, Wanted
  <2>5. CASE Crash \/ Quit
    BY <2>5 DEF Crash, Quit, Ends
  <2> QED
    BY <2>1, <2>2, <2>3, <2>4, <2>5 DEF Next
<1>3. upc' \in InstallState
  <2>1. ASSUME NEW w \in Workers, Launch(w) \/ Retry(w) PROVE UNCHANGED upc
    BY <2>1 DEF Launch, Retry
  <2>2. ASSUME NEW w \in Workers, Step(w) PROVE UNCHANGED upc
    BY <2>2, StepFrame
  <2>3. CASE Install
    BY <2>3 DEF Install, Record, UpdaterStops, UpdaterStopped, TakeBack, UpdaterRestores,
      UpdaterRestored, UpdaterBreaks, Undone, UpdaterPanics, Installed, Ends, InstallState, Undoing
  <2>4. CASE World
    BY <2>4 DEF World, UserStarts, UserStops, DirChanges, Unwanted, Wanted
  <2>5. CASE Crash \/ Quit
    BY <2>5 DEF Crash, Quit, Ends, InstallState
  <2> QED
    BY <2>1, <2>2, <2>3, <2>4, <2>5 DEF Next
<1> QED
  BY <1>1, <1>2, <1>3

LEMMA LivesStep == ASSUME TypeOK, Next PROVE Lives'
<1> USE Types DEF Lives
<1>1. ASSUME NEW w \in Workers, Launch(w) \/ Retry(w) \/ Step(w) PROVE Lives'
  BY <1>1, StepFrame, Zenon DEF Launch, Retry
<1>2. CASE Install
  BY <1>2, Zenon DEF Install, Record, UpdaterStops, UpdaterStopped, TakeBack, UpdaterRestores, UpdaterRestored,
    UpdaterBreaks, UpdaterPanics, Installed, Ends
<1>3. CASE World \/ Crash \/ Quit
  BY <1>3, Zenon DEF World, UserStarts, UserStops, DirChanges, Unwanted, Wanted, Crash, Quit, Ends
<1> QED
  BY <1>1, <1>2, <1>3 DEF Next

LEMMA AtWorkActors == AtWork \subseteq Actors
  BY DEF AtWork

LEMMA BatchStep == ASSUME TypeOK, Next PROVE BatchTypes'
<1> USE Types, AtWorkActors DEF BatchTypes, batch, copies, Lists, Batch, Clears
<1>0. ASSUME NEW a \in Actors, StopsOne(a) \/ (RestoresOne(a) /\ UNCHANGED stale) PROVE BatchTypes'
  BY <1>0 DEF StopsOne, Disturbs, RestoresOne, Dropped, Deferred, Restored
<1>p. ASSUME NEW a \in Actors PROVE st[a].pending \in SUBSET Projects
  BY BlankTyped, Rewritten DEF StateTypes
<1>1. ASSUME NEW w \in Workers, Launch(w) \/ Retry(w) PROVE BatchTypes'
  BY <1>1 DEF Launch, Retry
<1>2. ASSUME NEW w \in Workers, Step(w) PROVE BatchTypes'
  <2>1. CASE Stop(w) \/ Restore(w)
    BY <2>1, <1>0 DEF Stop, Restore
  <2>2. CASE RecordRestores(w) \/ ImagesPresent(w)
    <3>1. ASSUME NEW list \in SUBSET Projects, NEW others \in SUBSET Actors, Batch(w, list, others)
          PROVE  BatchTypes'
      BY <3>1
    <3>2. st[w].pending \in SUBSET Projects
      BY <1>p
    <3>3. CASE ImagesPresent(w)
      BY <3>1, <3>2, <3>3 DEF ImagesPresent
    <3>4. CASE RecordRestores(w)
      <4>1. PICK running \in {up, {}} : Batch(w, st[w].pending \cup running, AtWork \ {w})
        BY <3>4 DEF RecordRestores
      <4>2. st[w].pending \cup running \in SUBSET Projects
        BY <3>2 DEF WorldTypes
      <4> QED
        BY <3>1, <4>1, <4>2
    <3> QED
      BY <2>2, <3>3, <3>4
  <2>3. CASE RecordRunning(w)
    BY <2>3 DEF RecordRunning, Saves, WorldTypes
  <2>4. CASE UNCHANGED batch \/ Returns(w, "failed") \/ Returns(w, "ok") \/ Lists(w, {})
    <3>1. /\ todo' \in [Actors -> SUBSET Projects] /\ kept' \in [Actors -> SUBSET Projects]
          /\ cfg' \in [Actors -> SUBSET Projects]
      BY <2>4 DEF Returns
    <3>2. CASE stale' \subseteq stale \cup AtWork \cup {w}
      BY <3>1, <3>2
    <3> QED
      BY <1>2, <2>1, <2>2, <2>3, <3>2 DEF Step, Load, EngineNotReady, ImagesMissing, Prepare, EngineReady,
        SkipStop, StopEnds, Synced, Built, RestoreFails, RestoreEnds, Finish, SameEnds,
        Aborts, Reports, Settles, Drop, SavesError, Saves, Disturbs
  <2> QED
    BY <1>2, <2>1, <2>2, <2>3, <2>4 DEF Step, Load, EngineNotReady, ImagesMissing, Prepare, EngineReady,
      SkipStop, StopEnds, Synced, Built, RestoreFails, RestoreEnds, Finish, SameEnds,
      Aborts, Reports, Settles, Drop, SavesError
<1>3. CASE Install
  <2>1. CASE UpdaterStops \/ UpdaterRestores
    BY <2>1, <1>0 DEF UpdaterStops, UpdaterRestores
  <2>2. CASE Record
    BY <2>2 DEF Record, Saves, WorldTypes
  <2>3. CASE TakeBack \/ UpdaterStopped
    BY <2>3, <1>p DEF TakeBack, UpdaterStopped, Ran
  <2>4. CASE UpdaterRestored \/ UpdaterBreaks \/ UpdaterPanics \/ Installed
    BY <2>4 DEF UpdaterRestored, UpdaterBreaks, Undone, UpdaterPanics, Installed, Ends
  <2> QED
    BY <1>3, <2>1, <2>2, <2>3, <2>4 DEF Install
<1>4. CASE World
  <2>1. UNCHANGED batch /\ stale' \subseteq stale \cup AtWork
    BY <1>4 DEF World, UserStarts, UserStops, DirChanges, Unwanted, Wanted
  <2> QED
    BY <2>1
<1>5. CASE Crash \/ Quit
  BY <1>5 DEF Crash, Quit, Ends
<1> QED
  BY <1>1, <1>2, <1>3, <1>4, <1>5 DEF Next

(* Whoever lists a project goes on with the list, or drops it.             *)
LEMMA ListedStep == ASSUME TypeOK, Next PROVE Listed'
<1> USE Types
<1>i. InFlight(Updater) <=> upc \in Undoing
  BY DEF InFlight
<1>u. Batching(Updater) <=> upc \in Undoing \cup {"stop"}
  BY <1>i DEF Batching
<1>w. ASSUME NEW w \in Workers PROVE Batching(w) <=> pc[w] \in {"restore", "restoreSame", "stop"}
  BY BundleAssumption DEF Batching, InFlight
<1>v. Batching(Updater)' <=> upc' \in Undoing \cup {"stop"}
  BY DEF Batching, InFlight
<1>x. ASSUME NEW w \in Workers PROVE Batching(w)' <=> pc'[w] \in {"restore", "restoreSame", "stop"}
  BY BundleAssumption DEF Batching, InFlight
<1>m. ASSUME UNCHANGED <<upc, todo>>, NEW v \in Workers, \A w \in Workers \ {v} : pc'[w] = pc[w],
             Batching(v) => Batching(v)'
      PROVE  Listed'
  BY <1>m, <1>u, <1>v, <1>w, <1>x DEF Listed
<1>1. ASSUME NEW v \in Workers, Launch(v) \/ Retry(v) PROVE Listed'
  BY <1>1, <1>m, <1>w DEF Launch, Retry, Enters, Goes, batch, ControlTypes
<1>2. ASSUME NEW v \in Workers, Step(v) PROVE Listed'
  <2>1. \A w \in Workers \ {v} : pc'[w] = pc[w]
    BY <1>2 DEF Step, Load, EngineNotReady, ImagesMissing, ImagesPresent, Prepare, EngineReady,
      RecordRunning, SkipStop, Stop, StopEnds, Synced, Built, RecordRestores, Restore,
      RestoreFails, RestoreEnds, Finish, SameEnds, Aborts, Reports, Settles, Drop,
      SavesError, Returns, Goes, ControlTypes
  <2>2. \A a \in Actors \ {v} : todo'[a] = todo[a]
    BY <1>2 DEF Step, Load, EngineNotReady, ImagesMissing, ImagesPresent, Prepare, EngineReady,
      RecordRunning, SkipStop, Stop, StopEnds, Synced, Built, RecordRestores, Restore,
      RestoreFails, RestoreEnds, Finish, SameEnds, Aborts, Reports, Settles, Drop,
      SavesError, Returns, Clears, Lists, Batch, StopsOne, RestoresOne, batch, BatchTypes
  <2>3. todo'[v] # {} => pc'[v] \in {"restore", "restoreSame", "stop"}
    <3>1. CASE ImagesPresent(v) \/ RecordRunning(v) \/ Stop(v) \/ RecordRestores(v) \/ Restore(v)
      BY <3>1 DEF ImagesPresent, RecordRunning, Stop, RecordRestores, Restore, Goes, ControlTypes
    <3>2. CASE Returns(v, "failed") \/ Returns(v, "ok") \/ Lists(v, {})
      BY <3>2 DEF Returns, Clears, Lists, BatchTypes
    <3>3. CASE UNCHANGED todo /\ todo[v] = {}
      BY <3>3
    <3> QED
      BY <1>2, <3>1, <3>2, <3>3, <1>w DEF Step, Load, EngineNotReady, ImagesMissing, Prepare, EngineReady,
        SkipStop, StopEnds, Synced, Built, RestoreFails, RestoreEnds, Finish, SameEnds,
        Aborts, Reports, Settles, Drop, SavesError, batch, Listed
  <2>4. upc' = upc
    BY <1>2, StepFrame
  <2> QED
    BY <2>1, <2>2, <2>3, <2>4, <1>u, <1>v, <1>w, <1>x DEF Listed
<1>3. CASE Install
  <2>1. CASE Installed
    BY <2>1 DEF Installed, Ends, Listed
  <2>2. CASE Install /\ ~Installed
    <3>1. pc' = pc
      BY <2>2 DEF Install, Record, UpdaterStops, UpdaterStopped, TakeBack, UpdaterRestores,
        UpdaterRestored, UpdaterBreaks, UpdaterPanics
    <3>2. \A a \in Workers : todo'[a] = todo[a]
      BY <2>2, BundleAssumption DEF Install, Record, UpdaterStops, UpdaterStopped, TakeBack, UpdaterRestores,
        UpdaterRestored, UpdaterBreaks, UpdaterPanics, Undone, Clears, Lists, Batch, StopsOne, RestoresOne, BatchTypes
    <3>3. todo'[Updater] # {} => upc' \in Undoing \cup {"stop"}
      BY <2>2 DEF Install, Record, UpdaterStops, UpdaterStopped, TakeBack, UpdaterRestores,
        UpdaterRestored, UpdaterBreaks, UpdaterPanics, Undone, Clears, Lists, Undoing, BatchTypes
    <3> QED
      BY <3>1, <3>2, <3>3, <1>v, <1>w, <1>x DEF Listed
  <2> QED
    BY <1>3, <2>1, <2>2
<1>4. CASE World
  <2>1. UNCHANGED <<upc, pc, todo>>
    BY <1>4 DEF World, UserStarts, UserStops, DirChanges, Unwanted, Wanted, batch
  <2> QED
    BY <2>1, <1>u, <1>v, <1>w, <1>x DEF Listed
<1>5. CASE Crash \/ Quit
  BY <1>5 DEF Crash, Quit, Ends, Listed
<1> QED
  BY <1>1, <1>2, <1>3, <1>4, <1>5 DEF Next

LEMMA OverStep == ASSUME TypeOK, Next PROVE Over'
<1> USE Types DEF Over
<1>1. ASSUME NEW w \in Workers, Launch(w) \/ Retry(w) PROVE Over'
  BY <1>1 DEF Launch, Retry
<1>2. ASSUME NEW w \in Workers, Step(w) PROVE Over'
  <2>1. pc[w] # "none"
    BY <1>2 DEF Step, Load, EngineNotReady, ImagesMissing, ImagesPresent, Prepare, EngineReady,
      RecordRunning, SkipStop, Stop, StopEnds, Synced, Built, RecordRestores, Restore,
      RestoreFails, RestoreEnds, Finish, SameEnds, Aborts, Reports, Settles, Drop, Working
  <2>2. alive
    BY <2>1
  <2> QED
    BY <1>2, <2>2, StepFrame
<1>3. CASE Install
  <2>1. alive
    BY <1>3 DEF Install, Record, UpdaterStops, UpdaterStopped, TakeBack, UpdaterRestores,
      UpdaterRestored, UpdaterBreaks, UpdaterPanics, Installed, Undoing
  <2>2. CASE Installed
    BY <2>2 DEF Installed, Ends
  <2> QED
    BY <1>3, <2>1, <2>2 DEF Install, Record, UpdaterStops, UpdaterStopped, TakeBack,
      UpdaterRestores, UpdaterRestored, UpdaterBreaks, UpdaterPanics
<1>4. CASE World
  BY <1>4 DEF World, UserStarts, UserStops, DirChanges, Unwanted, Wanted
<1>5. CASE Crash \/ Quit
  BY <1>5 DEF Crash, Quit, Ends
<1> QED
  BY <1>1, <1>2, <1>3, <1>4, <1>5 DEF Next

LEMMA InitTypes == Init => TypeOK
<1> SUFFICES ASSUME Init PROVE TypeOK
  OBVIOUS
<1>1. StateTypes
  <2>1. PICK b \in BOOLEAN : disk = [Blank EXCEPT !.applied = b]
    BY DEF Init
  <2>2. [Blank EXCEPT !.applied = b] \in BundleState
    BY Zenon DEF Blank, BundleState, Phase
  <2> QED
    BY <2>1, <2>2, BlankTyped DEF Init, StateTypes
<1>2. WorldTypes
  BY DEF Init, WorldTypes
<1>3. ControlTypes
  BY DEF Init, ControlTypes, WorkerState, InstallState
<1>4. BatchTypes /\ Listed /\ Over
  BY DEF Init, BatchTypes, Listed, Over
<1>5. Lives
  BY Zenon DEF Init, Lives
<1> QED
  BY <1>1, <1>2, <1>3, <1>4, <1>5, Types

LEMMA NextTypes == TypeOK /\ [Next]_vars => TypeOK'
<1>1. ASSUME TypeOK, Next PROVE TypeOK'
  BY <1>1, NextStates, WorldStep, ControlStep, BatchStep, LivesStep, ListedStep, OverStep
    DEF TypeOK, StateTypes, WorldTypes, ControlTypes, BatchTypes, Lives, Listed, Over
<1>2. ASSUME TypeOK, UNCHANGED vars PROVE TypeOK'
  BY <1>2 DEF TypeOK, vars, Batching, InFlight
<1> QED
  BY <1>1, <1>2

(* The types of the reconcile's and the install's state, with the facts    *)
(* that a project runs or is halted, never both, that who has projects     *)
(* left to stop or restore is at it, and that nothing of the app acts      *)
(* without it.                                                             *)
THEOREM TypeCorrect == Spec => []TypeOK
  BY InitTypes, NextTypes, PTL DEF Spec

-----------------------------------------------------------------------------
(* What RestartLedger rests on: who is at work and not misled knows the    *)
(* pending list that is on disk, and while it restores, every halted       *)
(* project of that list is still to come or retained, and none that is to  *)
(* come is taken for unwanted.                                             *)
Restoring(a) == InFlight(a) \/ (a # Updater /\ pc[a] = "finish")

Informed(a) ==
  /\ st[a].pending = disk.pending
  /\ todo[a] \subseteq disk.pending
  /\ Restoring(a) =>
       /\ kept[a] \subseteq disk.pending
       /\ halted \cap disk.pending \subseteq todo[a] \cup kept[a]
       /\ cfg[a] \subseteq todo[a] /\ (todo[a] \ cfg[a]) \cap configured = {}

IInv == TypeOK /\ \A a \in AtWork \ stale : Informed(a)

(* A step of a leaves what the others do and know as it is.                *)
Frame(a) ==
  /\ \A b \in Actors \ {a} : UNCHANGED <<st[b], todo[b], kept[b], cfg[b]>>
  /\ \A w \in Workers \ {a} : pc'[w] = pc[w]
  /\ a # Updater => upc' = upc
  /\ configured' = configured

(* It misleads the others at work, or it does them no harm.                *)
Tells(a) ==
  \/ AtWork \ {a} \subseteq stale'
  \/ disk' = disk /\ halted' \subseteq halted /\ stale \ {a} \subseteq stale'

LEMMA WorkerAtWork ==
  ASSUME NEW w \in Workers
  PROVE  /\ w \in AtWork <=> pc[w] \in Working \ {"load"}
         /\ Restoring(w) <=> pc[w] \in {"restore", "restoreSame", "finish"}
         /\ Batching(w) <=> pc[w] \in {"restore", "restoreSame", "stop"}
  BY BundleAssumption DEF AtWork, Restoring, InFlight, Batching

LEMMA UpdaterAtWork ==
  /\ Updater \in AtWork <=> upc # "none"
  /\ Restoring(Updater) <=> upc \in {"undoStop", "undoInstall"}
  /\ Batching(Updater) <=> upc \in {"undoStop", "undoInstall", "stop"}
  BY BundleAssumption DEF AtWork, Restoring, InFlight, Batching, Undoing

LEMMA WorkerAtWorkNext ==
  ASSUME NEW w \in Workers
  PROVE  /\ (w \in AtWork)' <=> pc'[w] \in Working \ {"load"}
         /\ Restoring(w)' <=> pc'[w] \in {"restore", "restoreSame", "finish"}
         /\ Batching(w)' <=> pc'[w] \in {"restore", "restoreSame", "stop"}
  BY BundleAssumption DEF AtWork, Restoring, InFlight, Batching

LEMMA UpdaterAtWorkNext ==
  /\ (Updater \in AtWork)' <=> upc' # "none"
  /\ Restoring(Updater)' <=> upc' \in {"undoStop", "undoInstall"}
  /\ Batching(Updater)' <=> upc' \in {"undoStop", "undoInstall", "stop"}
  BY BundleAssumption DEF AtWork, Restoring, InFlight, Batching, Undoing

LEMMA OthersInformed ==
  ASSUME IInv, NEW a \in Actors, Frame(a), Tells(a), NEW b \in Actors \ {a}, (b \in AtWork \ stale)'
  PROVE  Informed(b)'
<1>1. b \in AtWork /\ (Restoring(b)' <=> Restoring(b))
  <2>1. CASE b = Updater
    BY <2>1, UpdaterAtWork, UpdaterAtWorkNext DEF Frame
  <2>2. CASE b \in Workers
    BY <2>2, WorkerAtWork, WorkerAtWorkNext DEF Frame
  <2> QED
    BY <2>1, <2>2
<1>2. disk' = disk /\ halted' \subseteq halted /\ b \notin stale
  BY <1>1 DEF Tells
<1>3. Informed(b)
  BY <1>1, <1>2 DEF IInv
<1> QED
  BY <1>1, <1>2, <1>3 DEF Frame, Informed

LEMMA StopsFrame ==
  ASSUME TypeOK, NEW a \in Actors, StopsOne(a), UNCHANGED <<disk, world, pc, upc, st>>
  PROVE  Frame(a) /\ Tells(a)
  BY DEF StopsOne, Disturbs, Frame, Tells, world, TypeOK

LEMMA RestoresFrame ==
  ASSUME TypeOK, NEW a \in Actors, RestoresOne(a), UNCHANGED <<disk, world, pc, upc, copies>>
  PROVE  Frame(a) /\ Tells(a)
  BY DEF RestoresOne, Dropped, Deferred, Restored, Frame, Tells, world, copies, TypeOK

LEMMA ThreadFrame ==
  ASSUME TypeOK, NEW w \in Workers, Step(w)
  PROVE  Frame(w)
<1> USE DEF world, batch, copies, TypeOK
<1>1. CASE Stop(w)
  BY <1>1, StopsFrame DEF Stop
<1>2. CASE Restore(w)
  BY <1>2, RestoresFrame DEF Restore
<1>3. CASE Load(w) \/ EngineNotReady(w) \/ ImagesMissing(w) \/ ImagesPresent(w) \/ Prepare(w) \/ EngineReady(w)
  BY <1>3, BundleAssumption DEF Load, EngineNotReady, ImagesMissing, ImagesPresent, Prepare, EngineReady,
    Goes, Returns, Clears, Batch, Saves, Writes, Frame
<1>4. CASE RecordRunning(w) \/ SkipStop(w) \/ StopEnds(w) \/ Synced(w) \/ Built(w) \/ RecordRestores(w)
  BY <1>4, BundleAssumption DEF RecordRunning, SkipStop, StopEnds, Synced, Built, RecordRestores,
    Goes, Lists, Batch, Saves, Writes, Frame
<1>5. CASE RestoreFails(w) \/ RestoreEnds(w) \/ Finish(w) \/ SameEnds(w)
  BY <1>5, BundleAssumption DEF RestoreFails, RestoreEnds, Finish, SameEnds, SavesError,
    Goes, Returns, Clears, Writes, Frame
<1>6. CASE Aborts(w) \/ Reports(w) \/ Settles(w) \/ Drop(w)
  BY <1>6, BundleAssumption DEF Aborts, Reports, Settles, Drop, SavesError, Goes, Returns, Clears, Frame
<1> QED
  BY <1>1, <1>2, <1>3, <1>4, <1>5, <1>6 DEF Step

LEMMA ThreadTells ==
  ASSUME TypeOK, NEW w \in Workers, Step(w)
  PROVE  Tells(w)
<1> USE DEF Tells, stacks, copies
<1>1. CASE Stop(w)
  BY <1>1, StopsFrame DEF Stop
<1>2. CASE Restore(w)
  BY <1>2, RestoresFrame DEF Restore
<1>3. CASE Load(w) \/ EngineNotReady(w) \/ ImagesMissing(w) \/ ImagesPresent(w) \/ Prepare(w) \/ EngineReady(w)
  BY <1>3 DEF Load, EngineNotReady, ImagesMissing, ImagesPresent, Prepare, EngineReady, Batch, Saves
<1>4. CASE RecordRunning(w) \/ SkipStop(w) \/ StopEnds(w) \/ Synced(w) \/ Built(w) \/ RecordRestores(w)
  BY <1>4 DEF RecordRunning, SkipStop, StopEnds, Synced, Built, RecordRestores, Batch, Saves
<1>5. CASE RestoreFails(w) \/ RestoreEnds(w) \/ Finish(w) \/ SameEnds(w)
  BY <1>5 DEF RestoreFails, RestoreEnds, Finish, SameEnds, SavesError, Disturbs
<1>6. CASE Aborts(w) \/ Reports(w) \/ Settles(w) \/ Drop(w)
  BY <1>6 DEF Aborts, Reports, Settles, Drop, SavesError
<1> QED
  BY <1>1, <1>2, <1>3, <1>4, <1>5, <1>6 DEF Step

LEMMA InstallFrame ==
  ASSUME TypeOK, Install, ~Installed
  PROVE  Frame(Updater) /\ Tells(Updater)
<1>1. CASE UpdaterStops
  BY <1>1, StopsFrame DEF UpdaterStops
<1>2. CASE UpdaterRestores
  BY <1>2, RestoresFrame DEF UpdaterRestores
<1>3. CASE Record \/ UpdaterStopped \/ TakeBack
  BY <1>3, BundleAssumption DEF Record, UpdaterStopped, TakeBack, Lists, Batch, Saves, Writes, Frame, Tells,
    world, stacks, copies, TypeOK
<1>4. CASE UpdaterRestored \/ UpdaterBreaks \/ UpdaterPanics
  BY <1>4, BundleAssumption DEF UpdaterRestored, UpdaterBreaks, UpdaterPanics, Undone, Clears, Frame, Tells,
    world, stacks, TypeOK
<1> QED
  BY <1>1, <1>2, <1>3, <1>4 DEF Install

(* What a step tells the one who takes it.                                 *)
LEMMA BatchInformed ==
  ASSUME TypeOK, NEW a \in Actors, NEW list \in SUBSET Projects, NEW others \in SUBSET Actors,
         Batch(a, list, others), a \notin stale',
         st'[a].pending = list, disk'.pending = list, UNCHANGED <<halted, configured>>
  PROVE  Informed(a)'
<1>1. PICK c \in {configured, {}} :
        /\ todo' = [todo EXCEPT ![a] = list]
        /\ kept' = [kept EXCEPT ![a] = {}]
        /\ cfg' = [cfg EXCEPT ![a] = list \cap c]
        /\ stale' = others \cup {x \in {a} : ~(list \cap configured \subseteq c)}
  BY DEF Batch
<1>2. todo'[a] = list /\ kept'[a] = {} /\ cfg'[a] = list \cap c
  BY <1>1 DEF TypeOK
<1>3. list \cap configured \subseteq c
  BY <1>1
<1> QED
  BY <1>2, <1>3 DEF Informed

LEMMA RestoresInformed ==
  ASSUME TypeOK, NEW a \in Actors, Restoring(a), Informed(a), RestoresOne(a), UNCHANGED <<disk, st, configured>>
  PROVE  Informed(a)'
<1>1. PICK p \in todo[a] :
        /\ todo' = [todo EXCEPT ![a] = @ \ {p}]
        /\ cfg' = [cfg EXCEPT ![a] = @ \ {p}]
        /\ Dropped(a, p) \/ Deferred(a, p) \/ Restored(a, p)
  BY DEF RestoresOne
<1>2. todo'[a] = todo[a] \ {p} /\ cfg'[a] = cfg[a] \ {p}
  BY <1>1 DEF TypeOK
<1>3. /\ kept'[a] \in {kept[a], kept[a] \cup {p}} /\ halted' \in {halted, halted \ {p}}
      /\ p \notin halted' \/ p \in kept'[a]
  BY <1>1 DEF Dropped, Deferred, Restored, TypeOK
<1> QED
  BY <1>2, <1>3 DEF Informed

LEMMA ThreadInformed ==
  ASSUME IInv, TypeOK', NEW w \in Workers, Step(w), (w \in AtWork \ stale)'
  PROVE  Informed(w)'
<1> USE DEF IInv
<1>s. st[w] \in BundleState /\ disk \in BundleState /\ st[w].pending \in SUBSET Projects /\ w \in Actors
  BY DEF TypeOK, BundleState
<1>t. ~Batching(w)' => todo'[w] = {}
  BY <1>s DEF TypeOK
<1>w. pc'[w] \in Working \ {"load"}
  BY WorkerAtWorkNext
<1>i. ASSUME w \notin stale, pc[w] \in Working \ {"load"} PROVE Informed(w)
  BY <1>i, WorkerAtWork
<1>1. CASE Load(w)
  <2>1. st'[w].pending = disk.pending /\ disk' = disk /\ pc'[w] \in {"prepare", "check"}
    BY <1>1, <1>s DEF Load, Goes, TypeOK
  <2> QED
    BY <2>1, <1>t, WorkerAtWorkNext DEF Informed
<1>2. CASE ImagesMissing(w) \/ EngineReady(w) \/ SkipStop(w) \/ StopEnds(w)
  <2>1. /\ st' = st /\ disk' = disk /\ stale' = stale
        /\ pc'[w] \in {"prepareMissing", "sync", "resources"} /\ pc[w] \in Working \ {"load"}
    BY <1>2, <1>s DEF ImagesMissing, EngineReady, SkipStop, StopEnds, copies, Goes, TypeOK, Working
  <2> QED
    BY <2>1, <1>i, <1>t, WorkerAtWorkNext DEF Informed
<1>3. CASE ImagesPresent(w)
  <2>1. w \notin stale /\ pc[w] \in Working \ {"load"}
    BY <1>3 DEF ImagesPresent, Batch, Working
  <2>2. st[w].pending = disk.pending
    BY <2>1, <1>i DEF Informed
  <2>3. Batch(w, st[w].pending, stale) /\ UNCHANGED <<disk, st, halted, configured>> /\ stale \in SUBSET Actors
    BY <1>3 DEF ImagesPresent, stacks, world, TypeOK
  <2> QED
    BY <2>2, <2>3, <1>s, BatchInformed
<1>4. CASE Prepare(w) \/ Synced(w) \/ Built(w)
  <2>1. /\ pc'[w] \in {"ensure", "sync", "build", "built"} /\ pc[w] \in Working \ {"load"}
        /\ \/ UNCHANGED <<disk, st, stale>>
           \/ \E ph \in Phase : Saves(w, [st[w] EXCEPT !.phase = ph])
    BY <1>4, <1>s DEF Prepare, Synced, Built, Goes, TypeOK, copies, Working, Phase
  <2>2. st'[w].pending = disk'.pending
    <3>1. CASE UNCHANGED <<disk, st, stale>>
      BY <2>1, <3>1, <1>i DEF Informed
    <3>2. CASE \E ph \in Phase : Saves(w, [st[w] EXCEPT !.phase = ph])
      BY <3>2 DEF Saves, Writes, TypeOK
    <3> QED
      BY <2>1, <3>1, <3>2
  <2> QED
    BY <2>1, <2>2, <1>t, WorkerAtWorkNext DEF Informed
<1>5. CASE RecordRunning(w)
  <2>1. /\ Saves(w, [st[w] EXCEPT !.pending = @ \cup up]) /\ todo' = [todo EXCEPT ![w] = up] /\ pc'[w] = "stop"
    BY <1>5, <1>s DEF RecordRunning, Lists, Goes, TypeOK
  <2>2. st'[w].pending = st[w].pending \cup up /\ disk'.pending = st[w].pending \cup up
    BY <2>1, <1>s DEF Saves, Writes, TypeOK, BundleState
  <2> QED
    BY <2>1, <2>2, WorkerAtWorkNext DEF Informed, TypeOK
<1>6. CASE Stop(w)
  <2>1. PICK p \in todo[w] : todo' = [todo EXCEPT ![w] = @ \ {p}]
    BY <1>6 DEF Stop, StopsOne
  <2>2. /\ UNCHANGED <<disk, st>> /\ w \notin stale /\ pc'[w] = "stop" /\ pc[w] \in Working \ {"load"}
    BY <1>6 DEF Stop, StopsOne, Disturbs, Working
  <2> QED
    BY <2>1, <2>2, <1>i, <1>s, WorkerAtWorkNext DEF Informed, TypeOK
<1>7. CASE RecordRestores(w)
  <2>1. PICK running \in {up, {}} :
          /\ Writes(w, [st[w] EXCEPT !.pending = @ \cup running])
          /\ Batch(w, st[w].pending \cup running, AtWork \ {w})
    BY <1>7 DEF RecordRestores
  <2>2. st'[w].pending = st[w].pending \cup running /\ disk'.pending = st[w].pending \cup running
    BY <2>1, <1>s DEF Writes, TypeOK, BundleState
  <2>3. UNCHANGED <<halted, configured>> /\ st[w].pending \cup running \in SUBSET Projects
    BY <1>7, <1>s DEF RecordRestores, stacks, world, TypeOK
  <2> QED
    BY <2>1, <2>2, <2>3, <1>s, AtWorkActors, BatchInformed
<1>8. CASE Restore(w)
  <2>1. /\ RestoresOne(w) /\ UNCHANGED <<disk, st, configured, stale>>
        /\ pc[w] \in {"restore", "restoreSame"} /\ pc[w] \in Working \ {"load"}
    BY <1>8 DEF Restore, world, copies, Working
  <2> QED
    BY <2>1, <1>i, <1>s, WorkerAtWork, RestoresInformed
<1>9. CASE RestoreEnds(w)
  <2>1. /\ Writes(w, [st[w] EXCEPT !.phase = "begun"]) /\ w \notin stale /\ pc[w] \in Working \ {"load"}
        /\ UNCHANGED <<halted, configured, todo, kept, cfg>> /\ pc[w] = "restore"
    BY <1>9 DEF RestoreEnds, Disturbs, Working, stacks, world, batch
  <2>2. st'[w].pending = st[w].pending /\ disk'.pending = st[w].pending
    BY <2>1, <1>s DEF Writes, TypeOK, BundleState
  <2> QED
    BY <2>1, <2>2, <1>i, WorkerAtWork DEF Informed
<1>10. CASE EngineNotReady(w) \/ Aborts(w) \/ Reports(w) \/ RestoreFails(w) \/ Finish(w) \/ SameEnds(w)
            \/ Settles(w) \/ Drop(w)
  BY <1>10, <1>w DEF EngineNotReady, Aborts, Reports, RestoreFails, Finish, SameEnds, Settles, Drop,
    SavesError, Returns, Goes, TypeOK, Working
<1> QED
  BY <1>1, <1>2, <1>3, <1>4, <1>5, <1>6, <1>7, <1>8, <1>9, <1>10 DEF Step

LEMMA InstallInformed ==
  ASSUME IInv, TypeOK', Install, ~Installed, (Updater \in AtWork \ stale)'
  PROVE  Informed(Updater)'
<1> USE DEF IInv
<1>s. st[Updater] \in BundleState /\ disk \in BundleState /\ Ran \in SUBSET Projects /\ Updater \in Actors
  BY DEF TypeOK, BundleState, Ran
<1>w. upc' # "none"
  BY UpdaterAtWorkNext
<1>i. ASSUME Updater \notin stale, upc # "none" PROVE Informed(Updater)
  BY <1>i, UpdaterAtWork
<1>1. CASE Record
  <2>1. PICK running \in {up, {}}, s \in Readings :
          Saves(Updater, [s EXCEPT !.phase = "pending", !.pending = running]) /\ Lists(Updater, running)
    BY <1>1 DEF Record
  <2>2. s \in BundleState
    BY <1>s, BlankTyped DEF Readings
  <2>3. st'[Updater].pending = running /\ disk'.pending = running /\ todo'[Updater] = running
    BY <2>1, <2>2 DEF Saves, Writes, Lists, TypeOK, BundleState
  <2>4. upc' = "stop"
    BY <1>1 DEF Record
  <2> QED
    BY <2>3, <2>4, UpdaterAtWorkNext DEF Informed
<1>2. CASE UpdaterStops
  <2>1. PICK p \in todo[Updater] : todo' = [todo EXCEPT ![Updater] = @ \ {p}]
    BY <1>2 DEF UpdaterStops, StopsOne
  <2>2. UNCHANGED <<disk, st>> /\ Updater \notin stale /\ upc = "stop" /\ upc' = "stop"
    BY <1>2 DEF UpdaterStops, StopsOne, Disturbs
  <2> QED
    BY <2>1, <2>2, <1>i, <1>s, UpdaterAtWorkNext DEF Informed, TypeOK
<1>3. CASE UpdaterStopped
  <2>1. UNCHANGED <<disk, st, stale>> /\ upc # "none" /\ upc' = "install" /\ todo'[Updater] = {}
    BY <1>3, <1>s DEF UpdaterStopped, Lists, copies, TypeOK
  <2> QED
    BY <2>1, <1>i, UpdaterAtWorkNext DEF Informed
<1>4. CASE TakeBack
  <2>1. /\ Batch(Updater, Ran, stale) /\ UNCHANGED <<disk, st, halted, configured>>
        /\ stale \in SUBSET Actors /\ upc # "none" /\ Updater \notin stale
    BY <1>4 DEF TakeBack, Batch, stacks, world, TypeOK
  <2>2. Ran = disk.pending /\ Ran = st[Updater].pending
    BY <2>1, <1>i DEF Informed, Ran
  <2> QED
    BY <2>1, <2>2, <1>s, BatchInformed
<1>5. CASE UpdaterRestores
  <2>1. RestoresOne(Updater) /\ UNCHANGED <<disk, st, configured, stale>> /\ upc \in {"undoStop", "undoInstall"}
    BY <1>5 DEF UpdaterRestores, world, copies, Undoing
  <2> QED
    BY <2>1, <1>i, <1>s, UpdaterAtWork, RestoresInformed
<1>6. CASE UpdaterRestored \/ UpdaterBreaks \/ UpdaterPanics
  BY <1>6, <1>w DEF UpdaterRestored, UpdaterBreaks, UpdaterPanics, Undone
<1> QED
  BY <1>1, <1>2, <1>3, <1>4, <1>5, <1>6 DEF Install

LEMMA WorldInformed ==
  ASSUME IInv, World, NEW a \in Actors, (a \in AtWork \ stale)'
  PROVE  Informed(a)'
<1>1. UNCHANGED <<disk, pc, upc, st, todo, kept, cfg>> /\ halted' \subseteq halted /\ stale \subseteq stale'
  BY DEF World, UserStarts, UserStops, DirChanges, Unwanted, Wanted, copies, batch, stacks
<1>2. AtWork' = AtWork /\ (Restoring(a)' <=> Restoring(a))
  BY <1>1 DEF AtWork, Restoring, InFlight
<1>3. Informed(a)
  BY <1>1, <1>2 DEF IInv
<1>4. Restoring(a) => (todo[a] \ cfg[a]) \cap configured' = {}
  <2>1. ASSUME NEW p \in Fickle, UserStarts(p) \/ UserStops(p) \/ DirChanges(p) \/ Unwanted(p) PROVE <1>4
    BY <2>1, <1>3 DEF UserStarts, UserStops, DirChanges, Unwanted, world, Informed
  <2>2. ASSUME NEW p \in Fickle, Wanted(p) PROVE <1>4
    <3>1. ~(InFlight(a) /\ p \in todo[a] \ cfg[a])
      BY <2>2, <1>2 DEF Wanted
    <3>2. ~InFlight(a) /\ Restoring(a) => todo[a] = {}
      <4>1. CASE a = Updater
        BY <4>1 DEF Restoring
      <4>2. CASE a \in Workers
        BY <4>2, WorkerAtWork, BundleAssumption DEF IInv, TypeOK, InFlight
      <4> QED
        BY <4>1, <4>2
    <3> QED
      BY <2>2, <3>1, <3>2, <1>3 DEF Wanted, Informed
  <2> QED
    BY <2>1, <2>2 DEF World
<1> QED
  BY <1>1, <1>2, <1>3, <1>4 DEF Informed

LEMMA Invariance == Spec => []IInv
<1>1. Init => IInv
  <2> SUFFICES ASSUME Init PROVE IInv
    OBVIOUS
  <2>1. AtWork = {}
    BY DEF Init, AtWork, Working
  <2> QED
    BY <2>1, InitTypes DEF IInv
<1>2. IInv /\ [Next]_vars => IInv'
  <2> SUFFICES ASSUME IInv, [Next]_vars PROVE IInv'
    OBVIOUS
  <2>t. TypeOK /\ TypeOK'
    BY NextTypes DEF IInv
  <2>a. AtWork' \subseteq Actors
    BY DEF AtWork
  <2> SUFFICES ASSUME NEW a \in Actors, (a \in AtWork \ stale)' PROVE Informed(a)'
    BY <2>t, <2>a DEF IInv
  <2>1. ASSUME NEW w \in Workers, Launch(w) \/ Retry(w) PROVE Informed(a)'
    <3>1. pc' = [pc EXCEPT ![w] = "load"] /\ UNCHANGED <<disk, halted, configured, upc, st, stale, todo, kept, cfg>>
      BY <2>1 DEF Launch, Retry, Enters, Goes, stacks, world, copies, batch
    <3>2. a \in Workers => pc'[a] \in Working \ {"load"}
      BY WorkerAtWorkNext
    <3>3. a \in Workers => pc'[a] = pc[a]
      BY <3>1, <3>2, <2>t DEF TypeOK
    <3>4. a \in AtWork /\ (Restoring(a)' <=> Restoring(a))
      BY <3>1, <3>3, WorkerAtWork, WorkerAtWorkNext, UpdaterAtWork, UpdaterAtWorkNext
    <3> QED
      BY <3>1, <3>4 DEF IInv, Informed
  <2>2. ASSUME NEW w \in Workers, Step(w) PROVE Informed(a)'
    BY <2>2, <2>t, ThreadInformed, ThreadFrame, ThreadTells, OthersInformed
  <2>3. CASE Install /\ ~Installed
    BY <2>3, <2>t, InstallInformed, InstallFrame, OthersInformed
  <2>4. CASE Installed \/ Crash \/ Quit
    BY <2>4 DEF Installed, Crash, Quit, Ends, AtWork, Working
  <2>5. CASE World
    BY <2>5, WorldInformed
  <2>6. CASE UNCHANGED vars
    <3>1. AtWork' = AtWork /\ (Restoring(a)' <=> Restoring(a))
      BY <2>6 DEF vars, AtWork, Restoring, InFlight
    <3> QED
      BY <2>6, <3>1 DEF vars, IInv, Informed
  <2> QED
    BY <2>1, <2>2, <2>3, <2>4, <2>5, <2>6 DEF Next
<1> QED
  BY <1>1, <1>2, PTL DEF Spec

-----------------------------------------------------------------------------
(* What may become of one project in one step, of those who are not        *)
(* misled.                                                                 *)
Explained(p) ==
  /\ p \in up \cap halted' => p \in disk'.pending
  /\ p \in halted \ (halted' \cup up') => p \notin configured \cap configured'
  /\ p \in halted \cap halted' \cap disk.pending => p \in disk'.pending \/ Record
  /\ p \in (halted \cap halted') \ disk.pending => p \notin disk'.pending

(* Containers are as they were, or start, and the list on disk stays.      *)
LEMMA CalmExplained ==
  ASSUME TypeOK, NEW p \in Projects, disk'.pending = disk.pending,
         halted' \subseteq halted, halted \subseteq halted' \cup up'
  PROVE  Explained(p)
  BY DEF Explained, TypeOK

(* A project of the list is stopped, by a stop or by a restore that fails. *)
LEMMA StopExplained ==
  ASSUME TypeOK, NEW p \in Projects, NEW down \in SUBSET disk.pending,
         halted' = halted \cup (up \cap down), disk'.pending = disk.pending
  PROVE  Explained(p)
  BY DEF Explained, TypeOK

LEMMA RestoreExplained ==
  ASSUME TypeOK, NEW p \in Projects, NEW a \in Actors, Restoring(a), Informed(a), RestoresOne(a),
         disk'.pending = disk.pending
  PROVE  Explained(p)
<1>1. PICK q \in todo[a] : Dropped(a, q) \/ Deferred(a, q) \/ Restored(a, q)
  BY DEF RestoresOne
<1>2. CASE Dropped(a, q)
  BY <1>1, <1>2 DEF Dropped, Explained, Informed, TypeOK
<1>3. CASE Deferred(a, q) \/ Restored(a, q)
  BY <1>3, CalmExplained DEF Deferred, Restored
<1> QED
  BY <1>1, <1>2, <1>3

(* The list is replaced by what a restore has retained.                    *)
LEMMA RetainedExplained ==
  ASSUME TypeOK, NEW p \in Projects, NEW a \in Actors, Restoring(a), Informed(a), todo[a] = {},
         disk'.pending \in {disk.pending, kept[a]}, UNCHANGED stacks
  PROVE  Explained(p)
  BY DEF Explained, Informed, TypeOK, stacks

(* The list grows by what runs.                                            *)
LEMMA RecordExplained ==
  ASSUME TypeOK, NEW p \in Projects, NEW running \in {up, {}}, disk'.pending = disk.pending \cup running,
         UNCHANGED stacks
  PROVE  Explained(p)
  BY DEF Explained, TypeOK, stacks

LEMMA ThreadExplained ==
  ASSUME TypeOK, NEW w \in Workers, Step(w), w \in AtWork => Informed(w), NEW p \in Projects
  PROVE  Explained(p)
<1>s. st[w] \in BundleState /\ disk \in BundleState /\ w \in Actors
  BY DEF TypeOK
<1>i. ASSUME pc[w] \in Working \ {"load"} PROVE Informed(w)
  BY <1>i, WorkerAtWork
<1>1. CASE Load(w) \/ EngineNotReady(w) \/ ImagesMissing(w) \/ ImagesPresent(w) \/ EngineReady(w)
           \/ SkipStop(w) \/ StopEnds(w) \/ Aborts(w) \/ Settles(w) \/ Drop(w)
  BY <1>1, CalmExplained DEF Load, EngineNotReady, ImagesMissing, ImagesPresent, EngineReady,
    SkipStop, StopEnds, Aborts, Settles, Drop, stacks
<1>2. CASE Prepare(w) \/ Synced(w) \/ Built(w) \/ RestoreEnds(w)
  <2>1. UNCHANGED stacks /\ st[w].pending = disk.pending
    BY <1>2, <1>i DEF Prepare, Synced, Built, RestoreEnds, Informed, Working
  <2>2. \/ disk' = disk
        \/ \E ph \in Phase : disk' = [st[w] EXCEPT !.phase = ph]
    BY <1>2 DEF Prepare, Synced, Built, RestoreEnds, Phase, Saves, Writes
  <2>3. disk'.pending = disk.pending
    BY <2>1, <2>2, <1>s DEF BundleState
  <2> QED
    BY <2>1, <2>3, CalmExplained DEF stacks
<1>3. CASE Reports(w) \/ RestoreFails(w)
  <2>1. Informed(w)
    BY <1>3, <1>i DEF Reports, RestoreFails, Working
  <2>2. disk'.pending = disk.pending
    BY <1>3, <2>1 DEF Reports, RestoreFails, SavesError, Informed
  <2>3. CASE Reports(w)
    BY <2>2, <2>3, CalmExplained DEF Reports, stacks
  <2>4. CASE RestoreFails(w)
    <3>1. PICK down \in SUBSET cfg[w] : halted' = halted \cup (up \cap down)
      BY <2>4 DEF RestoreFails, RestoreBreaks
    <3>2. cfg[w] \subseteq disk.pending
      BY <2>1, <2>4, WorkerAtWork DEF RestoreFails, Informed
    <3> QED
      BY <3>1, <3>2, <2>2, StopExplained
  <2> QED
    BY <1>3, <2>3, <2>4
<1>4. CASE RecordRunning(w) \/ RecordRestores(w)
  <2>1. UNCHANGED stacks /\ st[w].pending = disk.pending
    BY <1>4, <1>i DEF RecordRunning, RecordRestores, Informed, Working
  <2>2. PICK running \in {up, {}} : disk' = [st[w] EXCEPT !.pending = @ \cup running]
    BY <1>4 DEF RecordRunning, RecordRestores, Saves, Writes
  <2>3. disk'.pending = disk.pending \cup running
    BY <2>1, <2>2, <1>s DEF BundleState
  <2> QED
    BY <2>1, <2>3, RecordExplained
<1>5. CASE Stop(w)
  <2>1. PICK q \in todo[w] : halted' = halted \cup (up \cap {q})
    BY <1>5 DEF Stop, StopsOne
  <2>2. todo[w] \subseteq disk.pending /\ disk' = disk
    BY <1>5, <1>i DEF Stop, Informed, Working
  <2> QED
    BY <2>1, <2>2, StopExplained
<1>6. CASE Restore(w)
  <2>1. Restoring(w) /\ Informed(w) /\ RestoresOne(w) /\ disk' = disk
    BY <1>6, <1>i, WorkerAtWork DEF Restore, Working
  <2> QED
    BY <2>1, <1>s, RestoreExplained
<1>7. CASE Finish(w) \/ SameEnds(w)
  <2>1. pc[w] \in {"finish", "restoreSame"} /\ (pc[w] = "restoreSame" => todo[w] = {}) /\ UNCHANGED stacks
    BY <1>7 DEF Finish, SameEnds
  <2>2. Informed(w) /\ Restoring(w) /\ todo[w] = {}
    BY <2>1, <1>i, <1>s, WorkerAtWork DEF Working, TypeOK
  <2>3. [applied |-> TRUE, phase |-> "done", pending |-> kept[w]].pending = kept[w]
    OBVIOUS
  <2>4. [st[w] EXCEPT !.pending = kept[w]].pending = kept[w]
    BY <1>s DEF BundleState
  <2>5. disk'.pending \in {disk.pending, kept[w]}
    BY <1>7, <2>3, <2>4 DEF Finish, SameEnds
  <2> QED
    BY <2>1, <2>2, <2>5, <1>s, RetainedExplained
<1> QED
  BY <1>1, <1>2, <1>3, <1>4, <1>5, <1>6, <1>7 DEF Step

LEMMA InstallExplained ==
  ASSUME TypeOK, Install, Updater \in AtWork => Informed(Updater), NEW p \in Projects
  PROVE  Explained(p)
<1>s. /\ disk \in BundleState /\ Updater \in Actors
      /\ st[Updater] \in BundleState /\ Ran = st[Updater].pending /\ Blank \in BundleState
  BY BlankTyped DEF TypeOK, Ran
<1>i. ASSUME upc # "none" PROVE Informed(Updater)
  BY <1>i, UpdaterAtWork
<1>1. CASE Record
  <2>1. PICK running \in {up, {}}, s \in BundleState :
          disk' = [s EXCEPT !.phase = "pending", !.pending = running]
    BY <1>1, <1>s DEF Record, Readings, Saves, Writes
  <2>2. disk'.pending = running
    BY <2>1 DEF BundleState
  <2>3. UNCHANGED stacks
    BY <1>1 DEF Record
  <2> QED
    BY <1>1, <2>2, <2>3 DEF Explained, TypeOK, stacks
<1>2. CASE UpdaterStops
  <2>1. PICK q \in todo[Updater] : halted' = halted \cup (up \cap {q})
    BY <1>2 DEF UpdaterStops, StopsOne
  <2>2. todo[Updater] \subseteq disk.pending /\ disk' = disk
    BY <1>2, <1>i DEF UpdaterStops, Informed
  <2> QED
    BY <2>1, <2>2, StopExplained
<1>3. CASE UpdaterStopped \/ TakeBack \/ UpdaterPanics \/ Installed
  <2>1. UNCHANGED stacks /\ disk' \in {disk, [disk EXCEPT !.applied = FALSE]}
    BY <1>3 DEF UpdaterStopped, TakeBack, UpdaterPanics, Installed
  <2>2. [disk EXCEPT !.applied = FALSE].pending = disk.pending
    BY <1>s DEF BundleState
  <2> QED
    BY <2>1, <2>2, CalmExplained DEF stacks
<1>4. CASE UpdaterRestores
  <2>1. Restoring(Updater) /\ Informed(Updater) /\ RestoresOne(Updater) /\ disk' = disk
    BY <1>4, <1>i, UpdaterAtWork DEF UpdaterRestores, Undoing
  <2> QED
    BY <2>1, <1>s, RestoreExplained
<1>5. ASSUME NEW list, Undone(list) PROVE disk'.pending \in {disk.pending, list}
  <2>1. PICK s \in BundleState : disk' \in {disk, [s EXCEPT !.phase = "done", !.pending = list]}
    BY <1>5, <1>s DEF Undone, Readings
  <2>2. [s EXCEPT !.phase = "done", !.pending = list].pending = list
    BY DEF BundleState
  <2> QED
    BY <2>1, <2>2
<1>6. CASE UpdaterRestored
  <2>1. Restoring(Updater) /\ Informed(Updater) /\ todo[Updater] = {} /\ UNCHANGED stacks
    BY <1>6, <1>i, UpdaterAtWork DEF UpdaterRestored, Undoing
  <2>2. disk'.pending \in {disk.pending, kept[Updater]}
    BY <1>6, <1>5 DEF UpdaterRestored
  <2> QED
    BY <2>1, <2>2, <1>s, RetainedExplained
<1>7. CASE UpdaterBreaks
  <2>1. Restoring(Updater) /\ Informed(Updater)
    BY <1>7, <1>i, UpdaterAtWork DEF UpdaterBreaks, Undoing
  <2>2. disk'.pending = disk.pending
    BY <1>7, <1>5, <1>s, <2>1 DEF UpdaterBreaks, Informed
  <2>3. CASE RestoreBreaks(Updater)
    <3>1. PICK down \in SUBSET cfg[Updater] : halted' = halted \cup (up \cap down)
      BY <2>3 DEF RestoreBreaks
    <3>2. cfg[Updater] \subseteq disk.pending
      BY <2>1 DEF Informed
    <3> QED
      BY <3>1, <3>2, <2>2, StopExplained
  <2>4. CASE UNCHANGED stacks
    BY <2>2, <2>4, CalmExplained DEF stacks
  <2> QED
    BY <1>7, <2>3, <2>4 DEF UpdaterBreaks
<1> QED
  BY <1>1, <1>2, <1>3, <1>4, <1>6, <1>7 DEF Install

LEMMA NextExplained ==
  ASSUME IInv, Next, ~Misled, NEW p \in Projects
  PROVE  Explained(p)
<1>t. TypeOK /\ \A a \in AtWork : Informed(a)
  BY DEF IInv, Misled
<1>1. ASSUME NEW w \in Workers, Launch(w) \/ Retry(w) PROVE Explained(p)
  BY <1>1, <1>t, CalmExplained DEF Launch, Retry, stacks
<1>2. CASE World \/ Crash \/ Quit
  <2>1. disk' = disk /\ halted' \subseteq halted /\ halted \subseteq halted' \cup up'
    BY <1>2 DEF World, UserStarts, UserStops, DirChanges, Unwanted, Wanted, Crash, Quit, stacks
  <2> QED
    BY <1>t, <2>1, CalmExplained
<1> QED
  BY <1>1, <1>2, <1>t, ThreadExplained, InstallExplained DEF Next

(* Only what runs is stopped.                                              *)
LEMMA OnlyRunningHalted == ASSUME Next PROVE halted' \subseteq halted \cup up
<1>1. ASSUME NEW w \in Workers, Launch(w) \/ Retry(w) \/ Step(w) PROVE halted' \subseteq halted \cup up
  <2>1. CASE Stop(w) \/ Restore(w) \/ RestoreFails(w)
    BY <2>1 DEF Stop, StopsOne, Restore, RestoresOne, Dropped, Deferred, Restored, RestoreFails, RestoreBreaks
  <2> QED
    BY <1>1, <2>1 DEF Launch, Retry, Step, Load, EngineNotReady, ImagesMissing, ImagesPresent, Prepare, EngineReady,
      RecordRunning, SkipStop, StopEnds, Synced, Built, RecordRestores, RestoreEnds, Finish, SameEnds,
      Aborts, Reports, Settles, Drop, stacks
<1>2. CASE Install
  <2>1. CASE UpdaterStops \/ UpdaterRestores \/ UpdaterBreaks
    BY <2>1 DEF UpdaterStops, StopsOne, UpdaterRestores, RestoresOne, Dropped, Deferred, Restored,
      UpdaterBreaks, RestoreBreaks, stacks
  <2> QED
    BY <1>2, <2>1 DEF Install, Record, UpdaterStopped, TakeBack, UpdaterRestored, UpdaterPanics, Installed, stacks
<1>3. CASE World \/ Crash \/ Quit
  BY <1>3 DEF World, UserStarts, UserStops, DirChanges, Unwanted, Wanted, Crash, Quit, stacks
<1> QED
  BY <1>1, <1>2, <1>3 DEF Next

(* What becomes of the place of a project, whoever is misled.              *)
LEMMA Moves ==
  ASSUME IInv, TypeOK', Next, NEW p \in Projects, PlaceOf(p)' # PlaceOf(p)
  PROVE  \/ PlaceOf(p)' = "running"
         \/ PlaceOf(p) = "running" /\ PlaceOf(p)' \in {"stopped", "owed"}
         \/ PlaceOf(p) \in {"owed", "lost"} /\ PlaceOf(p)' = "stopped" /\ p \notin configured \cap configured'
         \/ PlaceOf(p) = "owed" /\ PlaceOf(p)' = "lost" /\ Record
         \/ Misled /\ PlaceOf(p) # "stopped"
<1>d. up \cap halted = {} /\ up' \cap halted' = {}
  BY DEF TypeOK, IInv
<1>h. halted' \subseteq halted \cup up
  BY OnlyRunningHalted
<1>1. CASE Misled
  BY <1>1, <1>d, <1>h DEF PlaceOf
<1>2. CASE ~Misled
  <2>1. Explained(p)
    BY <1>2, NextExplained
  <2> QED
    BY <2>1, <1>d, <1>h DEF Explained, PlaceOf
<1> QED
  BY <1>1, <1>2

LEMMA PlaceTypedNext == ASSUME NEW p \in Projects PROVE PlaceOf(p)' \in Ledger!Place
  BY DEF PlaceOf, Ledger!Place

LEMMA LedgerStep == ASSUME IInv, TypeOK', Next PROVE Ledger!Next
<1> DEFINE place == [p \in Projects |-> PlaceOf(p)]
<1>1. place' \in [Projects -> Ledger!Place]
  BY PlaceTypedNext
<1>2. Record => upc = "none" /\ upc' # "none"
  BY DEF Record
<1>3. ASSUME NEW p \in Projects, place'[p] # place[p]
      PROVE  Ledger!Started(p) \/ Ledger!Stopped(p) \/ Ledger!Lapsed(p) \/ Ledger!Overwritten(p) \/ Ledger!Mistaken(p)
  <2>1. PlaceOf(p)' # PlaceOf(p)
    BY <1>3
  <2> QED
    BY <1>2, <2>1, Moves
      DEF Ledger!Started, Ledger!Stopped, Ledger!Lapsed, Ledger!Overwritten, Ledger!Mistaken
<1> QED
  BY <1>1, <1>3 DEF Ledger!Next

(* The reconcile and the install implement RestartLedger, whatever the     *)
(* projects, the threads, the updates and the launches, and whoever works  *)
(* beside whom: what an update stops it owes a restart, and the debt goes  *)
(* with the record of another install, or by who was misled.               *)
THEOREM RefinesLedger == Spec => RestartsOwed
<1>1. Init => Ledger!Init
  <2> SUFFICES ASSUME Init PROVE Ledger!Init
    OBVIOUS
  <2>1. \A p \in Projects : PlaceOf(p) \in {"running", "stopped"}
    BY DEF Init, PlaceOf
  <2> QED
    BY <2>1 DEF Ledger!Init
<1>2. IInv /\ IInv' /\ [Next]_vars => [Ledger!Next]_[p \in Projects |-> PlaceOf(p)]
  <2>1. ASSUME IInv, IInv', Next PROVE Ledger!Next
    BY <2>1, LedgerStep DEF IInv
  <2>2. ASSUME UNCHANGED vars PROVE UNCHANGED [p \in Projects |-> PlaceOf(p)]
    BY <2>2 DEF vars, PlaceOf
  <2> QED
    BY <2>1, <2>2
<1> QED
  BY <1>1, <1>2, Invariance, PTL DEF Spec, RestartsOwed, Ledger!Spec

-----------------------------------------------------------------------------
(* "A deferred project must stay pending", which the run bundle_deferred   *)
(* refutes: it does, through every reconcile, failure, crash, exit and way *)
(* back of an install, but for the record of an install (the step that the *)
(* run shows) and for who was misled.                                      *)
THEOREM DeferredUnlessRecorded ==
  Spec => [][~Misled /\ ~Record => halted \cap halted' \cap disk.pending \subseteq disk'.pending]_vars
<1>1. IInv /\ [Next]_vars =>
        [~Misled /\ ~Record => halted \cap halted' \cap disk.pending \subseteq disk'.pending]_vars
  <2> SUFFICES ASSUME IInv, Next, ~Misled, ~Record
               PROVE  halted \cap halted' \cap disk.pending \subseteq disk'.pending
    OBVIOUS
  <2>1. \A p \in Projects : Explained(p)
    BY NextExplained
  <2> QED
    BY <2>1 DEF Explained, IInv, TypeOK
<1> QED
  BY <1>1, Invariance, PTL DEF Spec

-----------------------------------------------------------------------------
(* What misleads: two at work at a time, a state or a config that is read  *)
(* for another, or a project that the config wants again while it is left  *)
(* to restore.                                                             *)
Alone == \A a, b \in AtWork : a = b

ReadsTrue ==
  /\ \A w \in Workers : Load(w) => st'[w].pending = disk.pending
  /\ \A a \in Actors : InFlight(a)' /\ ~InFlight(a) => todo'[a] \cap configured \subseteq cfg'[a]

WantsInTime == \A p \in Fickle, a \in Actors : Wanted(p) /\ InFlight(a) => p \notin todo[a] \ cfg[a]

LEMMA BatchKnows ==
  ASSUME TypeOK, NEW a \in Actors, NEW list, NEW others, Batch(a, list, others), a \notin others,
         todo'[a] \cap configured \subseteq cfg'[a]
  PROVE  stale' = others
<1>1. PICK c \in {configured, {}} :
        /\ todo' = [todo EXCEPT ![a] = list]
        /\ cfg' = [cfg EXCEPT ![a] = list \cap c]
        /\ stale' = others \cup {x \in {a} : ~(list \cap configured \subseteq c)}
  BY DEF Batch
<1>2. todo'[a] = list /\ cfg'[a] = list \cap c
  BY <1>1 DEF TypeOK
<1> QED
  BY <1>1, <1>2

(* One at work that is not misled is not misled by itself, and misleads    *)
(* nobody else.                                                            *)
LEMMA ThreadKnows ==
  ASSUME TypeOK, ~Misled, Alone, ReadsTrue, NEW w \in Workers, Step(w)
  PROVE  ~Misled'
<1>w. w \in Actors /\ (InFlight(w) <=> pc[w] \in {"restore", "restoreSame"})
      /\ (InFlight(w)' <=> pc'[w] \in {"restore", "restoreSame"})
  BY BundleAssumption DEF InFlight
<1>1. AtWork' \subseteq AtWork \cup {w}
  <2>1. ASSUME NEW b \in AtWork', b # w PROVE b \in AtWork
    <3>1. Frame(w)
      BY ThreadFrame
    <3>2. CASE b = Updater
      BY <2>1, <3>1, <3>2, UpdaterAtWork, UpdaterAtWorkNext DEF Frame
    <3>3. CASE b \in Workers
      BY <2>1, <3>1, <3>3, WorkerAtWork, WorkerAtWorkNext DEF Frame
    <3> QED
      BY <2>1, <3>2, <3>3 DEF AtWork
  <2> QED
    BY <2>1
<1>2. CASE w \in AtWork
  <2>1. AtWork = {w} /\ w \notin stale
    BY <1>2 DEF Alone, Misled
  <2>2. w \in AtWork' => w \notin stale'
    <3>1. CASE ImagesPresent(w)
      <4>1. Batch(w, st[w].pending, stale) /\ pc[w] = "check" /\ pc'[w] = "restoreSame"
        BY <3>1, <1>w DEF ImagesPresent, Goes, TypeOK
      <4>2. todo'[w] \cap configured \subseteq cfg'[w]
        BY <4>1, <1>w DEF ReadsTrue
      <4> QED
        BY <4>1, <4>2, <2>1, <1>w, BatchKnows
    <3>2. CASE RecordRestores(w)
      <4>1. PICK running \in {up, {}} : Batch(w, st[w].pending \cup running, AtWork \ {w})
        BY <3>2 DEF RecordRestores
      <4>2. pc[w] = "built" /\ pc'[w] = "restore"
        BY <3>2, <1>w DEF RecordRestores, Goes, TypeOK
      <4>3. todo'[w] \cap configured \subseteq cfg'[w]
        BY <4>2, <1>w DEF ReadsTrue
      <4> QED
        BY <4>1, <4>3, <1>w, BatchKnows
    <3>3. CASE stale' \subseteq stale \cup (AtWork \ {w})
      BY <3>3, <2>1
    <3>4. CASE Load(w)
      BY <3>4, <1>2, WorkerAtWork DEF Load
    <3> QED
      BY <3>1, <3>2, <3>3, <3>4 DEF Step, EngineNotReady, ImagesMissing, Prepare, EngineReady,
        RecordRunning, SkipStop, Stop, StopEnds, Synced, Built, Restore, RestoreFails, RestoreEnds,
        Finish, SameEnds, Aborts, Reports, Settles, Drop, Saves, SavesError, StopsOne, Disturbs, copies
  <2> QED
    BY <1>1, <2>1, <2>2 DEF Misled
<1>3. CASE w \notin AtWork
  <2>1. pc[w] \notin Working \ {"load"}
    BY <1>3, WorkerAtWork
  <2>2. Load(w) \/ Aborts(w) \/ Settles(w) \/ Drop(w)
    BY <2>1 DEF Step, EngineNotReady, ImagesMissing, ImagesPresent, Prepare, EngineReady,
      RecordRunning, SkipStop, Stop, StopEnds, Synced, Built, RecordRestores, Restore, RestoreFails, RestoreEnds,
      Finish, SameEnds, Reports, Working
  <2>3. CASE Load(w)
    <3>1. PICK s \in Readings :
            /\ st' = [st EXCEPT ![w] = s]
            /\ stale' = (stale \ {w}) \cup {x \in {w} : s.pending # disk.pending}
      BY <2>3 DEF Load
    <3>2. s.pending = disk.pending
      BY <2>3, <3>1, <1>w DEF ReadsTrue, TypeOK
    <3> QED
      BY <3>1, <3>2, <1>1 DEF Misled
  <2>4. CASE Aborts(w)
    BY <2>4, <1>1 DEF Aborts, Misled
  <2>5. CASE Settles(w) \/ Drop(w)
    <3>1. w \notin AtWork'
      BY <2>5, <1>w, WorkerAtWorkNext DEF Settles, Drop, Goes, Working, TypeOK
    <3> QED
      BY <2>5, <3>1, <1>1 DEF Settles, Drop, copies, Misled
  <2> QED
    BY <2>2, <2>3, <2>4, <2>5
<1> QED
  BY <1>2, <1>3

LEMMA InstallKnows ==
  ASSUME TypeOK, ~Misled, Alone, Alone', ReadsTrue, Install, ~Installed
  PROVE  ~Misled'
<1>w. Updater \in Actors /\ (InFlight(Updater) <=> upc \in Undoing) /\ (InFlight(Updater)' <=> upc' \in Undoing)
  BY DEF InFlight
<1>1. AtWork' \subseteq AtWork \cup {Updater}
  <2>1. pc' = pc
    BY DEF Install, Record, UpdaterStops, UpdaterStopped, TakeBack, UpdaterRestores,
      UpdaterRestored, UpdaterBreaks, UpdaterPanics
  <2> QED
    BY <2>1 DEF AtWork
<1>2. CASE Record
  <2>1. Updater \in AtWork'
    BY <1>2, UpdaterAtWorkNext DEF Record
  <2>2. AtWork' = {Updater}
    BY <2>1 DEF Alone
  <2>3. stale' = AtWork \ {Updater}
    BY <1>2 DEF Record, Saves
  <2> QED
    BY <2>2, <2>3 DEF Misled
<1>3. CASE ~Record
  <2>1. upc # "none"
    BY <1>3 DEF Install, UpdaterStops, UpdaterStopped, TakeBack, UpdaterRestores,
      UpdaterRestored, UpdaterBreaks, UpdaterPanics, Undoing
  <2>2. AtWork = {Updater} /\ Updater \notin stale
    BY <2>1, UpdaterAtWork DEF Alone, Misled
  <2>3. CASE TakeBack
    <3>1. Batch(Updater, Ran, stale) /\ upc' \in Undoing /\ upc \notin Undoing
      BY <2>3 DEF TakeBack, Undoing
    <3>2. todo'[Updater] \cap configured \subseteq cfg'[Updater]
      BY <3>1, <1>w DEF ReadsTrue
    <3>3. stale' = stale
      BY <3>1, <3>2, <2>2, <1>w, BatchKnows
    <3> QED
      BY <3>3, <2>2, <1>1 DEF Misled
  <2>4. CASE stale' \subseteq stale \cup (AtWork \ {Updater})
    BY <2>2, <2>4, <1>1 DEF Misled
  <2> QED
    BY <1>3, <2>3, <2>4 DEF Install, UpdaterStops, UpdaterStopped, UpdaterRestores,
      UpdaterRestored, UpdaterBreaks, UpdaterPanics, Undone, StopsOne, Disturbs, copies
<1> QED
  BY <1>2, <1>3

(* Where one is at work at a time and reads what is there, nobody is       *)
(* misled: the debt of RefinesLedger is then lost to the record of another *)
(* install and to nothing else.                                            *)
THEOREM MisledOnlyBeside ==
  Spec /\ []Alone /\ [][ReadsTrue /\ WantsInTime]_vars => []~Misled
<1>1. Init => ~Misled
  BY DEF Init, Misled
<1>2. ASSUME TypeOK, Alone, Alone', ~Misled, [Next]_vars, [ReadsTrue /\ WantsInTime]_vars PROVE ~Misled'
  <2>1. CASE UNCHANGED vars
    BY <1>2, <2>1 DEF vars, Misled, AtWork
  <2>2. ASSUME Next, ReadsTrue, WantsInTime PROVE ~Misled'
    <3>1. ASSUME NEW w \in Workers, Launch(w) \/ Retry(w) PROVE ~Misled'
      <4>1. pc' = [pc EXCEPT ![w] = "load"] /\ upc' = upc /\ stale' = stale
        BY <3>1 DEF Launch, Retry, Enters, Goes, copies
      <4>2. AtWork' \subseteq AtWork
        BY <4>1, <1>2 DEF AtWork, TypeOK
      <4> QED
        BY <4>1, <4>2, <1>2 DEF Misled
    <3>2. CASE World
      <4>1. UNCHANGED <<pc, upc>>
        BY <3>2 DEF World, UserStarts, UserStops, DirChanges, Unwanted, Wanted
      <4>2. stale' = stale
        BY <3>2, <2>2, AtWorkActors DEF World, UserStarts, UserStops, DirChanges, Unwanted, Wanted, WantsInTime, copies
      <4> QED
        BY <4>1, <4>2, <1>2 DEF Misled, AtWork
    <3>3. CASE Installed \/ Crash \/ Quit
      BY <3>3 DEF Installed, Crash, Quit, Ends, Misled
    <3> QED
      BY <1>2, <2>2, <3>1, <3>2, <3>3, ThreadKnows, InstallKnows DEF Next
  <2> QED
    BY <1>2, <2>1, <2>2
<1> QED
  BY <1>1, <1>2, TypeCorrect, PTL DEF Spec

-----------------------------------------------------------------------------
(* Nobody waits for images that nobody checks or builds: the part of       *)
(* WaitersAnswered that fairness has no share in.                          *)
Served == ready \in {"Checking", "Building"} => \E w \in Workers : pc[w] # "none"

LEMMA ServedStep == ASSUME TypeOK, Next, Served PROVE Served'
<1>1. ASSUME NEW w \in Workers, Launch(w) \/ Retry(w) PROVE Served'
  BY <1>1 DEF Launch, Retry, Enters, Goes, TypeOK, Served
<1>2. ASSUME NEW w \in Workers, Step(w) PROVE Served'
  <2>1. CASE Drop(w)
    BY <2>1 DEF Drop, Served
  <2>2. CASE ~Drop(w)
    BY <1>2, <2>2 DEF Step, Load, EngineNotReady, ImagesMissing, ImagesPresent, Prepare, EngineReady,
      RecordRunning, SkipStop, Stop, StopEnds, Synced, Built, RecordRestores, Restore,
      RestoreFails, RestoreEnds, Finish, SameEnds, Aborts, Reports, Settles, Working, Goes, Returns, SavesError,
      TypeOK, Served
  <2> QED
    BY <2>1, <2>2
<1>3. CASE Crash \/ Quit \/ Installed
  BY <1>3 DEF Crash, Quit, Installed, Ends, Served
<1>4. ASSUME Install, ~Installed PROVE Served'
  BY <1>4 DEF Install, Record, UpdaterStops, UpdaterStopped, TakeBack, UpdaterRestores, UpdaterRestored,
    UpdaterBreaks, UpdaterPanics, readiness, Served
<1>5. CASE World
  BY <1>5 DEF World, UserStarts, UserStops, DirChanges, Unwanted, Wanted, readiness, Served
<1> QED
  BY <1>1, <1>2, <1>3, <1>4, <1>5 DEF Next

(* ImageReadinessGuard: while the images are said to be checked or built,  *)
(* a thread that will say otherwise is there, for any number of threads    *)
(* and through failures, panics, retries and restarts.                     *)
THEOREM WaitersAreServed == Spec => []Served
<1>1. Init => Served
  BY DEF Init, Served
<1>2. TypeOK /\ Served /\ [Next]_vars => Served'
  <2>1. ASSUME UNCHANGED vars, Served PROVE Served'
    BY <2>1 DEF vars, Served
  <2> QED
    BY <2>1, ServedStep
<1> QED
  BY <1>1, <1>2, TypeCorrect, PTL DEF Spec
=============================================================================
