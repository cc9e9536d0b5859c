------------------------ MODULE ProjectLifecycleProofs ------------------------
(***************************************************************************)
(* Proofs about ProjectLifecycle, for any projects, teardown threads,      *)
(* commands and launches: type correctness, that a switch which succeeded  *)
(* is not undone by a teardown, that a teardown on record stays on disk    *)
(* while it is owed, and that whoever waits for a teardown or for the      *)
(* images waits for somebody who goes on.                                  *)
(***************************************************************************)
EXTENDS ProjectLifecycle, TLAPS

(* The parts of TypeOK.                                                    *)
Place == {"none", "images", "engine", "wait", "joining", "start", "undo", "rollback",
          "succeeded", "engineOfRemoval", "downOfRemoval", "forget",
          "restore", "converge", "record", "spawn", "insert", "replaced"}

ConfigTypes == known \in SUBSET Projects /\ active \in known \cup {None} /\ settled \in {active, None}
StackTypes == intents \in SUBSET Projects /\ up \in SUBSET Projects /\ debt \in SUBSET Projects
AppTypes ==
  /\ alive \in BOOLEAN /\ images \in {"Checking", "Ready", "Failed"}
  /\ exiting \in {"no", "drain", "stop"} /\ drained \in SUBSET Threads
  /\ commands \in 0..MaxCommands /\ launches \in 0..MaxLaunches
  /\ crossed \in BOOLEAN
ThreadTypes ==
  /\ of \in [Threads -> Projects \cup {None}]
  /\ at \in [Threads -> {"none", "down", "clear", "done"}]
  /\ handle \in [Projects -> Threads \cup {None}]
ActorTypes ==
  /\ pc \in [Actors -> Place]
  /\ target \in [Actors -> Projects \cup {None}]
  /\ thread \in [Actors -> Threads \cup {None}] /\ joins \in [Actors -> Threads \cup {None}]
  /\ previous \in Projects \cup {None} /\ crashed \in SUBSET Projects

LEMMA Types == TypeOK <=> ConfigTypes /\ StackTypes /\ AppTypes /\ ThreadTypes /\ ActorTypes
BY DEF TypeOK, ConfigTypes, StackTypes, AppTypes, ThreadTypes, ActorTypes, Place

-----------------------------------------------------------------------------
(* What holds besides the types.                                           *)

Switching == {"images", "engine", "wait", "joining", "start", "undo", "rollback"}
Removing == {"engineOfRemoval", "downOfRemoval", "forget"}

(* A switch under way has nothing to hold yet and can still go back; a     *)
(* removal never has the active project.                                   *)
Underway ==
  /\ pc["command"] \in Switching =>
       settled = None /\ previous \in known \cup {None} /\ target["command"] = active
  /\ pc["command"] \in Removing => target["command"] # active

(* Who acts on a project has one.                                          *)
Targets ==
  /\ pc["command"] # "none" => target["command"] \in Projects
  /\ pc["reconcile"] \in {"record", "spawn", "insert"} => target["reconcile"] \in Projects

(* Only a running app has a command, a reconcile or a switch that holds.   *)
Lives == ~alive => pc = Idle /\ settled = None

(* A switch waits for the images, which the reconcile makes ready only     *)
(* when it is over.                                                        *)
AfterImages == {"engine", "wait", "joining", "start", "succeeded", "record", "spawn", "insert", "replaced"}
ImagesFirst ==
  /\ pc["reconcile"] # "none" => images = "Checking"
  /\ pc["command"] \in AfterImages \/ settled # None => images = "Ready"

(* A thread that tears down is in the registry, or its spawner is about to *)
(* put it there, or somebody waits for it.                                 *)
Tracked(t) ==
  \/ handle[of[t]] = t
  \/ \E a \in Actors : pc[a] = "insert" /\ thread[a] = t /\ target[a] = of[t]
  \/ \E a \in Actors : pc[a] \in {"joining", "replaced"} /\ joins[a] = t /\ target[a] = of[t]
Held == exiting = "no" => \A t \in Threads : at[t] = "down" => Tracked(t)

(* From the wait on there is no handle of the project, and after it no     *)
(* thread.                                                                 *)
Free == pc["command"] \in {"joining", "start", "succeeded"} => handle[target["command"]] = None
Clean ==
  pc["command"] \in {"start", "succeeded"} /\ exiting = "no" =>
    \A t \in Threads : at[t] = "down" => of[t] # target["command"]

Succeeded == pc["command"] = "succeeded" => settled = target["command"]

(* A thread that is about to clear an intent has paid the debt.            *)
Paid == crossed \/ \A t \in Threads : at[t] = "clear" => of[t] \notin debt

Control == Underway /\ Targets /\ Lives /\ ImagesFirst
IInv == TypeOK /\ Control /\ Held /\ Free /\ Clean /\ Succeeded /\ SwitchHolds /\ Paid /\ DebtOnDisk

-----------------------------------------------------------------------------
(* Types.                                                                  *)

LEMMA ConfigStep == ASSUME TypeOK, Underway, Targets, Next PROVE ConfigTypes'
<1>1. /\ ConfigTypes
      /\ previous \in Projects \cup {None}
      /\ target["command"] \in Projects \cup {None}
  BY Types DEF ActorTypes, Actors
<1> USE DEF ConfigTypes, config, history
<1>2. CASE \E p \in Projects : Switch(p) \/ Add(p) \/ Remove(p)
  BY <1>1, <1>2 DEF Switch, Add, Remove
<1>3. CASE Rollback
  BY <1>1, <1>3 DEF Rollback, Passes, Underway, Switching
<1>4. CASE Forget
  BY <1>1, <1>4 DEF Forget, Passes, Underway, Removing
<1>5. CASE Started
  <2>1. settled' = target["command"] /\ active' = active /\ known' = known /\ target["command"] = active
    BY <1>5 DEF Started, Passes, Underway, Switching
  <2> QED
    BY <1>1, <1>5, <2>1
<1>6. CASE Quit \/ Crash
  BY <1>1, <1>6 DEF Quit, Crash, Ends
<1>7. CASE \/ ImagesReady \/ ImagesNotReady \/ EngineReady \/ EngineFails \/ Wait \/ Waited
           \/ StartFails \/ TaskDies \/ Undo \/ Succeeds \/ RemovalReady \/ RemovalDown \/ RemovalFails
  BY <1>1, <1>7 DEF ImagesReady, ImagesNotReady, EngineReady, EngineFails, Wait, Waited, StartFails,
    TaskDies, Undo, Succeeds, RemovalReady, RemovalDown, RemovalFails
<1>8. ASSUME NEW a \in Actors, SpawnStep(a) PROVE ConfigTypes'
  BY <1>1, <1>8 DEF SpawnStep, Record, Spawn, Insert, Replaced
<1>9. CASE ReconcileLeaves \/ ReadIntents \/ Converge \/ Release \/ Launch \/ Retry \/ BeginExit \/ Drained
  BY <1>1, <1>9 DEF ReconcileLeaves, ReadIntents, Converge, Release, Launch, Retry, BeginExit, Drained
<1>10. CASE \E t \in Threads : ThreadStep(t)
  BY <1>1, <1>10 DEF ThreadStep, TearsDown, TearDownFails, Clears
<1>11. CASE \E p \in Projects : UserStarts(p) \/ UserStops(p)
  BY <1>1, <1>11 DEF UserStarts, UserStops
<1> QED
  BY <1>2, <1>3, <1>4, <1>5, <1>6, <1>7, <1>8, <1>9, <1>10, <1>11 DEF Next, CommandStep, ReconcileStep, Actors

LEMMA StackStep == ASSUME TypeOK, Targets, Next PROVE StackTypes'
<1>1. /\ StackTypes
      /\ known \in SUBSET Projects
      /\ \A a \in Actors : target[a] \in Projects \cup {None}
  BY Types DEF ActorTypes, ConfigTypes
<1> USE DEF StackTypes, stacks
<1>2. CASE \E p \in Projects : Switch(p) \/ Add(p) \/ Remove(p)
  BY <1>1, <1>2 DEF Switch, Add, Remove, Begins
<1>3. CASE Started \/ StartFails \/ Undo \/ RemovalDown
  <2>1. target["command"] \in Projects
    BY <1>3 DEF Started, StartFails, Undo, RemovalDown, Passes, Targets
  <2> QED
    BY <1>1, <1>3, <2>1 DEF Started, StartFails, Undo, RemovalDown, Up, Down
<1>4. CASE \/ ImagesReady \/ ImagesNotReady \/ EngineReady \/ EngineFails \/ Wait \/ Waited
           \/ TaskDies \/ Rollback \/ Succeeds \/ RemovalReady \/ RemovalFails \/ Forget
  BY <1>1, <1>4 DEF ImagesReady, ImagesNotReady, EngineReady, EngineFails, Wait, Waited, TaskDies,
    Rollback, Succeeds, RemovalReady, RemovalFails, Forget
<1>5. ASSUME NEW a \in Actors, SpawnStep(a) PROVE StackTypes'
  <2>1. CASE Record(a)
    <3>1. target[a] \in Projects
      BY <2>1 DEF Record, Passes, Targets, Actors
    <3> QED
      BY <1>1, <2>1, <3>1 DEF Record
  <2> QED
    BY <1>1, <1>5, <2>1 DEF SpawnStep, Spawn, Insert, Replaced
<1>6. CASE \E t \in Threads : ThreadStep(t)
  BY <1>1, <1>6 DEF ThreadStep, TearsDown, TearDownFails, Clears, Down
<1>7. CASE ReadIntents
  BY <1>1, <1>7 DEF ReadIntents
<1>8. CASE ReconcileLeaves \/ Converge \/ Release \/ Launch \/ Retry \/ BeginExit \/ Drained
  BY <1>1, <1>8 DEF ReconcileLeaves, Converge, Release, Launch, Retry, BeginExit, Drained
<1>9. CASE Quit \/ Crash
  BY <1>1, <1>9 DEF Quit, Crash, Ends
<1>10. CASE \E p \in Projects : UserStarts(p) \/ UserStops(p)
  BY <1>1, <1>10 DEF UserStarts, UserStops, Up, Down
<1> QED
  BY <1>2, <1>3, <1>4, <1>5, <1>6, <1>7, <1>8, <1>9, <1>10 DEF Next, CommandStep, ReconcileStep, Actors

LEMMA AppStep == ASSUME TypeOK, Next PROVE AppTypes'
<1>1. AppTypes /\ ThreadTypes
  BY Types
<1> USE LifecycleAssumption DEF AppTypes, app, history
<1>2. CASE \E p \in Projects : Switch(p) \/ Add(p) \/ Remove(p)
  <2>1. UNCHANGED <<app, crossed>> /\ commands < MaxCommands /\ commands' = commands + 1
    BY <1>2 DEF Switch, Add, Remove, Begins
  <2>2. commands' \in 0..MaxCommands
    BY <1>1, <2>1
  <2> QED
    BY <1>1, <2>1, <2>2
<1>3. CASE \/ ImagesReady \/ ImagesNotReady \/ EngineReady \/ EngineFails \/ Wait \/ Waited \/ Started
           \/ StartFails \/ TaskDies \/ Undo \/ Rollback \/ Succeeds
           \/ RemovalReady \/ RemovalDown \/ RemovalFails \/ Forget
  BY <1>1, <1>3 DEF ImagesReady, ImagesNotReady, EngineReady, EngineFails, Wait, Waited, Started, StartFails,
    TaskDies, Undo, Rollback, Succeeds, RemovalReady, RemovalDown, RemovalFails, Forget, Passes, EndsJoin
<1>4. ASSUME NEW a \in Actors, SpawnStep(a) PROVE AppTypes'
  <2>1. CASE Record(a)
    <3>1. crossed' \in BOOLEAN
      BY <1>1, <2>1 DEF Record
    <3> QED
      BY <1>1, <2>1, <3>1 DEF Record, Passes
  <2> QED
    BY <1>1, <1>4, <2>1 DEF SpawnStep, Spawn, Insert, Replaced, EndsJoin
<1>5. CASE \E t \in Threads : ThreadStep(t)
  BY <1>1, <1>5 DEF ThreadStep, TearsDown, TearDownFails, Clears, actors
<1>6. CASE Launch \/ Retry \/ ReconcileLeaves \/ ReadIntents \/ Converge \/ Release
  <2>1. CASE Launch
    <3>1. launches' \in 0..MaxLaunches
      BY <1>1, <2>1 DEF Launch
    <3> QED
      BY <1>1, <2>1, <3>1 DEF Launch
  <2> QED
    BY <1>1, <1>6, <2>1 DEF Retry, ReconcileLeaves, ReadIntents, Converge, Release, Passes
<1>7. CASE BeginExit \/ Drained
  BY <1>1, <1>7 DEF BeginExit, Drained, ThreadTypes, actors
<1>8. CASE Quit \/ Crash
  BY <1>1, <1>8 DEF Quit, Crash, Ends
<1>9. CASE \E p \in Projects : UserStarts(p) \/ UserStops(p)
  BY <1>1, <1>9 DEF UserStarts, UserStops, actors
<1> QED
  BY <1>2, <1>3, <1>4, <1>5, <1>6, <1>7, <1>8, <1>9 DEF Next, CommandStep, ReconcileStep, Actors

LEMMA ThreadStepTypes == ASSUME TypeOK, Targets, Next PROVE ThreadTypes'
<1>1. ThreadTypes /\ ActorTypes
  BY Types
<1> USE DEF ThreadTypes, teardowns
<1>2. CASE \E p \in Projects : Switch(p) \/ Add(p) \/ Remove(p)
  BY <1>1, <1>2 DEF Switch, Add, Remove, Begins
<1>3. CASE \/ ImagesReady \/ ImagesNotReady \/ EngineReady \/ EngineFails \/ Waited \/ Started
           \/ StartFails \/ TaskDies \/ Undo \/ Rollback \/ Succeeds
           \/ RemovalReady \/ RemovalDown \/ RemovalFails \/ Forget
  BY <1>1, <1>3 DEF ImagesReady, ImagesNotReady, EngineReady, EngineFails, Waited, Started, StartFails,
    TaskDies, Undo, Rollback, Succeeds, RemovalReady, RemovalDown, RemovalFails, Forget
<1>4. CASE Wait
  BY <1>1, <1>4 DEF Wait
<1>5. ASSUME NEW a \in Actors, SpawnStep(a) PROVE ThreadTypes'
  <2>1. target[a] \in Projects \cup {None} /\ thread[a] \in Threads \cup {None}
    BY <1>1 DEF ActorTypes
  <2>2. CASE Spawn(a)
    BY <1>1, <2>1, <2>2 DEF Spawn
  <2>3. CASE Insert(a)
    BY <1>1, <2>1, <2>3 DEF Insert
  <2>4. CASE Record(a) \/ Replaced(a)
    BY <1>1, <2>4 DEF Record, Replaced
  <2> QED
    BY <1>5, <2>2, <2>3, <2>4 DEF SpawnStep
<1>6. CASE \E t \in Threads : ThreadStep(t)
  BY <1>1, <1>6 DEF ThreadStep, TearsDown, TearDownFails, Clears
<1>7. CASE Launch \/ Retry \/ ReconcileLeaves \/ ReadIntents \/ Converge \/ Release \/ BeginExit \/ Drained
  BY <1>1, <1>7 DEF Launch, Retry, ReconcileLeaves, ReadIntents, Converge, Release, BeginExit, Drained
<1>8. CASE Quit \/ Crash
  BY <1>1, <1>8 DEF Quit, Crash, Ends
<1>9. CASE \E p \in Projects : UserStarts(p) \/ UserStops(p)
  BY <1>1, <1>9 DEF UserStarts, UserStops
<1> QED
  BY <1>2, <1>3, <1>4, <1>5, <1>6, <1>7, <1>8, <1>9 DEF Next, CommandStep, ReconcileStep, Actors

LEMMA ActorStepTypes == ASSUME TypeOK, Targets, Next PROVE ActorTypes'
<1>1. ConfigTypes /\ StackTypes /\ ThreadTypes /\ ActorTypes
  BY Types
<1>2. "command" \in Actors /\ "reconcile" \in Actors
  BY DEF Actors
<1> USE DEF ActorTypes, Goes, actors
<1>3. CASE \E p \in Projects : Switch(p) \/ Add(p) \/ Remove(p)
  BY <1>1, <1>2, <1>3 DEF Switch, Add, Remove, Begins, ConfigTypes, Place
<1>4. CASE \/ ImagesReady \/ ImagesNotReady \/ EngineReady \/ EngineFails \/ Started
           \/ StartFails \/ TaskDies \/ Undo \/ Rollback
           \/ RemovalReady \/ RemovalDown \/ RemovalFails \/ Forget
  <2>1. UNCHANGED <<target, thread, joins, previous, crashed>> /\ \E q \in Place : Goes("command", q)
    BY <1>4 DEF ImagesReady, ImagesNotReady, EngineReady, EngineFails, Started, StartFails,
      TaskDies, Undo, Rollback, RemovalReady, RemovalDown, RemovalFails, Forget, Passes, Place
  <2> QED
    BY <1>1, <2>1
<1>5. CASE Wait
  <2>1. handle[target["command"]] \in Threads \cup {None}
    BY <1>1, <1>5 DEF Wait, Targets, ThreadTypes
  <2> QED
    BY <1>1, <1>2, <1>5, <2>1 DEF Wait, Place
<1>6. CASE Waited \/ Succeeds
  BY <1>1, <1>2, <1>6 DEF Waited, EndsJoin, Succeeds, Place
<1>7. ASSUME NEW a \in Actors, SpawnStep(a) PROVE ActorTypes'
  <2>1. CASE Record(a)
    BY <1>1, <2>1 DEF Record, Passes, Place
  <2>2. CASE Spawn(a)
    BY <1>1, <2>2 DEF Spawn, Place
  <2>3. CASE Insert(a)
    <3>1. handle[target[a]] \in Threads \cup {None}
      BY <1>1, <2>3 DEF Insert, Targets, ThreadTypes, Actors
    <3> QED
      BY <1>1, <2>3, <3>1 DEF Insert, Place
  <2>4. CASE Replaced(a)
    BY <1>1, <2>4 DEF Replaced, EndsJoin, Place
  <2> QED
    BY <1>7, <2>1, <2>2, <2>3, <2>4 DEF SpawnStep
<1>8. CASE \E t \in Threads : ThreadStep(t)
  BY <1>1, <1>8 DEF ThreadStep, TearsDown, TearDownFails, Clears
<1>9. CASE Launch \/ Retry \/ ReconcileLeaves \/ Release
  BY <1>1, <1>2, <1>9 DEF Launch, Retry, ReconcileLeaves, Release, Passes, Place
<1>10. CASE ReadIntents \/ Converge
  BY <1>1, <1>2, <1>10 DEF ReadIntents, Converge, StackTypes, Place
<1>11. CASE BeginExit \/ Drained
  BY <1>1, <1>11 DEF BeginExit, Drained
<1>12. CASE Quit \/ Crash
  BY <1>1, <1>12 DEF Quit, Crash, Ends, Idle, Place
<1>13. CASE \E p \in Projects : UserStarts(p) \/ UserStops(p)
  BY <1>1, <1>13 DEF UserStarts, UserStops
<1> QED
  BY <1>2, <1>3, <1>4, <1>5, <1>6, <1>7, <1>8, <1>9, <1>10, <1>11, <1>12, <1>13
  DEF Next, CommandStep, ReconcileStep

-----------------------------------------------------------------------------
(* Control.                                                                *)

LEMMA UnderwayStep == ASSUME TypeOK, Underway, Lives, Next PROVE Underway'
<1>1. /\ pc \in [Actors -> Place] /\ target \in [Actors -> Projects \cup {None}]
      /\ active \in known \cup {None} /\ previous \in Projects \cup {None}
  BY Types DEF ActorTypes, ConfigTypes
<1>2. "command" \in Actors /\ "reconcile" \in Actors /\ None \notin Projects
  BY LifecycleAssumption DEF Actors
<1> USE DEF Underway, Switching, Removing, Goes, config, history
<1>3. ASSUME NEW p \in Projects, Switch(p) \/ Add(p) \/ Remove(p) PROVE Underway'
  BY <1>1, <1>2, <1>3 DEF Switch, Add, Remove, Begins
<1>4. CASE ImagesReady \/ ImagesNotReady \/ EngineReady \/ EngineFails
  BY <1>1, <1>2, <1>4 DEF ImagesReady, ImagesNotReady, EngineReady, EngineFails, Passes
<1>5. CASE Wait \/ Waited
  BY <1>1, <1>2, <1>5 DEF Wait, Waited, EndsJoin
<1>6. CASE Started \/ StartFails \/ TaskDies \/ Undo
  BY <1>1, <1>2, <1>6 DEF Started, StartFails, TaskDies, Undo, Passes
<1>7. CASE Rollback \/ Succeeds
  BY <1>1, <1>2, <1>7 DEF Rollback, Succeeds, Passes
<1>8. CASE RemovalReady \/ RemovalDown \/ RemovalFails \/ Forget
  BY <1>1, <1>2, <1>8 DEF RemovalReady, RemovalDown, RemovalFails, Forget, Passes
<1>9. ASSUME NEW a \in Actors, SpawnStep(a) PROVE Underway'
  <2>1. CASE Record(a)
    BY <1>1, <1>2, <2>1 DEF Record, Passes, Actors
  <2>2. CASE Spawn(a)
    BY <1>1, <1>2, <2>2 DEF Spawn, Actors
  <2>3. CASE Insert(a)
    BY <1>1, <1>2, <2>3 DEF Insert, Actors
  <2>4. CASE Replaced(a)
    BY <1>1, <1>2, <2>4 DEF Replaced, EndsJoin, Actors
  <2> QED
    BY <1>9, <2>1, <2>2, <2>3, <2>4 DEF SpawnStep
<1>10. CASE \E t \in Threads : ThreadStep(t)
  BY <1>10 DEF ThreadStep, TearsDown, TearDownFails, Clears, actors
<1>11. CASE Launch \/ Retry \/ ReconcileLeaves
  BY <1>1, <1>2, <1>11 DEF Launch, Retry, ReconcileLeaves, Passes, Idle, Lives
<1>12. CASE ReadIntents \/ Converge \/ Release
  BY <1>1, <1>2, <1>12 DEF ReadIntents, Converge, Release, Passes
<1>13. CASE BeginExit \/ Drained
  BY <1>13 DEF BeginExit, Drained, actors
<1>14. CASE Quit \/ Crash
  BY <1>1, <1>2, <1>14 DEF Quit, Crash, Ends, Idle
<1>15. CASE \E p \in Projects : UserStarts(p) \/ UserStops(p)
  BY <1>15 DEF UserStarts, UserStops, actors
<1> QED
  BY <1>2, <1>3, <1>4, <1>5, <1>6, <1>7, <1>8, <1>9, <1>10, <1>11, <1>12, <1>13, <1>14, <1>15
  DEF Next, CommandStep, ReconcileStep

LEMMA TargetsStep == ASSUME TypeOK, Targets, Lives, Next PROVE Targets'
<1>1. /\ pc \in [Actors -> Place] /\ target \in [Actors -> Projects \cup {None}]
      /\ previous \in Projects \cup {None} /\ crashed \in SUBSET Projects
  BY Types DEF ActorTypes, ConfigTypes
<1>2. "command" \in Actors /\ "reconcile" \in Actors /\ None \notin Projects
  BY LifecycleAssumption DEF Actors
<1> USE DEF Targets, Goes
<1>3. ASSUME NEW p \in Projects, Switch(p) \/ Add(p) \/ Remove(p) PROVE Targets'
  BY <1>1, <1>2, <1>3 DEF Switch, Add, Remove, Begins
<1>4. CASE ImagesReady \/ ImagesNotReady \/ EngineReady \/ EngineFails
  BY <1>1, <1>2, <1>4 DEF ImagesReady, ImagesNotReady, EngineReady, EngineFails, Passes
<1>5. CASE Wait \/ Waited
  BY <1>1, <1>2, <1>5 DEF Wait, Waited, EndsJoin
<1>6. CASE Started \/ StartFails \/ TaskDies \/ Undo
  BY <1>1, <1>2, <1>6 DEF Started, StartFails, TaskDies, Undo, Passes
<1>7. CASE Rollback \/ Succeeds
  BY <1>1, <1>2, <1>7 DEF Rollback, Succeeds, Passes
<1>8. CASE RemovalReady \/ RemovalDown \/ RemovalFails \/ Forget
  BY <1>1, <1>2, <1>8 DEF RemovalReady, RemovalDown, RemovalFails, Forget, Passes
<1>9. ASSUME NEW a \in Actors, SpawnStep(a) PROVE Targets'
  <2>1. CASE Record(a)
    BY <1>1, <1>2, <2>1 DEF Record, Passes, Actors
  <2>2. CASE Spawn(a)
    BY <1>1, <1>2, <2>2 DEF Spawn, Actors
  <2>3. CASE Insert(a)
    BY <1>1, <1>2, <2>3 DEF Insert, Actors
  <2>4. CASE Replaced(a)
    BY <1>1, <1>2, <2>4 DEF Replaced, EndsJoin, Actors
  <2> QED
    BY <1>9, <2>1, <2>2, <2>3, <2>4 DEF SpawnStep
<1>10. CASE \E t \in Threads : ThreadStep(t)
  BY <1>10 DEF ThreadStep, TearsDown, TearDownFails, Clears, actors
<1>11. CASE Launch \/ Retry \/ ReconcileLeaves
  BY <1>1, <1>2, <1>11 DEF Launch, Retry, ReconcileLeaves, Passes, Idle, Lives
<1>12. CASE ReadIntents \/ Converge \/ Release
  BY <1>1, <1>2, <1>12 DEF ReadIntents, Converge, Release, Passes
<1>13. CASE BeginExit \/ Drained
  BY <1>13 DEF BeginExit, Drained, actors
<1>14. CASE Quit \/ Crash
  BY <1>1, <1>2, <1>14 DEF Quit, Crash, Ends, Idle
<1>15. CASE \E p \in Projects : UserStarts(p) \/ UserStops(p)
  BY <1>15 DEF UserStarts, UserStops, actors
<1> QED
  BY <1>2, <1>3, <1>4, <1>5, <1>6, <1>7, <1>8, <1>9, <1>10, <1>11, <1>12, <1>13, <1>14, <1>15
  DEF Next, CommandStep, ReconcileStep

LEMMA LivesStep == ASSUME TypeOK, Lives, Next PROVE Lives'
<1>1. alive \in BOOLEAN /\ pc \in [Actors -> Place]
  BY Types DEF AppTypes, ActorTypes
<1>2. "command" \in Actors /\ "reconcile" \in Actors
  BY DEF Actors
<1>3. ASSUME NEW a \in Actors, pc[a] # "none" PROVE alive
  BY <1>3 DEF Lives, Idle
<1>4. CASE \E p \in Projects : Switch(p) \/ Add(p) \/ Remove(p)
  <2>1. alive /\ alive' = alive
    BY <1>4 DEF Switch, Add, Remove, Begins, app
  <2> QED
    BY <2>1 DEF Lives
<1>5. CASE CommandStep
  <2>1. pc["command"] # "none" /\ alive' = alive
    <3>1. ASSUME SpawnStep("command") PROVE pc["command"] # "none" /\ alive' = alive
      BY <3>1 DEF SpawnStep, Record, Spawn, Insert, Replaced, EndsJoin, Passes, app
    <3>2. CASE ~SpawnStep("command")
      BY <1>5, <3>2 DEF CommandStep, ImagesReady, ImagesNotReady, EngineReady, EngineFails, Wait, Waited, Started,
        StartFails, TaskDies, Undo, Rollback, Succeeds, RemovalReady, RemovalDown, RemovalFails, Forget,
        Passes, EndsJoin, app
    <3> QED
      BY <3>1, <3>2
  <2> QED
    BY <1>2, <1>3, <2>1 DEF Lives
<1>6. CASE ReconcileStep
  <2>1. pc["reconcile"] # "none" /\ alive' = alive
    <3>1. ASSUME SpawnStep("reconcile") PROVE pc["reconcile"] # "none" /\ alive' = alive
      BY <3>1 DEF SpawnStep, Record, Spawn, Insert, Replaced, EndsJoin, Passes, app
    <3>2. CASE ~SpawnStep("reconcile")
      BY <1>6, <3>2 DEF ReconcileStep, ReconcileLeaves, ReadIntents, Converge, Release, Passes, app
    <3> QED
      BY <3>1, <3>2
  <2> QED
    BY <1>2, <1>3, <2>1 DEF Lives
<1>7. CASE \E t \in Threads : ThreadStep(t)
  <2>1. UNCHANGED <<alive, pc, settled>>
    BY <1>7 DEF ThreadStep, TearsDown, TearDownFails, Clears, app, actors, history
  <2> QED
    BY <2>1 DEF Lives, Idle
<1>8. CASE Launch
  <2>1. alive'
    BY <1>8 DEF Launch
  <2> QED
    BY <2>1 DEF Lives
<1>9. CASE Retry
  <2>1. alive /\ alive' = alive
    BY <1>9 DEF Retry
  <2> QED
    BY <2>1 DEF Lives
<1>10. CASE Quit \/ Crash
  BY <1>10 DEF Quit, Crash, Ends, Lives, Idle
<1>11. CASE BeginExit \/ Drained \/ \E p \in Projects : UserStarts(p) \/ UserStops(p)
  <2>1. UNCHANGED <<alive, pc, settled>>
    BY <1>11 DEF BeginExit, Drained, UserStarts, UserStops, app, actors, history
  <2> QED
    BY <2>1 DEF Lives, Idle
<1> QED
  BY <1>4, <1>5, <1>6, <1>7, <1>8, <1>9, <1>10, <1>11 DEF Next

LEMMA ImagesFirstStep == ASSUME TypeOK, Underway, Lives, ImagesFirst, Next PROVE ImagesFirst'
<1>1. /\ pc \in [Actors -> Place] /\ target \in [Actors -> Projects \cup {None}]
      /\ settled \in {active, None}
  BY Types DEF ActorTypes, ConfigTypes
<1>2. "command" \in Actors /\ "reconcile" \in Actors /\ None \notin Projects
  BY LifecycleAssumption DEF Actors
<1> USE DEF ImagesFirst, AfterImages, Goes, app, history
<1>3. ASSUME NEW p \in Projects, Switch(p) \/ Add(p) \/ Remove(p) PROVE ImagesFirst'
  BY <1>1, <1>2, <1>3 DEF Switch, Add, Remove, Begins
<1>4. CASE ImagesReady \/ ImagesNotReady \/ EngineReady \/ EngineFails
  BY <1>1, <1>2, <1>4 DEF ImagesReady, ImagesNotReady, EngineReady, EngineFails, Passes
<1>5. CASE Wait \/ Waited
  BY <1>1, <1>2, <1>5 DEF Wait, Waited, EndsJoin
<1>6. CASE Started \/ StartFails \/ TaskDies \/ Undo
  BY <1>1, <1>2, <1>6 DEF Started, StartFails, TaskDies, Undo, Passes
<1>7. CASE Rollback \/ Succeeds
  BY <1>1, <1>2, <1>7 DEF Rollback, Succeeds, Passes
<1>8. CASE RemovalReady \/ RemovalDown \/ RemovalFails \/ Forget
  BY <1>1, <1>2, <1>8 DEF RemovalReady, RemovalDown, RemovalFails, Forget, Passes
<1>9. ASSUME NEW a \in Actors, SpawnStep(a) PROVE ImagesFirst'
  <2>1. CASE Record(a)
    BY <1>1, <1>2, <2>1 DEF Record, Passes, Actors
  <2>2. CASE Spawn(a)
    BY <1>1, <1>2, <2>2 DEF Spawn, Actors
  <2>3. CASE Insert(a)
    BY <1>1, <1>2, <2>3 DEF Insert, Actors
  <2>4. CASE Replaced(a)
    BY <1>1, <1>2, <2>4 DEF Replaced, EndsJoin, Actors
  <2> QED
    BY <1>9, <2>1, <2>2, <2>3, <2>4 DEF SpawnStep
<1>10. CASE \E t \in Threads : ThreadStep(t)
  BY <1>10 DEF ThreadStep, TearsDown, TearDownFails, Clears, actors
<1>11. CASE Launch \/ Retry \/ ReconcileLeaves
  BY <1>1, <1>2, <1>11 DEF Launch, Retry, ReconcileLeaves, Passes, Idle, Lives
<1>12. CASE ReadIntents \/ Converge \/ Release
  BY <1>1, <1>2, <1>12 DEF ReadIntents, Converge, Release, Passes
<1>13. CASE BeginExit \/ Drained
  BY <1>13 DEF BeginExit, Drained, actors
<1>14. CASE Quit \/ Crash
  BY <1>1, <1>2, <1>14 DEF Quit, Crash, Ends, Idle
<1>15. CASE \E p \in Projects : UserStarts(p) \/ UserStops(p)
  BY <1>15 DEF UserStarts, UserStops, actors
<1> QED
  BY <1>2, <1>3, <1>4, <1>5, <1>6, <1>7, <1>8, <1>9, <1>10, <1>11, <1>12, <1>13, <1>14, <1>15
  DEF Next, CommandStep, ReconcileStep

-----------------------------------------------------------------------------
(* The threads.                                                            *)

(* A step of somebody who neither has a thread nor waits for one.          *)
LEMMA HeldKept ==
  ASSUME Held, NEW a \in Actors, pc[a] \notin {"insert", "joining", "replaced"},
         \A b \in Actors \ {a} : pc'[b] = pc[b] /\ target'[b] = target[b],
         UNCHANGED <<of, at, handle, thread, joins, exiting>>
  PROVE  Held'
<1> SUFFICES ASSUME exiting' = "no", NEW t \in Threads, at'[t] = "down" PROVE Tracked(t)'
  BY DEF Held
<1>1. Tracked(t)
  BY DEF Held
<1>2. CASE handle[of[t]] = t
  BY <1>2 DEF Tracked
<1>3. CASE \E b \in Actors : pc[b] = "insert" /\ thread[b] = t /\ target[b] = of[t]
  <2>1. PICK b \in Actors : pc[b] = "insert" /\ thread[b] = t /\ target[b] = of[t]
    BY <1>3
  <2>2. b # a
    BY <2>1
  <2>3. pc'[b] = "insert" /\ thread'[b] = t /\ target'[b] = of'[t]
    BY <2>1, <2>2
  <2> QED
    BY <2>3 DEF Tracked
<1>4. CASE \E b \in Actors : pc[b] \in {"joining", "replaced"} /\ joins[b] = t /\ target[b] = of[t]
  <2>1. PICK b \in Actors : pc[b] \in {"joining", "replaced"} /\ joins[b] = t /\ target[b] = of[t]
    BY <1>4
  <2>2. b # a
    BY <2>1
  <2>3. pc'[b] \in {"joining", "replaced"} /\ joins'[b] = t /\ target'[b] = of'[t]
    BY <2>1, <2>2
  <2> QED
    BY <2>3 DEF Tracked
<1> QED
  BY <1>1, <1>2, <1>3, <1>4 DEF Tracked

LEMMA HeldStep == ASSUME TypeOK, Control, Held, Next PROVE Held'
<1>1. /\ ThreadTypes
      /\ pc \in [Actors -> Place] /\ target \in [Actors -> Projects \cup {None}]
      /\ thread \in [Actors -> Threads \cup {None}] /\ joins \in [Actors -> Threads \cup {None}]
  BY Types DEF ActorTypes
<1>2. /\ "command" \in Actors /\ "reconcile" \in Actors
      /\ None \notin Projects /\ None \notin Threads
  BY LifecycleAssumption DEF Actors
<1> USE DEF Goes, app, teardowns, actors
<1>3. ASSUME NEW p \in Projects, Switch(p) \/ Add(p) \/ Remove(p) PROVE Held'
  <2>1. /\ pc["command"] = "none"
        /\ \A b \in Actors \ {"command"} : pc'[b] = pc[b] /\ target'[b] = target[b]
        /\ UNCHANGED <<of, at, handle, thread, joins, exiting>>
    BY <1>1, <1>3 DEF Switch, Add, Remove, Begins
  <2> QED
    BY <1>2, <2>1, HeldKept
<1>4. CASE \/ ImagesReady \/ ImagesNotReady \/ EngineReady \/ EngineFails \/ Started \/ StartFails
           \/ TaskDies \/ Undo \/ Rollback \/ Succeeds \/ RemovalReady \/ RemovalDown \/ RemovalFails \/ Forget
  <2>1. /\ pc["command"] \notin {"insert", "joining", "replaced"}
        /\ \A b \in Actors \ {"command"} : pc'[b] = pc[b] /\ target'[b] = target[b]
        /\ UNCHANGED <<of, at, handle, thread, joins, exiting>>
    BY <1>1, <1>4 DEF ImagesReady, ImagesNotReady, EngineReady, EngineFails, Started, StartFails, TaskDies, Undo,
      Rollback, Succeeds, RemovalReady, RemovalDown, RemovalFails, Forget, Passes
  <2> QED
    BY <1>2, <2>1, HeldKept
<1>5. CASE Wait
  <2> SUFFICES ASSUME exiting' = "no", NEW t \in Threads, at'[t] = "down" PROVE Tracked(t)'
    BY DEF Held
  <2>1. Tracked(t) /\ of[t] \in Projects \cup {None} /\ target["command"] \in Projects
    BY <1>1, <1>5 DEF Wait, Held, ThreadTypes, Control, Targets
  <2>2. CASE handle[of[t]] = t /\ of[t] = target["command"]
    BY <1>1, <1>2, <1>5, <2>2 DEF Wait, Tracked
  <2>3. CASE handle[of[t]] = t /\ of[t] # target["command"]
    BY <1>1, <1>5, <2>3 DEF Wait, Tracked, ThreadTypes
  <2>4. CASE handle[of[t]] # t
    BY <1>1, <1>5, <2>1, <2>4 DEF Wait, Tracked
  <2> QED
    BY <2>2, <2>3, <2>4
<1>6. ASSUME NEW a \in Actors, NEW from \in {"joining", "replaced"}, NEW to \in Place, EndsJoin(a, from, to),
             UNCHANGED <<of, at, handle, exiting>>
      PROVE  Held'
  <2> SUFFICES ASSUME exiting' = "no", NEW t \in Threads, at'[t] = "down" PROVE Tracked(t)'
    BY DEF Held
  <2>1. Tracked(t) /\ joins[a] # t
    BY <1>2, <1>6 DEF Held, EndsJoin, Joined
  <2> QED
    BY <1>1, <1>6, <2>1 DEF EndsJoin, Tracked
<1>7. CASE Waited
  BY <1>2, <1>6, <1>7 DEF Waited, Place
<1>8. ASSUME NEW a \in Actors, SpawnStep(a) PROVE Held'
  <2>1. CASE Record(a)
    <3>1. /\ pc[a] = "record"
          /\ \A b \in Actors \ {a} : pc'[b] = pc[b] /\ target'[b] = target[b]
          /\ UNCHANGED <<of, at, handle, thread, joins, exiting>>
      BY <1>1, <2>1 DEF Record, Passes
    <3> QED
      BY <3>1, HeldKept
  <2>2. CASE Spawn(a)
    <3> SUFFICES ASSUME exiting' = "no", NEW t \in Threads, at'[t] = "down" PROVE Tracked(t)'
      BY DEF Held
    <3>1. PICK u \in Threads : /\ of' = [of EXCEPT ![u] = target[a]] /\ at' = [at EXCEPT ![u] = "down"]
                               /\ thread' = [thread EXCEPT ![a] = u]
      BY <2>2 DEF Spawn
    <3>2. CASE t = u
      BY <1>1, <2>2, <3>1, <3>2 DEF Spawn, Tracked, ThreadTypes
    <3>3. CASE t # u
      <4>1. Tracked(t) /\ of'[t] = of[t]
        BY <1>1, <2>2, <3>1, <3>3 DEF Spawn, Held, ThreadTypes
      <4> QED
        BY <1>1, <2>2, <3>1, <4>1 DEF Spawn, Tracked
    <3> QED
      BY <3>2, <3>3
  <2>3. CASE Insert(a)
    <3> SUFFICES ASSUME exiting' = "no", NEW t \in Threads, at'[t] = "down" PROVE Tracked(t)'
      BY DEF Held
    <3>1. Tracked(t) /\ of[t] \in Projects \cup {None} /\ target[a] \in Projects
      BY <1>1, <2>3 DEF Insert, Held, ThreadTypes, Control, Targets, Actors
    <3>2. CASE handle[of[t]] = t /\ of[t] = target[a]
      BY <1>1, <2>3, <3>2 DEF Insert, Tracked
    <3>3. CASE handle[of[t]] = t /\ of[t] # target[a]
      BY <1>1, <2>3, <3>3 DEF Insert, Tracked, ThreadTypes
    <3>4. CASE thread[a] = t /\ target[a] = of[t]
      BY <1>1, <2>3, <3>1, <3>4 DEF Insert, Tracked, ThreadTypes
    <3>5. CASE handle[of[t]] # t /\ ~(thread[a] = t /\ target[a] = of[t])
      BY <1>1, <2>3, <3>1, <3>5 DEF Insert, Tracked
    <3> QED
      BY <3>2, <3>3, <3>4, <3>5
  <2>4. CASE Replaced(a)
    BY <1>6, <2>4 DEF Replaced, Place
  <2> QED
    BY <1>8, <2>1, <2>2, <2>3, <2>4 DEF SpawnStep
<1>9. ASSUME NEW u \in Threads, ThreadStep(u) PROVE Held'
  <2> SUFFICES ASSUME exiting' = "no", NEW t \in Threads, at'[t] = "down" PROVE Tracked(t)'
    BY DEF Held
  <2>1. at[t] = "down" /\ exiting = "no" /\ UNCHANGED <<of, handle, pc, thread, joins, target>>
    BY <1>1, <1>9 DEF ThreadStep, TearsDown, TearDownFails, Clears, ThreadTypes
  <2>2. Tracked(t)
    BY <2>1 DEF Held
  <2> QED
    BY <2>1, <2>2 DEF Tracked
<1>10. CASE Launch \/ Retry \/ ReconcileLeaves \/ ReadIntents \/ Converge \/ Release
  <2>1. pc["reconcile"] \notin {"insert", "joining", "replaced"}
    <3>1. CASE Launch
      BY <1>2, <3>1 DEF Launch, Control, Lives, Idle
    <3> QED
      BY <1>10, <3>1 DEF Retry, ReconcileLeaves, ReadIntents, Converge, Release, Passes
  <2>2. /\ \A b \in Actors \ {"reconcile"} : pc'[b] = pc[b] /\ target'[b] = target[b]
        /\ UNCHANGED <<of, at, handle, thread, joins, exiting>>
    BY <1>1, <1>10 DEF Launch, Retry, ReconcileLeaves, ReadIntents, Converge, Release, Passes
  <2> QED
    BY <1>2, <2>1, <2>2, HeldKept
<1>11. CASE BeginExit \/ Drained
  BY <1>11 DEF BeginExit, Drained, Held
<1>12. CASE Quit \/ Crash
  BY <1>12 DEF Quit, Crash, Ends, Held
<1>13. CASE \E p \in Projects : UserStarts(p) \/ UserStops(p)
  BY <1>13 DEF UserStarts, UserStops, Held, Tracked
<1> QED
  BY <1>2, <1>3, <1>4, <1>5, <1>7, <1>8, <1>9, <1>10, <1>11, <1>12, <1>13
  DEF Next, CommandStep, ReconcileStep

-----------------------------------------------------------------------------
(* The switch.                                                             *)

LEMMA FreeStep == ASSUME TypeOK, Control, Free, Next PROVE Free'
<1>1. /\ ThreadTypes
      /\ pc \in [Actors -> Place] /\ target \in [Actors -> Projects \cup {None}]
  BY Types DEF ActorTypes
<1>2. "command" \in Actors /\ "reconcile" \in Actors
  BY DEF Actors
<1> USE DEF Free, Goes, teardowns, actors
<1>3. ASSUME NEW p \in Projects, Switch(p) \/ Add(p) \/ Remove(p) PROVE Free'
  BY <1>1, <1>2, <1>3 DEF Switch, Add, Remove, Begins
<1>4. CASE Wait
  BY <1>1, <1>2, <1>4 DEF Wait, ThreadTypes, Control, Targets
<1>5. CASE \/ ImagesReady \/ ImagesNotReady \/ EngineReady \/ EngineFails \/ Started \/ StartFails
           \/ TaskDies \/ Undo \/ Rollback \/ RemovalReady \/ RemovalDown \/ RemovalFails \/ Forget
  BY <1>1, <1>2, <1>5 DEF ImagesReady, ImagesNotReady, EngineReady, EngineFails, Started, StartFails, TaskDies,
    Undo, Rollback, RemovalReady, RemovalDown, RemovalFails, Forget, Passes
<1>6. CASE Waited \/ Succeeds
  BY <1>1, <1>2, <1>6 DEF Waited, EndsJoin, Succeeds
<1>7. ASSUME NEW a \in Actors, SpawnStep(a) PROVE Free'
  <2>1. CASE Insert(a)
    <3>1. a = "command" \/ images = "Checking"
      BY <2>1 DEF Insert, Control, ImagesFirst, Actors
    <3> QED
      BY <1>1, <1>2, <2>1, <3>1 DEF Insert, Control, ImagesFirst, AfterImages, Actors
  <2>2. CASE Record(a)
    BY <1>1, <1>2, <2>2 DEF Record, Passes, Actors
  <2>3. CASE Spawn(a)
    BY <1>1, <1>2, <2>3 DEF Spawn, Actors
  <2>4. CASE Replaced(a)
    BY <1>1, <1>2, <2>4 DEF Replaced, EndsJoin, Actors
  <2> QED
    BY <1>7, <2>1, <2>2, <2>3, <2>4 DEF SpawnStep
<1>8. CASE \E t \in Threads : ThreadStep(t)
  BY <1>8 DEF ThreadStep, TearsDown, TearDownFails, Clears
<1>9. CASE Launch \/ Retry \/ ReconcileLeaves \/ ReadIntents \/ Converge \/ Release
  BY <1>1, <1>2, <1>9 DEF Launch, Retry, ReconcileLeaves, ReadIntents, Converge, Release, Passes
<1>10. CASE BeginExit
  BY <1>1, <1>10 DEF BeginExit, Control, Targets
<1>11. CASE Quit \/ Crash
  BY <1>2, <1>11 DEF Quit, Crash, Ends, Idle
<1>12. CASE Drained \/ \E p \in Projects : UserStarts(p) \/ UserStops(p)
  BY <1>12 DEF Drained, UserStarts, UserStops
<1> QED
  BY <1>2, <1>3, <1>4, <1>5, <1>6, <1>7, <1>8, <1>9, <1>10, <1>11, <1>12 DEF Next, CommandStep, ReconcileStep

LEMMA SucceededStep == ASSUME TypeOK, Succeeded, Next PROVE Succeeded'
<1>1. pc \in [Actors -> Place] /\ target \in [Actors -> Projects \cup {None}]
  BY Types DEF ActorTypes
<1>2. "command" \in Actors /\ "reconcile" \in Actors
  BY DEF Actors
<1> USE DEF Succeeded, Goes, actors, history
<1>3. CASE \E p \in Projects : Switch(p) \/ Add(p) \/ Remove(p)
  BY <1>1, <1>2, <1>3 DEF Switch, Add, Remove, Begins
<1>4. CASE \/ ImagesReady \/ ImagesNotReady \/ EngineReady \/ EngineFails \/ Started \/ StartFails
           \/ TaskDies \/ Undo \/ Rollback \/ RemovalReady \/ RemovalDown \/ RemovalFails \/ Forget
  BY <1>1, <1>2, <1>4 DEF ImagesReady, ImagesNotReady, EngineReady, EngineFails, Started, StartFails, TaskDies,
    Undo, Rollback, RemovalReady, RemovalDown, RemovalFails, Forget, Passes
<1>5. CASE Wait \/ Waited \/ Succeeds
  BY <1>1, <1>2, <1>5 DEF Wait, Waited, EndsJoin, Succeeds
<1>6. ASSUME NEW a \in Actors, SpawnStep(a) PROVE Succeeded'
  BY <1>1, <1>2, <1>6 DEF SpawnStep, Record, Spawn, Insert, Replaced, Passes, EndsJoin, Actors
<1>7. CASE \E t \in Threads : ThreadStep(t)
  BY <1>7 DEF ThreadStep, TearsDown, TearDownFails, Clears
<1>8. CASE Launch \/ Retry \/ ReconcileLeaves \/ ReadIntents \/ Converge \/ Release
  BY <1>1, <1>2, <1>8 DEF Launch, Retry, ReconcileLeaves, ReadIntents, Converge, Release, Passes
<1>9. CASE Quit \/ Crash
  BY <1>2, <1>9 DEF Quit, Crash, Ends, Idle
<1>10. CASE BeginExit \/ Drained \/ \E p \in Projects : UserStarts(p) \/ UserStops(p)
  BY <1>10 DEF BeginExit, Drained, UserStarts, UserStops
<1> QED
  BY <1>2, <1>3, <1>4, <1>5, <1>6, <1>7, <1>8, <1>9, <1>10 DEF Next, CommandStep, ReconcileStep

(* Who has waited finds no thread at work: it was the one waited for, or it *)
(* would be in the registry.                                               *)
LEMMA WaitedForAll ==
  ASSUME TypeOK, Control, Held, Free, Waited, exiting = "no", NEW t \in Threads, at[t] = "down"
  PROVE  of[t] # target["command"]
<1>1. SUFFICES ASSUME of[t] = target["command"] PROVE FALSE
  OBVIOUS
<1>2. /\ pc["command"] = "joining" /\ images = "Ready" /\ Joined("command")
  BY DEF Waited, EndsJoin, Control, ImagesFirst, AfterImages
<1>3. pc["reconcile"] = "none"
  BY <1>2 DEF Control, ImagesFirst
<1>4. handle[of[t]] = None /\ None \notin Threads
  BY <1>1, <1>2, LifecycleAssumption DEF Free
<1>5. Tracked(t)
  BY DEF Held
<1>6. joins["command"] = t
  BY <1>2, <1>3, <1>4, <1>5 DEF Tracked, Actors
<1> QED
  BY <1>2, <1>4, <1>6 DEF Joined

LEMMA CleanStep == ASSUME TypeOK, Control, Held, Free, Clean, Next PROVE Clean'
<1>1. /\ ThreadTypes
      /\ pc \in [Actors -> Place] /\ target \in [Actors -> Projects \cup {None}]
  BY Types DEF ActorTypes
<1>2. "command" \in Actors /\ "reconcile" \in Actors
  BY DEF Actors
<1> USE DEF Clean, Goes, app, teardowns, actors
<1>3. CASE \E p \in Projects : Switch(p) \/ Add(p) \/ Remove(p)
  BY <1>1, <1>2, <1>3 DEF Switch, Add, Remove, Begins
<1>4. CASE Waited
  <2>1. UNCHANGED <<of, at, target, exiting>>
    BY <1>4 DEF Waited, EndsJoin
  <2> QED
    BY <1>4, <2>1, WaitedForAll
<1>5. CASE \/ ImagesReady \/ ImagesNotReady \/ EngineReady \/ EngineFails \/ Started \/ StartFails
           \/ TaskDies \/ Undo \/ Rollback \/ RemovalReady \/ RemovalDown \/ RemovalFails \/ Forget
  BY <1>1, <1>2, <1>5 DEF ImagesReady, ImagesNotReady, EngineReady, EngineFails, Started, StartFails, TaskDies,
    Undo, Rollback, RemovalReady, RemovalDown, RemovalFails, Forget, Passes
<1>6. CASE Wait \/ Succeeds
  BY <1>1, <1>2, <1>6 DEF Wait, Succeeds
<1>7. ASSUME NEW a \in Actors, SpawnStep(a) PROVE Clean'
  <2>1. CASE a = "command"
    BY <1>1, <1>2, <1>7, <2>1 DEF SpawnStep, Record, Spawn, Insert, Replaced, Passes, EndsJoin
  <2>2. CASE a = "reconcile"
    <3>1. pc["reconcile"] # "none" /\ pc'["command"] = pc["command"]
      BY <1>1, <1>2, <1>7, <2>2 DEF SpawnStep, Record, Spawn, Insert, Replaced, Passes, EndsJoin
    <3>2. pc["command"] \notin {"start", "succeeded"}
      BY <3>1 DEF Control, ImagesFirst, AfterImages
    <3> QED
      BY <3>1, <3>2
  <2> QED
    BY <2>1, <2>2 DEF Actors
<1>8. ASSUME NEW t \in Threads, ThreadStep(t) PROVE Clean'
  BY <1>1, <1>8 DEF ThreadStep, TearsDown, TearDownFails, Clears, ThreadTypes
<1>9. CASE Launch \/ Retry \/ ReconcileLeaves \/ ReadIntents \/ Converge \/ Release
  BY <1>1, <1>2, <1>9 DEF Launch, Retry, ReconcileLeaves, ReadIntents, Converge, Release, Passes
<1>10. CASE BeginExit \/ Drained
  BY <1>10 DEF BeginExit, Drained
<1>11. CASE Quit \/ Crash
  BY <1>2, <1>11 DEF Quit, Crash, Ends, Idle
<1>12. CASE \E p \in Projects : UserStarts(p) \/ UserStops(p)
  BY <1>12 DEF UserStarts, UserStops
<1> QED
  BY <1>2, <1>3, <1>4, <1>5, <1>6, <1>7, <1>8, <1>9, <1>10, <1>11, <1>12 DEF Next, CommandStep, ReconcileStep

LEMMA HoldStep ==
  ASSUME TypeOK, Control, Clean, Succeeded, SwitchHolds, Next
  PROVE  SwitchHolds'
<1>1. /\ ThreadTypes
      /\ pc \in [Actors -> Place] /\ target \in [Actors -> Projects \cup {None}]
  BY Types DEF ActorTypes
<1>2. "command" \in Actors /\ "reconcile" \in Actors /\ None \notin Projects
  BY LifecycleAssumption DEF Actors
<1>3. settled # None => pc["reconcile"] = "none"
  BY DEF Control, ImagesFirst
<1> USE DEF SwitchHolds, Goes, app, teardowns, actors, history
<1>4. ASSUME NEW p \in Projects, Switch(p) \/ Add(p) \/ Remove(p) PROVE SwitchHolds'
  <2>1. CASE Switch(p) \/ Add(p)
    <3>1. settled' = None
      BY <2>1 DEF Switch, Add
    <3> QED
      BY <3>1
  <2>2. CASE Remove(p)
    BY <1>1, <1>2, <2>2 DEF Remove, Begins
  <2> QED
    BY <1>4, <2>1, <2>2
<1>5. CASE Started
  <2>1. /\ settled' = target["command"] /\ target' = target /\ UNCHANGED <<of, at, exiting>>
        /\ pc' = [pc EXCEPT !["command"] = "succeeded"] /\ pc["command"] = "start"
    BY <1>5 DEF Started, Passes
  <2>2. pc["reconcile"] = "none"
    BY <2>1 DEF Control, ImagesFirst, AfterImages
  <2>3. \A a \in Actors : pc'[a] \notin {"record", "spawn"}
    BY <1>1, <2>1, <2>2 DEF Actors
  <2> QED
    BY <2>1, <2>3 DEF Clean
<1>6. CASE Succeeds
  <2>1. \/ pc' = [pc EXCEPT !["command"] = "none"]
        \/ pc' = [pc EXCEPT !["command"] = "record"] /\ previous # target["command"]
    BY <1>6 DEF Succeeds
  <2>2. target' = [target EXCEPT !["command"] = previous] /\ UNCHANGED <<settled, of, at, exiting>>
    BY <1>6 DEF Succeeds
  <2>3. settled = target["command"]
    BY <1>6 DEF Succeeds, Succeeded
  <2> QED
    BY <1>1, <1>2, <1>3, <2>1, <2>2, <2>3 DEF Actors
<1>7. CASE \/ ImagesReady \/ ImagesNotReady \/ EngineReady \/ EngineFails \/ StartFails
           \/ TaskDies \/ Undo \/ Rollback \/ RemovalReady \/ RemovalDown \/ RemovalFails \/ Forget
  BY <1>1, <1>2, <1>7 DEF ImagesReady, ImagesNotReady, EngineReady, EngineFails, StartFails, TaskDies,
    Undo, Rollback, RemovalReady, RemovalDown, RemovalFails, Forget, Passes
<1>8. CASE Wait \/ Waited
  BY <1>1, <1>2, <1>8 DEF Wait, Waited, EndsJoin
<1>9. ASSUME NEW a \in Actors, SpawnStep(a) PROVE SwitchHolds'
  <2>1. CASE Record(a)
    BY <1>1, <1>2, <2>1 DEF Record, Passes
  <2>2. CASE Spawn(a)
    <3>1. PICK u \in Threads : of' = [of EXCEPT ![u] = target[a]] /\ at' = [at EXCEPT ![u] = "down"]
      BY <2>2 DEF Spawn
    <3>2. pc[a] = "spawn" /\ pc' = [pc EXCEPT ![a] = "insert"] /\ UNCHANGED <<target, settled, exiting>>
      BY <2>2 DEF Spawn
    <3> QED
      BY <1>1, <3>1, <3>2 DEF ThreadTypes
  <2>3. CASE Insert(a)
    BY <1>1, <1>2, <2>3 DEF Insert
  <2>4. CASE Replaced(a)
    BY <1>1, <1>2, <2>4 DEF Replaced, EndsJoin
  <2> QED
    BY <1>9, <2>1, <2>2, <2>3, <2>4 DEF SpawnStep
<1>10. ASSUME NEW t \in Threads, ThreadStep(t) PROVE SwitchHolds'
  BY <1>1, <1>10 DEF ThreadStep, TearsDown, TearDownFails, Clears, ThreadTypes
<1>11. CASE Launch
  <2>1. settled' = None
    BY <1>11 DEF Launch, Control, Lives
  <2> QED
    BY <2>1
<1>12. CASE Retry \/ ReconcileLeaves \/ ReadIntents \/ Converge \/ Release
  <2>1. settled' = None
    <3>1. settled' = settled /\ (images # "Ready" \/ pc["reconcile"] # "none")
      BY <1>12 DEF Retry, ReconcileLeaves, ReadIntents, Converge, Release, Passes
    <3> QED
      BY <3>1 DEF Control, ImagesFirst
  <2> QED
    BY <2>1
<1>13. CASE BeginExit \/ Drained
  BY <1>13 DEF BeginExit, Drained
<1>14. CASE Quit \/ Crash
  BY <1>2, <1>14 DEF Quit, Crash, Ends
<1>15. CASE \E p \in Projects : UserStarts(p) \/ UserStops(p)
  BY <1>15 DEF UserStarts, UserStops
<1> QED
  BY <1>2, <1>4, <1>5, <1>6, <1>7, <1>8, <1>9, <1>10, <1>11, <1>12, <1>13, <1>14, <1>15
  DEF Next, CommandStep, ReconcileStep

-----------------------------------------------------------------------------
(* The debt.                                                               *)

Owed == debt \subseteq intents
PaidOff == \A t \in Threads : at[t] = "clear" => of[t] \notin debt

(* A step that adds no debt, clears no record and moves no thread.         *)
LEMMA DebtKept ==
  ASSUME Paid, DebtOnDisk, debt' \subseteq debt, UNCHANGED <<intents, of, at, crossed>>
  PROVE  Paid' /\ DebtOnDisk'
BY DEF Paid, DebtOnDisk

LEMMA DebtStep == ASSUME TypeOK, Paid, DebtOnDisk, Next PROVE Paid' /\ DebtOnDisk'
<1>1. ThreadTypes
  BY Types
<1> USE DEF app, teardowns, actors, history, stacks
<1>2. CASE \E p \in Projects : Switch(p) \/ Add(p) \/ Remove(p)
  <2>1. UNCHANGED <<debt, intents, of, at, crossed>>
    BY <1>2 DEF Switch, Add, Remove, Begins
  <2> QED
    BY <2>1, DebtKept
<1>3. CASE \/ ImagesReady \/ ImagesNotReady \/ EngineReady \/ EngineFails \/ Wait \/ Waited \/ TaskDies
           \/ Rollback \/ Succeeds \/ RemovalReady \/ RemovalFails \/ Forget
  <2>1. UNCHANGED <<debt, intents, of, at, crossed>>
    BY <1>3 DEF ImagesReady, ImagesNotReady, EngineReady, EngineFails, Wait, Waited, TaskDies,
      Rollback, Succeeds, RemovalReady, RemovalFails, Forget
  <2> QED
    BY <2>1, DebtKept
<1>4. CASE Started \/ StartFails \/ Undo \/ RemovalDown
  <2>1. debt' \subseteq debt /\ UNCHANGED <<intents, of, at, crossed>>
    BY <1>4 DEF Started, StartFails, Undo, RemovalDown, Up, Down
  <2> QED
    BY <2>1, DebtKept
<1>5. ASSUME NEW a \in Actors, Record(a) PROVE Paid' /\ DebtOnDisk'
  <2>1. /\ intents' = intents \cup {target[a]} /\ debt' = debt \cup (up \cap {target[a]})
        /\ UNCHANGED <<of, at>>
    BY <1>5 DEF Record
  <2>2. CASE crossed \/ \E t \in Threads : at[t] \in {"down", "clear"} /\ of[t] = target[a]
    <3>1. crossed'
      BY <1>5, <2>2 DEF Record
    <3> QED
      BY <3>1 DEF Paid, DebtOnDisk
  <2>3. CASE ~(crossed \/ \E t \in Threads : at[t] \in {"down", "clear"} /\ of[t] = target[a])
    <3>1. PaidOff /\ Owed
      BY <2>3 DEF Paid, DebtOnDisk, PaidOff, Owed
    <3>2. PaidOff'
      BY <2>1, <2>3, <3>1 DEF PaidOff
    <3>3. Owed'
      BY <2>1, <3>1 DEF Owed
    <3> QED
      BY <3>2, <3>3 DEF Paid, DebtOnDisk, PaidOff, Owed
  <2> QED
    BY <2>2, <2>3
<1>6. ASSUME NEW a \in Actors, Spawn(a) PROVE Paid' /\ DebtOnDisk'
  <2>1. UNCHANGED <<debt, intents, crossed>>
    BY <1>6 DEF Spawn
  <2>2. PICK u \in Threads : of' = [of EXCEPT ![u] = target[a]] /\ at' = [at EXCEPT ![u] = "down"]
    BY <1>6 DEF Spawn
  <2>3. PaidOff => PaidOff'
    BY <1>1, <2>1, <2>2 DEF PaidOff, ThreadTypes
  <2> QED
    BY <2>1, <2>3 DEF Paid, DebtOnDisk, PaidOff
<1>7. ASSUME NEW a \in Actors, Insert(a) \/ Replaced(a) PROVE Paid' /\ DebtOnDisk'
  <2>1. UNCHANGED <<debt, intents, of, at, crossed>>
    BY <1>7 DEF Insert, Replaced
  <2> QED
    BY <2>1, DebtKept
<1>8. ASSUME NEW t \in Threads, TearsDown(t) PROVE Paid' /\ DebtOnDisk'
  <2>1. /\ at' = [at EXCEPT ![t] = "clear"] /\ debt' = debt \ {of[t]}
        /\ UNCHANGED <<intents, of, crossed>>
    BY <1>8 DEF TearsDown, Down
  <2>2. PaidOff => PaidOff'
    BY <1>1, <2>1 DEF PaidOff, ThreadTypes
  <2>3. Owed => Owed'
    BY <2>1 DEF Owed
  <2> QED
    BY <2>1, <2>2, <2>3 DEF Paid, DebtOnDisk, PaidOff, Owed
<1>9. ASSUME NEW t \in Threads, TearDownFails(t) PROVE Paid' /\ DebtOnDisk'
  <2>1. at' = [at EXCEPT ![t] = "done"] /\ UNCHANGED <<debt, intents, of, crossed>>
    BY <1>9 DEF TearDownFails
  <2>2. PaidOff => PaidOff'
    BY <1>1, <2>1 DEF PaidOff, ThreadTypes
  <2> QED
    BY <2>1, <2>2 DEF Paid, DebtOnDisk, PaidOff
<1>10. ASSUME NEW t \in Threads, Clears(t) PROVE Paid' /\ DebtOnDisk'
  <2>1. /\ at[t] = "clear" /\ at' = [at EXCEPT ![t] = "done"] /\ intents' = intents \ {of[t]}
        /\ UNCHANGED <<debt, of, crossed>>
    BY <1>10 DEF Clears
  <2>2. PaidOff => PaidOff'
    BY <1>1, <2>1 DEF PaidOff, ThreadTypes
  <2>3. PaidOff /\ Owed => Owed'
    BY <2>1 DEF PaidOff, Owed
  <2> QED
    BY <2>1, <2>2, <2>3 DEF Paid, DebtOnDisk, PaidOff, Owed
<1>11. CASE ReadIntents
  <2>1. debt' \subseteq debt /\ UNCHANGED <<intents, of, at, crossed>>
    BY <1>11 DEF ReadIntents
  <2> QED
    BY <2>1, DebtKept
<1>12. CASE ReconcileLeaves \/ Converge \/ Release \/ Launch \/ Retry \/ BeginExit \/ Drained
  <2>1. UNCHANGED <<debt, intents, of, at, crossed>>
    BY <1>12 DEF ReconcileLeaves, Converge, Release, Launch, Retry, BeginExit, Drained
  <2> QED
    BY <2>1, DebtKept
<1>13. CASE Quit \/ Crash
  <2>1. /\ debt' = {} \/ debt' = debt
        /\ at' = [t \in Threads |-> "none"] /\ UNCHANGED <<intents, crossed>>
    BY <1>13 DEF Quit, Crash, Ends
  <2>2. PaidOff'
    BY <2>1 DEF PaidOff
  <2>3. Owed => Owed'
    BY <2>1 DEF Owed
  <2> QED
    BY <2>1, <2>2, <2>3 DEF Paid, DebtOnDisk, PaidOff, Owed
<1>14. CASE \E p \in Projects : UserStarts(p) \/ UserStops(p)
  <2>1. debt' \subseteq debt /\ UNCHANGED <<intents, of, at, crossed>>
    BY <1>14 DEF UserStarts, UserStops, Up, Down
  <2> QED
    BY <2>1, DebtKept
<1> QED
  BY <1>2, <1>3, <1>4, <1>5, <1>6, <1>7, <1>8, <1>9, <1>10, <1>11, <1>12, <1>13, <1>14
  DEF Next, CommandStep, ReconcileStep, SpawnStep, ThreadStep, Actors

-----------------------------------------------------------------------------
(* The theorems.                                                           *)

LEMMA Initially == Init => IInv
<1> SUFFICES ASSUME Init PROVE IInv
  OBVIOUS
<1> USE LifecycleAssumption
<1>1. ConfigTypes /\ StackTypes
  BY DEF Init, ConfigTypes, StackTypes
<1>2. AppTypes
  <2>1. alive \in BOOLEAN /\ crossed \in BOOLEAN
    BY DEF Init
  <2> QED
    BY <2>1 DEF Init, AppTypes
<1>3. ThreadTypes
  BY DEF Init, ThreadTypes
<1>4. ActorTypes
  BY DEF Init, ActorTypes, Idle, Place
<1>5. pc = Idle /\ settled = None /\ \A a \in Actors : pc[a] = "none"
  BY DEF Init, Idle
<1>6. Control
  BY <1>5 DEF Control, Underway, Switching, Removing, Targets, Lives, ImagesFirst, AfterImages, Actors
<1>7. \A t \in Threads : at[t] = "none"
  BY DEF Init
<1>8. Held /\ Free /\ Clean /\ Succeeded /\ SwitchHolds /\ Paid
  BY <1>5, <1>7 DEF Held, Free, Clean, Succeeded, SwitchHolds, Paid, Actors
<1>9. DebtOnDisk
  BY DEF Init, DebtOnDisk
<1> QED
  BY <1>1, <1>2, <1>3, <1>4, <1>6, <1>8, <1>9, Types DEF IInv

LEMMA Stutters == ASSUME IInv, UNCHANGED vars PROVE IInv'
BY DEF IInv, vars, TypeOK, Control, Underway, Targets, Lives, Idle, ImagesFirst, Held, Tracked, Free, Clean,
  Succeeded, SwitchHolds, Paid, DebtOnDisk

LEMMA Inductive == IInv /\ [Next]_vars => IInv'
<1>1. ASSUME IInv, Next PROVE IInv'
  <2>1. TypeOK'
    <3>1. ConfigTypes' /\ StackTypes' /\ AppTypes' /\ ThreadTypes' /\ ActorTypes'
      BY <1>1, ConfigStep, StackStep, AppStep, ThreadStepTypes, ActorStepTypes DEF IInv, Control
    <3> QED
      BY <3>1 DEF TypeOK, ConfigTypes, StackTypes, AppTypes, ThreadTypes, ActorTypes, Place
  <2>2. Control'
    BY <1>1, UnderwayStep, TargetsStep, LivesStep, ImagesFirstStep DEF IInv, Control
  <2>3. Held' /\ Free' /\ Clean' /\ Succeeded'
    BY <1>1, HeldStep, FreeStep, CleanStep, SucceededStep DEF IInv
  <2>4. SwitchHolds' /\ Paid' /\ DebtOnDisk'
    BY <1>1, HoldStep, DebtStep DEF IInv
  <2> QED
    BY <2>1, <2>2, <2>3, <2>4 DEF IInv
<1> QED
  BY <1>1, Stutters

LEMMA Invariance == Spec => []IInv
BY Initially, Inductive, PTL DEF Spec

(* Every reachable state is well typed: the active project is a known one, *)
(* and a switch that holds is to it.                                       *)
THEOREM TypeCorrect == Spec => []TypeOK
<1>1. IInv => TypeOK
  BY DEF IInv
<1> QED
  BY <1>1, Invariance, PTL

(* No teardown, of an earlier switch or of the reconcile, is under way for *)
(* the project of a switch that has succeeded.                             *)
THEOREM SwitchesHold == Spec => []SwitchHolds
<1>1. IInv => SwitchHolds
  BY DEF IInv
<1> QED
  BY <1>1, Invariance, PTL

(* A teardown on record that is still owed stays on disk through failures, *)
(* crashes and exits, unless two teardowns of one project cross.           *)
THEOREM DebtsOnDisk == Spec => []DebtOnDisk
<1>1. IInv => DebtOnDisk
  BY DEF IInv
<1> QED
  BY <1>1, Invariance, PTL

-----------------------------------------------------------------------------
(* Who waits, and for whom. The threads that somebody waits for, or will.  *)
Awaited(t) ==
  \/ t \in drained
  \/ \E p \in Projects : handle[p] = t
  \/ \E a \in Actors : t \in {thread[a], joins[a]}

(* Each of them was started in this run of the app, and the images are     *)
(* checked only while the reconcile that will say so is under way.         *)
Begun == \A t \in Threads : Awaited(t) => at[t] # "none"
Checks ==
  images = "Checking" =>
    pc["reconcile"] \in {"restore", "converge", "record", "spawn", "insert", "replaced"}

(* A thread that is over, or that nothing holds up: it does not need the   *)
(* registry, or nobody keeps that from it.                                 *)
Moves(t) == at[t] \in {"down", "done"} \/ (at[t] = "clear" /\ RegistryFree)

(* Whoever waits waits for somebody who goes on, so that a chain of waits  *)
(* ends: a join (wait_for_pending_teardown, spawn_background_teardown) and *)
(* the exit's drain (drain_pending_teardowns) for a thread that was        *)
(* started, a switch (ensure_images_ready) for a reconcile that is under   *)
(* way and waits for nothing but such a thread.                            *)
WaitsForTheRunning ==
  /\ \A a \in Actors : joins[a] # None => joins[a] \in Threads /\ Moves(joins[a])
  /\ \A t \in drained : Moves(t)
  /\ images = "Checking" =>
       \/ pc["reconcile"] \in {"restore", "converge", "spawn", "replaced"}
       \/ pc["reconcile"] \in {"record", "insert"} /\ RegistryFree

LEMMA BegunStep == ASSUME TypeOK, Targets, Begun, Next PROVE Begun'
<1>1. /\ at \in [Threads -> {"none", "down", "clear", "done"}]
      /\ handle \in [Projects -> Threads \cup {None}]
      /\ thread \in [Actors -> Threads \cup {None}] /\ joins \in [Actors -> Threads \cup {None}]
      /\ None \notin Threads /\ "command" \in Actors /\ "reconcile" \in Actors
  BY Types, LifecycleAssumption DEF ThreadTypes, ActorTypes, Actors
<1> USE DEF Begun, Awaited
<1>2. ASSUME UNCHANGED <<at, handle, thread, joins, drained>> PROVE Begun'
  BY <1>2
<1>3. ASSUME NEW p \in Projects, Switch(p) \/ Add(p) \/ Remove(p) PROVE Begun'
  BY <1>2, <1>3 DEF Switch, Add, Remove, Begins, app, teardowns
<1>4. CASE \/ ImagesReady \/ ImagesNotReady \/ EngineReady \/ EngineFails \/ Started \/ StartFails
           \/ TaskDies \/ Undo \/ Rollback \/ Succeeds
  BY <1>2, <1>4 DEF ImagesReady, ImagesNotReady, EngineReady, EngineFails, Started, StartFails, TaskDies,
    Undo, Rollback, Succeeds, Passes, app, teardowns
<1>5. CASE RemovalReady \/ RemovalDown \/ RemovalFails \/ Forget
  BY <1>2, <1>5 DEF RemovalReady, RemovalDown, RemovalFails, Forget, Passes, app, teardowns
<1>6. CASE Wait
  <2>1. /\ joins' = [joins EXCEPT !["command"] = handle[target["command"]]]
        /\ handle' = [handle EXCEPT ![target["command"]] = None]
        /\ UNCHANGED <<at, thread, drained>>
    BY <1>6 DEF Wait, app
  <2>2. target["command"] \in Projects
    BY <1>6 DEF Wait, Targets
  <2> QED
    BY <1>1, <2>1, <2>2
<1>7. CASE Waited
  <2>1. joins' = [joins EXCEPT !["command"] = None] /\ UNCHANGED <<at, handle, thread, drained>>
    BY <1>7 DEF Waited, EndsJoin, app, teardowns
  <2> QED
    BY <1>1, <2>1
<1>8. ASSUME NEW a \in Actors, SpawnStep(a) PROVE Begun'
  <2>1. CASE Record(a)
    BY <1>2, <2>1 DEF Record, Passes, app, teardowns
  <2>2. CASE Spawn(a)
    <3>1. PICK t \in Threads : /\ at' = [at EXCEPT ![t] = "down"]
                               /\ thread' = [thread EXCEPT ![a] = t]
      BY <2>2 DEF Spawn
    <3>2. UNCHANGED <<handle, joins, drained>>
      BY <2>2 DEF Spawn, app
    <3> QED
      BY <1>1, <3>1, <3>2
  <2>3. CASE Insert(a)
    <3>1. /\ joins' = [joins EXCEPT ![a] = handle[target[a]]]
          /\ handle' = [handle EXCEPT ![target[a]] = thread[a]]
          /\ thread' = [thread EXCEPT ![a] = None]
          /\ UNCHANGED <<at, drained>>
      BY <2>3 DEF Insert, app
    <3>2. target[a] \in Projects
      BY <2>3 DEF Insert, Targets, Actors
    <3>3. ASSUME NEW t \in Threads, Awaited(t)' PROVE Awaited(t)
      BY <1>1, <3>1, <3>2, <3>3
    <3> QED
      BY <1>1, <3>1, <3>3
  <2>4. CASE Replaced(a)
    <3>1. joins' = [joins EXCEPT ![a] = None] /\ UNCHANGED <<at, handle, thread, drained>>
      BY <2>4 DEF Replaced, EndsJoin, app, teardowns
    <3> QED
      BY <1>1, <3>1
  <2> QED
    BY <1>8, <2>1, <2>2, <2>3, <2>4 DEF SpawnStep
<1>9. ASSUME NEW t \in Threads, ThreadStep(t) PROVE Begun'
  <2>1. /\ \E s \in {"clear", "done"} : at' = [at EXCEPT ![t] = s]
        /\ UNCHANGED <<handle, thread, joins, drained>>
    BY <1>9 DEF ThreadStep, TearsDown, TearDownFails, Clears, app, actors
  <2> QED
    BY <1>1, <2>1
<1>10. CASE Launch \/ Retry \/ ReconcileLeaves \/ ReadIntents \/ Converge \/ Release
  BY <1>2, <1>10 DEF Launch, Retry, ReconcileLeaves, ReadIntents, Converge, Release, Passes, app, teardowns
<1>11. CASE BeginExit
  <2>1. /\ drained' = {handle[p] : p \in Projects} \ {None}
        /\ handle' = [p \in Projects |-> None]
        /\ UNCHANGED <<at, thread, joins>>
    BY <1>11 DEF BeginExit, actors
  <2> QED
    BY <1>1, <2>1
<1>12. CASE Drained
  BY <1>1, <1>12 DEF Drained, teardowns, actors
<1>13. CASE Quit \/ Crash
  <2>1. /\ drained' = {} /\ handle' = [p \in Projects |-> None]
        /\ thread' = [a \in Actors |-> None] /\ joins' = [a \in Actors |-> None]
    BY <1>13 DEF Quit, Crash, Ends
  <2> QED
    BY <1>1, <2>1
<1>14. CASE \E p \in Projects : UserStarts(p) \/ UserStops(p)
  BY <1>2, <1>14 DEF UserStarts, UserStops, app, teardowns, actors
<1> QED
  BY <1>1, <1>3, <1>4, <1>5, <1>6, <1>7, <1>8, <1>9, <1>10, <1>11, <1>12, <1>13, <1>14
  DEF Next, CommandStep, ReconcileStep

LEMMA ChecksStep == ASSUME TypeOK, Checks, Next PROVE Checks'
<1>1. pc \in [Actors -> Place] /\ "command" \in Actors /\ "reconcile" \in Actors
  BY Types DEF ActorTypes, Actors
<1> USE DEF Checks, Goes, app
<1>2. ASSUME NEW p \in Projects, Switch(p) \/ Add(p) \/ Remove(p) PROVE Checks'
  BY <1>1, <1>2 DEF Switch, Add, Remove, Begins
<1>3. CASE \/ ImagesReady \/ ImagesNotReady \/ EngineReady \/ EngineFails \/ Started \/ StartFails
           \/ TaskDies \/ Undo \/ Rollback
  BY <1>1, <1>3 DEF ImagesReady, ImagesNotReady, EngineReady, EngineFails, Started, StartFails, TaskDies,
    Undo, Rollback, Passes
<1>4. CASE Succeeds \/ RemovalReady \/ RemovalDown \/ RemovalFails \/ Forget \/ Wait \/ Waited
  BY <1>1, <1>4 DEF Succeeds, RemovalReady, RemovalDown, RemovalFails, Forget, Wait, Waited, EndsJoin, Passes
<1>5. ASSUME NEW a \in Actors, SpawnStep(a) PROVE Checks'
  <2>1. CASE a = "command"
    BY <1>1, <1>5, <2>1 DEF SpawnStep, Record, Spawn, Insert, Replaced, EndsJoin, Passes
  <2>2. CASE a = "reconcile"
    BY <1>1, <1>5, <2>2 DEF SpawnStep, Record, Spawn, Insert, Replaced, EndsJoin, Passes
  <2> QED
    BY <2>1, <2>2 DEF Actors
<1>6. CASE Launch \/ Retry \/ ReconcileLeaves \/ ReadIntents \/ Converge \/ Release
  BY <1>1, <1>6 DEF Launch, Retry, ReconcileLeaves, ReadIntents, Converge, Release, Passes
<1>7. CASE BeginExit \/ Drained \/ Quit \/ Crash
  BY <1>7 DEF BeginExit, Drained, Quit, Crash, Ends, actors
<1>8. CASE (\E t \in Threads : ThreadStep(t)) \/ (\E p \in Projects : UserStarts(p) \/ UserStops(p))
  BY <1>8 DEF ThreadStep, TearsDown, TearDownFails, Clears, UserStarts, UserStops, actors
<1> QED
  BY <1>1, <1>2, <1>3, <1>4, <1>5, <1>6, <1>7, <1>8 DEF Next, CommandStep, ReconcileStep

(* The safety half of WaitersGetThrough.                                   *)
THEOREM NobodyWaitsInVain == Spec => []WaitsForTheRunning
<1>1. Init => Begun /\ Checks
  <2> SUFFICES ASSUME Init PROVE Begun /\ Checks
    OBVIOUS
  <2>1. Checks
    BY DEF Init, Checks
  <2>2. Begun
    BY LifecycleAssumption DEF Init, Begun, Awaited
  <2> QED
    BY <2>1, <2>2
<1>2. TypeOK /\ Targets /\ Begun /\ Checks /\ [Next]_vars => Begun' /\ Checks'
  <2>1. ASSUME TypeOK, Targets, Begun, Checks, Next PROVE Begun' /\ Checks'
    BY <2>1, BegunStep, ChecksStep
  <2>2. ASSUME Begun, Checks, UNCHANGED vars PROVE Begun' /\ Checks'
    BY <2>2 DEF Begun, Awaited, Checks, vars
  <2> QED
    BY <2>1, <2>2
<1>3. TypeOK /\ Begun /\ Checks => WaitsForTheRunning
  <2> SUFFICES ASSUME TypeOK, Begun, Checks PROVE WaitsForTheRunning
    OBVIOUS
  <2>1. /\ at \in [Threads -> {"none", "down", "clear", "done"}] /\ drained \in SUBSET Threads
        /\ joins \in [Actors -> Threads \cup {None}]
    BY Types DEF ThreadTypes, ActorTypes, AppTypes
  <2>2. ASSUME NEW t \in Threads, Awaited(t) PROVE Moves(t)
    BY <2>1, <2>2 DEF Begun, Moves, RegistryFree
  <2>3. \A a \in Actors : joins[a] # None => joins[a] \in Threads /\ Awaited(joins[a])
    BY <2>1 DEF Awaited
  <2>4. \A t \in drained : t \in Threads /\ Awaited(t)
    BY <2>1 DEF Awaited
  <2> QED
    BY <2>2, <2>3, <2>4 DEF WaitsForTheRunning, Checks, RegistryFree
<1>4. IInv => TypeOK /\ Targets
  BY DEF IInv, Control
<1> QED
  BY <1>1, <1>2, <1>3, <1>4, Invariance, PTL DEF Spec
=============================================================================
