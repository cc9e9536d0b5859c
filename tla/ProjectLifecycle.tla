-------------------------- MODULE ProjectLifecycle --------------------------
(***************************************************************************)
(* Which project is active and which ones run: switching, adding and       *)
(* removing a project (project_cmd.rs, containers_cmd.rs), the background  *)
(* teardown of the project a switch leaves, and the convergence of the     *)
(* teardowns a crash interrupted, when a launch finds the bundle unchanged *)
(* (reconcile.rs).                                                         *)
(*                                                                         *)
(* The config and the teardown intents are on disk, and containers outlive *)
(* the app; threads and their handles do not.  A compose operation is one  *)
(* step: it holds the project's compose lock (ComposeLock).                *)
(***************************************************************************)
EXTENDS Naturals

CONSTANTS
  Projects, None,
  Threads,      \* teardown threads, by number
  MaxCommands,  \* bound: switches, additions and removals
  MaxLaunches   \* bound: launches of the app

ASSUME LifecycleAssumption ==
  /\ Threads \subseteq Nat
  /\ None \notin Projects \cup Threads
  /\ MaxCommands \in Nat /\ MaxLaunches \in Nat

VARIABLES
  active, known,    \* config.json: the active project, the projects
  intents,          \* pending-teardowns
  up,               \* projects whose containers run
  alive, images,    \* the app runs; IMAGES_READY
  exiting, drained, \* the exit cleanup, and the threads it joins
  of, at,           \* each teardown thread: its project, and where it is
  handle,           \* PENDING_TEARDOWNS
  pc, target,       \* the command and the reconcile: where they are, their project
  thread, joins,    \* the thread each has spawned, and the one it waits for
  previous,         \* of the command: the active project it replaces
  crashed,          \* of the reconcile: the intents left to converge
  commands, launches,
  settled,          \* the project of a switch that succeeded, until another begins
  debt,             \* projects whose teardown was recorded, up since
  crossed           \* a teardown was recorded while another of its project was under way

vars == <<active, known, intents, up, alive, images, exiting, drained, of, at, handle, pc, target,
          thread, joins, previous, crashed, commands, launches, settled, debt, crossed>>
config == <<active, known>>
app == <<alive, images, exiting, drained, launches>>
teardowns == <<of, at, handle>>
actors == <<pc, target, thread, joins, previous, crashed, commands>>
history == <<settled, crossed>>
stacks == <<up, debt>>

Actors == {"command", "reconcile"}
Idle == [a \in Actors |-> "none"]

TypeOK ==
  /\ known \in SUBSET Projects /\ active \in known \cup {None}
  /\ intents \in SUBSET Projects /\ up \in SUBSET Projects /\ debt \in SUBSET Projects
  /\ alive \in BOOLEAN /\ images \in {"Checking", "Ready", "Failed"}
  /\ exiting \in {"no", "drain", "stop"} /\ drained \in SUBSET Threads
  /\ of \in [Threads -> Projects \cup {None}]
  /\ at \in [Threads -> {"none", "down", "clear", "done"}]
  /\ handle \in [Projects -> Threads \cup {None}]
  /\ pc \in [Actors -> {"none", "images", "engine", "wait", "joining", "start", "undo", "rollback",
                        "succeeded", "engineOfRemoval", "downOfRemoval", "forget",
                        "restore", "converge", "record", "spawn", "insert", "replaced"}]
  /\ target \in [Actors -> Projects \cup {None}]
  /\ thread \in [Actors -> Threads \cup {None}] /\ joins \in [Actors -> Threads \cup {None}]
  /\ previous \in Projects \cup {None} /\ crashed \in SUBSET Projects
  /\ commands \in 0..MaxCommands /\ launches \in 0..MaxLaunches
  /\ settled \in {active, None} /\ crossed \in BOOLEAN

Init ==
  /\ known \in SUBSET Projects /\ active \in known \cup {None}
  /\ intents = {} /\ up = {} /\ debt = {}
  /\ alive = FALSE /\ images = "Ready" /\ exiting = "no" /\ drained = {}
  /\ of = [t \in Threads |-> None] /\ at = [t \in Threads |-> "none"]
  /\ handle = [p \in Projects |-> None]
  /\ pc = Idle /\ target = [a \in Actors |-> None]
  /\ thread = target /\ joins = target
  /\ previous = None /\ crashed = {}
  /\ commands = 0 /\ launches = 0
  /\ settled = None /\ crossed = FALSE

Goes(a, s) == pc' = [pc EXCEPT ![a] = s]

(* The command or the reconcile goes from one step to another.             *)
Passes(a, from, to) ==
  /\ pc[a] = from /\ Goes(a, to)
  /\ UNCHANGED <<target, thread, joins, previous, crashed, commands>>

Up(p) == up' = up \cup {p} /\ debt' = debt \ {p}
Down(p) == up' = up \ {p} /\ debt' = debt \ {p}

-----------------------------------------------------------------------------
(* The commands.  One runs at a time (PROJECT_TRANSITION_LOCK): another is *)
(* refused before it changes anything.                                     *)

Begins(s, p) ==
  /\ alive /\ pc["command"] = "none" /\ commands < MaxCommands
  /\ commands' = commands + 1
  /\ Goes("command", s)
  /\ target' = [target EXCEPT !["command"] = p]
  /\ UNCHANGED <<intents, stacks, app, teardowns, thread, joins, crashed>>

(* switch_project: the config names the new project before anything is     *)
(* started.                                                                *)
Switch(p) ==
  /\ p \in known
  /\ Begins("images", p)
  /\ active' = p /\ previous' = active /\ settled' = None
  /\ UNCHANGED <<known, crossed>>

Add(p) ==
  /\ p \notin known
  /\ Begins("images", p)
  /\ known' = known \cup {p}
  /\ active' = p /\ previous' = active /\ settled' = None /\ UNCHANGED crossed

(* A mutant of Remove: the active project goes too.                        *)
RemoveAny(p) ==
  /\ p \in known
  /\ Begins("engineOfRemoval", p)
  /\ UNCHANGED <<config, previous, history>>

(* remove_project_core, of any project but the active one.                 *)
Remove(p) ==
  /\ p \in known \ {active}
  /\ Begins("engineOfRemoval", p)
  /\ UNCHANGED <<config, previous, history>>

(* ensure_images_ready: the images are ready, or they are not in time.     *)
ImagesReady ==
  /\ images = "Ready"
  /\ Passes("command", "images", "engine")
  /\ UNCHANGED <<config, intents, stacks, app, teardowns, history>>

ImagesNotReady ==
  /\ images # "Ready"
  /\ Passes("command", "images", "rollback")
  /\ UNCHANGED <<config, intents, stacks, app, teardowns, history>>

(* switch_project_core.                                                    *)
EngineReady ==
  /\ exiting = "no"
  /\ Passes("command", "engine", "wait")
  /\ UNCHANGED <<config, intents, stacks, app, teardowns, history>>

EngineFails ==
  /\ Passes("command", "engine", "rollback")
  /\ UNCHANGED <<config, intents, stacks, app, teardowns, history>>

(* A mutant of Wait: the project is started beside its teardown.           *)
WaitSkipped ==
  /\ Passes("command", "wait", "joining")
  /\ UNCHANGED <<config, intents, stacks, app, teardowns, history>>

(* wait_for_pending_teardown: the handle is removed, then joined.          *)
Wait ==
  /\ pc["command"] = "wait" /\ Goes("command", "joining")
  /\ joins' = [joins EXCEPT !["command"] = handle[target["command"]]]
  /\ handle' = [handle EXCEPT ![target["command"]] = None]
  /\ UNCHANGED <<config, intents, stacks, app, of, at, target, thread, previous, crashed, commands, history>>

Joined(a) == joins[a] # None => at[joins[a]] = "done"

EndsJoin(a, from, to) ==
  /\ pc[a] = from /\ Joined(a) /\ Goes(a, to)
  /\ joins' = [joins EXCEPT ![a] = None]
  /\ UNCHANGED <<target, thread, previous, crashed, commands>>

Waited ==
  /\ EndsJoin("command", "joining", "start")
  /\ UNCHANGED <<config, intents, stacks, app, teardowns, history>>

(* The new project runs, or it has no LLM provider and nothing is started. *)
Started ==
  /\ Passes("command", "start", "succeeded")
  /\ Up(target["command"]) \/ UNCHANGED stacks
  /\ settled' = target["command"] /\ UNCHANGED crossed
  /\ UNCHANGED <<config, intents, app, teardowns>>

StartFails ==
  /\ Passes("command", "start", "undo")
  /\ Up(target["command"]) \/ UNCHANGED stacks
  /\ UNCHANGED <<config, intents, app, teardowns, history>>

(* finish_switch_task: the task panics in one of the calls it makes (the   *)
(* wait and the join do not).                                              *)
TaskDies ==
  /\ \E from \in {"images", "engine", "start"} : Passes("command", from, "undo")
  /\ UNCHANGED <<config, intents, stacks, app, teardowns, history>>

(* teardown_only.                                                          *)
Undo ==
  /\ Passes("command", "undo", "rollback")
  /\ Down(target["command"]) \/ UNCHANGED stacks
  /\ UNCHANGED <<config, intents, app, teardowns, history>>

(* rollback_and_emit_failed, whose save may fail.                          *)
Rollback ==
  /\ Passes("command", "rollback", "none")
  /\ active' \in {previous, active}
  /\ UNCHANGED <<known, intents, stacks, app, teardowns, history>>

(* The chats of the previous project are cleared, and its teardown begins. *)
Succeeds ==
  /\ pc["command"] = "succeeded"
  /\ Goes("command", IF previous \in {None, target["command"]} THEN "none" ELSE "record")
  /\ target' = [target EXCEPT !["command"] = previous]
  /\ UNCHANGED <<config, intents, stacks, app, teardowns, thread, joins, previous, crashed, commands, history>>

RemovalReady ==
  /\ exiting = "no"
  /\ Passes("command", "engineOfRemoval", "downOfRemoval")
  /\ UNCHANGED <<config, intents, stacks, app, teardowns, history>>

RemovalDown ==
  /\ Passes("command", "downOfRemoval", "forget")
  /\ Down(target["command"])
  /\ UNCHANGED <<config, intents, app, teardowns, history>>

RemovalFails ==
  /\ \E from \in {"engineOfRemoval", "downOfRemoval", "forget"} : Passes("command", from, "none")
  /\ UNCHANGED <<config, intents, stacks, app, teardowns, history>>

Forget ==
  /\ Passes("command", "forget", "none")
  /\ known' = known \ {target["command"]}
  /\ UNCHANGED <<active, intents, stacks, app, teardowns, history>>

-----------------------------------------------------------------------------
(* spawn_background_teardown.                                              *)

(* A mutant: a thread is joined under the registry lock it needs itself.   *)
RegistryHeldByJoin == pc["command"] # "joining"

(* The registry lock is free whenever somebody waits for a thread.         *)
RegistryFree == TRUE

Record(a) ==
  /\ RegistryFree
  /\ Passes(a, "record", "spawn")
  /\ intents' = intents \cup {target[a]}
  /\ debt' = debt \cup (up \cap {target[a]})
  /\ crossed' = (crossed \/ \E t \in Threads : at[t] \in {"down", "clear"} /\ of[t] = target[a])
  /\ UNCHANGED <<config, up, app, teardowns, settled>>

Unused(t) ==
  /\ at[t] \in {"none", "done"} /\ t \notin drained
  /\ \A p \in Projects : handle[p] # t
  /\ \A a \in Actors : t \notin {thread[a], joins[a]}

Spawn(a) ==
  /\ pc[a] = "spawn" /\ Goes(a, "insert")
  /\ \E t \in Threads :
       /\ Unused(t) /\ \A u \in Threads : Unused(u) => t <= u
       /\ of' = [of EXCEPT ![t] = target[a]] /\ at' = [at EXCEPT ![t] = "down"]
       /\ thread' = [thread EXCEPT ![a] = t]
  /\ UNCHANGED <<config, intents, stacks, app, handle, target, joins, previous, crashed, commands, history>>

(* The handle goes in after the thread has begun; the one it replaces is   *)
(* joined.                                                                 *)
Insert(a) ==
  /\ RegistryFree
  /\ pc[a] = "insert" /\ Goes(a, "replaced")
  /\ joins' = [joins EXCEPT ![a] = handle[target[a]]]
  /\ handle' = [handle EXCEPT ![target[a]] = thread[a]]
  /\ thread' = [thread EXCEPT ![a] = None]
  /\ UNCHANGED <<config, intents, stacks, app, of, at, target, previous, crashed, commands, history>>

Replaced(a) ==
  /\ EndsJoin(a, "replaced", IF a = "command" THEN "none" ELSE "converge")
  /\ UNCHANGED <<config, intents, stacks, app, teardowns, history>>

(* The thread: compose_down, then the intent is cleared.                   *)
TearsDown(t) ==
  /\ at[t] = "down"
  /\ at' = [at EXCEPT ![t] = "clear"]
  /\ Down(of[t])
  /\ UNCHANGED <<config, intents, app, of, handle, actors, history>>

(* A mutant of TearDownFails: the intent is cleared whatever came of it.    *)
TearDownForgets(t) ==
  /\ at[t] = "down"
  /\ at' = [at EXCEPT ![t] = "clear"]
  /\ UNCHANGED <<config, intents, stacks, app, of, handle, actors, history>>

TearDownFails(t) ==
  /\ at[t] = "down"
  /\ at' = [at EXCEPT ![t] = "done"]
  /\ UNCHANGED <<config, intents, stacks, app, of, handle, actors, history>>

Clears(t) ==
  /\ RegistryFree
  /\ at[t] = "clear"
  /\ at' = [at EXCEPT ![t] = "done"]
  /\ intents' = intents \ {of[t]}
  /\ UNCHANGED <<config, stacks, app, of, handle, actors, history>>

-----------------------------------------------------------------------------
(* The reconcile of a launch whose bundle is unchanged, or of a retry.     *)

Launch ==
  /\ ~alive /\ launches < MaxLaunches
  /\ alive' = TRUE /\ launches' = launches + 1
  /\ images' = "Checking" /\ Goes("reconcile", "restore")
  /\ UNCHANGED <<config, intents, stacks, exiting, drained, teardowns,
                 target, thread, joins, previous, crashed, commands, history>>

Retry ==
  /\ alive /\ images = "Failed"
  /\ images' = "Checking"
  /\ Passes("reconcile", "none", "restore")
  /\ UNCHANGED <<config, intents, stacks, alive, exiting, drained, launches, teardowns, history>>

(* The engine does not answer; or it is not up yet, which leaves the rest  *)
(* for another launch.                                                     *)
ReconcileLeaves ==
  /\ Passes("reconcile", "restore", "none")
  /\ images' \in {"Ready", "Failed"}
  /\ UNCHANGED <<config, intents, stacks, alive, exiting, drained, launches, teardowns, history>>

(* restore_projects, and then the config and the intents are read, each    *)
(* once; without the config nothing converges.                             *)
ReadIntents ==
  /\ pc["reconcile"] = "restore" /\ Goes("reconcile", "converge")
  /\ \E restored \in SUBSET known : up' = up \cup restored /\ debt' = debt \ restored
  /\ crashed' \in {intents \ {active}, {}}
  /\ UNCHANGED <<config, intents, app, teardowns, target, thread, joins, previous, commands, history>>

Converge ==
  /\ pc["reconcile"] = "converge" /\ Goes("reconcile", "record")
  /\ \E p \in crashed :
       /\ crashed' = crashed \ {p}
       /\ target' = [target EXCEPT !["reconcile"] = p]
  /\ UNCHANGED <<config, intents, stacks, app, teardowns, thread, joins, previous, commands, history>>

(* release_image_waiters.                                                  *)
Release ==
  /\ crashed = {}
  /\ Passes("reconcile", "converge", "none")
  /\ images' = "Ready"
  /\ UNCHANGED <<config, intents, stacks, alive, exiting, drained, launches, teardowns, history>>

-----------------------------------------------------------------------------
(* run_exit_cleanup: the pending teardowns are drained, then the VM is     *)
(* stopped, unless a CLI session uses it.                                  *)

BeginExit ==
  /\ alive /\ exiting = "no"
  /\ exiting' = "drain"
  /\ drained' = {handle[p] : p \in Projects} \ {None}
  /\ handle' = [p \in Projects |-> None]
  /\ UNCHANGED <<config, intents, stacks, alive, images, launches, of, at, actors, history>>

Drained ==
  /\ exiting = "drain" /\ \A t \in drained : at[t] = "done"
  /\ exiting' = "stop" /\ drained' = {}
  /\ UNCHANGED <<config, intents, stacks, alive, images, launches, teardowns, actors, history>>

Ends ==
  /\ alive' = FALSE /\ images' = "Ready" /\ exiting' = "no" /\ drained' = {}
  /\ of' = [t \in Threads |-> None] /\ at' = [t \in Threads |-> "none"]
  /\ handle' = [p \in Projects |-> None]
  /\ pc' = Idle /\ target' = [a \in Actors |-> None]
  /\ thread' = target' /\ joins' = target'
  /\ previous' = None /\ crashed' = {}
  /\ settled' = None
  /\ UNCHANGED <<config, intents, commands, launches, crossed>>

Quit ==
  /\ exiting = "stop"
  /\ \/ up' = {} /\ debt' = {}
     \/ UNCHANGED stacks
  /\ Ends

Crash ==
  /\ alive
  /\ Ends
  /\ UNCHANGED stacks

(* The CLI, and start_containers, which waits for no teardown.             *)
UserStarts(p) ==
  /\ p \in known /\ Up(p)
  /\ UNCHANGED <<config, intents, app, teardowns, actors, history>>

UserStops(p) ==
  /\ p \in known /\ Down(p)
  /\ UNCHANGED <<config, intents, app, teardowns, actors, history>>

-----------------------------------------------------------------------------
SpawnStep(a) == Record(a) \/ Spawn(a) \/ Insert(a) \/ Replaced(a)

CommandStep ==
  \/ ImagesReady \/ ImagesNotReady \/ EngineReady \/ EngineFails \/ Wait \/ Waited
  \/ Started \/ StartFails \/ TaskDies \/ Undo \/ Rollback \/ Succeeds
  \/ RemovalReady \/ RemovalDown \/ RemovalFails \/ Forget
  \/ SpawnStep("command")

ReconcileStep == ReconcileLeaves \/ ReadIntents \/ Converge \/ Release \/ SpawnStep("reconcile")

ThreadStep(t) == TearsDown(t) \/ TearDownFails(t) \/ Clears(t)

Next ==
  \/ \E p \in Projects : Switch(p) \/ Add(p) \/ Remove(p)
  \/ CommandStep \/ ReconcileStep
  \/ \E t \in Threads : ThreadStep(t)
  \/ Launch
  \/ \E p \in Projects : UserStarts(p) \/ UserStops(p)
  \/ Retry \/ BeginExit \/ Drained \/ Quit \/ Crash

Spec == Init /\ [][Next]_vars

(* What has begun goes on: the command's task, the reconcile, each thread  *)
(* (a compose_down ends, well or not) and the exit cleanup.                *)
FairSpec ==
  /\ Spec
  /\ WF_vars(CommandStep) /\ WF_vars(ReconcileStep) /\ WF_vars(Drained \/ Quit)
  /\ \A t \in Threads : WF_vars(ThreadStep(t))

-----------------------------------------------------------------------------
(* Properties.                                                             *)

(* A switch that has succeeded is not undone: from there until the next    *)
(* command no teardown of its project is under way, one from before the    *)
(* switch or one that the reconcile found on disk.  (The exit cleanup      *)
(* takes the handles; what runs then is stopped anyway.)                   *)
SwitchHolds ==
  settled # None /\ exiting = "no" =>
    /\ \A t \in Threads : at[t] = "down" => of[t] # settled
    /\ \A a \in Actors : pc[a] \in {"record", "spawn"} => target[a] # settled

(* A project whose teardown was recorded and that is still up since is on  *)
(* disk for the next launch, whatever fails or dies in between; unless two *)
(* teardowns of a project cross, and the first clears the record of the    *)
(* second: a switch may fail back to a project under teardown, and succeed *)
(* the next time.                                                          *)
DebtOnDisk == crossed \/ debt \subseteq intents

(* Whoever waits for a teardown gets through: the command ends, and so     *)
(* does the exit of the app.                                               *)
WaitersGetThrough ==
  /\ pc["command"] # "none" ~> pc["command"] = "none"
  /\ exiting # "no" ~> ~alive
=============================================================================
