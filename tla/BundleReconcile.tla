--------------------------- MODULE BundleReconcile ---------------------------
(***************************************************************************)
(* The reconcile that follows an update of the app (reconcile.rs,          *)
(* bundle.rs) and the command that installs one (update_commands.rs).      *)
(*                                                                         *)
(* bundle-state.json survives a crash, and so do the containers; readiness *)
(* and the single-flight phase are the process's own.  A reconcile thread  *)
(* and the install each work on a copy of the state they loaded, and no     *)
(* lock keeps them apart.                                                  *)
(***************************************************************************)
CONSTANTS
  Projects,
  Fickle,          \* bound: projects whose containers, directory or config entry others change
  Workers,         \* reconcile threads
  Updater          \* install_update_and_reconcile

ASSUME BundleAssumption ==
  /\ Fickle \subseteq Projects
  /\ Updater \notin Workers

VARIABLES
  disk,        \* bundle-state.json
  up,          \* projects whose containers run
  halted,      \* projects an update stopped, and nobody started since
  configured,  \* projects in the config with an LLM provider
  gone,        \* projects whose directory is not there
  alive,       \* the app runs
  flight,      \* BUNDLE_RECONCILE_PHASE
  ready,       \* IMAGES_READY
  pc, upc,     \* where each reconcile thread is, and where the install is
  st,          \* the copy of the state that each of them works on
  todo, kept,  \* of each stop or restore: the projects left, and those retained
  cfg,         \* of each restore: those left that the config it read wants
  stale        \* history: who works from a list or a config that is not the true one

vars == <<disk, up, halted, configured, gone, alive,
          flight, ready, pc, upc, st, todo, kept, cfg, stale>>
world == <<configured, gone>>
stacks == <<up, halted>>
batch == <<todo, kept, cfg>>
readiness == <<flight, ready>>
copies == <<st, stale>>

Actors == Workers \cup {Updater}

(* The phases between the first and the last are told from them, and never *)
(* from each other.                                                        *)
Phase == {"pending", "begun", "done"}

(* applied: whether the id it names is that of the installed app.           *)
BundleState == [applied : BOOLEAN, phase : Phase, pending : SUBSET Projects]
Blank == [applied |-> FALSE, phase |-> "done", pending |-> {}]

(* Where a thread may fail or panic, and the rest of its way.              *)
Working == {"load", "check", "prepare", "prepareMissing", "ensure", "sync", "stop", "resources",
            "build", "built", "restore", "finish", "restoreSame"}
WorkerState == Working \cup {"none", "failed", "ok", "drop"}

(* The install takes back what it stopped, after a stop or an install that *)
(* failed.                                                                 *)
Undoing == {"undoStop", "undoInstall"}
InstallState == {"none", "stop", "install"} \cup Undoing

(* Who goes through a list of projects.                                    *)
InFlight(a) == IF a = Updater THEN upc \in Undoing ELSE pc[a] \in {"restore", "restoreSame"}
Batching(a) == InFlight(a) \/ (IF a = Updater THEN upc = "stop" ELSE pc[a] = "stop")

TypeOK ==
  /\ disk \in BundleState
  /\ up \in SUBSET Projects /\ halted \in SUBSET Projects
  /\ configured \in SUBSET Projects /\ gone \in SUBSET Projects
  /\ alive \in BOOLEAN
  /\ flight \in {"idle", "checking", "rebuilding"}
  /\ ready \in {"Ready", "Checking", "Building", "Failed"}
  /\ pc \in [Workers -> WorkerState]
  /\ upc \in InstallState
  /\ st \in [Actors -> BundleState]
  /\ todo \in [Actors -> SUBSET Projects]
  /\ kept \in [Actors -> SUBSET Projects]
  /\ cfg \in [Actors -> SUBSET Projects]
  /\ stale \subseteq Actors
  /\ up \cap halted = {}
  /\ \A a \in Actors : todo[a] # {} => Batching(a)
  /\ ~alive => upc = "none" /\ \A w \in Workers : pc[w] = "none"

(* An installed app that is up to date, or was never reconciled.           *)
Init ==
  /\ \E a \in BOOLEAN : disk = [Blank EXCEPT !.applied = a]
  /\ up \in SUBSET Projects /\ halted = {}
  /\ configured = Projects /\ gone = {}
  /\ alive = FALSE
  /\ flight = "idle" /\ ready = "Ready"
  /\ pc = [w \in Workers |-> "none"]
  /\ upc = "none"
  /\ st = [a \in Actors |-> Blank]
  /\ todo = [a \in Actors |-> {}] /\ kept = todo /\ cfg = todo
  /\ stale = {}

-----------------------------------------------------------------------------
(* The state file is read and written without a lock, the config is read   *)
(* once: who writes the list, stops a project or puts one into the config  *)
(* leaves the others at work with what was true before.                    *)
AtWork ==
  {w \in Workers : pc[w] \in Working \ {"load"}} \cup (IF upc = "none" THEN {} ELSE {Updater})

Disturbs(a) == stale' = (stale \cap {a}) \cup (AtWork \ {a})

-----------------------------------------------------------------------------
(* The world outside the app: projects are started and stopped by the user *)
(* or the CLI, their directories and their entries in the config change.   *)

UserStarts(p) ==
  /\ p \in configured \ gone /\ p \notin up
  /\ up' = up \cup {p} /\ halted' = halted \ {p}
  /\ UNCHANGED <<disk, alive, world, readiness, pc, upc, copies, batch>>

UserStops(p) ==
  /\ p \in up
  /\ up' = up \ {p}
  /\ UNCHANGED <<disk, alive, world, readiness, halted, pc, upc, copies, batch>>

(* A volume is unmounted, or mounted again; nobody looks for the directory *)
(* of a project that is not wanted.                                        *)
DirChanges(p) ==
  /\ p \in configured
  /\ gone' = IF p \in gone THEN gone \ {p} ELSE gone \cup {p}
  /\ UNCHANGED <<disk, alive, stacks, configured, readiness, pc, upc, copies, batch>>

(* A project is removed, which stops it, or loses its provider.            *)
Unwanted(p) ==
  /\ p \in configured
  /\ configured' = configured \ {p} /\ gone' = gone \ {p}
  /\ up' \in {up, up \ {p}}
  /\ UNCHANGED <<disk, alive, halted, readiness, pc, upc, copies, batch>>

Wanted(p) ==
  /\ p \notin configured
  /\ configured' = configured \cup {p} /\ gone' \in {gone, gone \cup {p}}
  /\ stale' = stale \cup {a \in AtWork : InFlight(a) /\ p \in todo[a] \ cfg[a]}
  /\ UNCHANGED <<disk, alive, stacks, readiness, pc, upc, st, batch>>

-----------------------------------------------------------------------------
(* reconcile_bundle_update: one thread at a time, unless the last one is   *)
(* still on its way out.                                                   *)

Goes(w, s) == pc' = [pc EXCEPT ![w] = s]

(* What an actor knew goes with it.                                        *)
Clears(a) ==
  /\ st' = [st EXCEPT ![a] = Blank]
  /\ todo' = [todo EXCEPT ![a] = {}]
  /\ kept' = [kept EXCEPT ![a] = {}]
  /\ cfg' = [cfg EXCEPT ![a] = {}]

Enters(w) ==
  /\ pc[w] = "none"
  /\ flight' = "checking" /\ ready' = "Checking"
  /\ Goes(w, "load")

Launch(w) ==
  /\ ~alive
  /\ alive' = TRUE
  /\ Enters(w)
  /\ UNCHANGED <<disk, stacks, world, upc, copies, batch>>

(* retry_bundle_reconcile_if_failed.                                       *)
Retry(w) ==
  /\ alive /\ ready = "Failed" /\ flight = "idle"
  /\ Enters(w)
  /\ UNCHANGED <<disk, alive, stacks, world, upc, copies, batch>>

(* The thread's result.                                                    *)
Settles(w) ==
  /\ pc[w] \in {"failed", "ok"}
  /\ ready' = IF pc[w] = "failed" THEN "Failed" ELSE ready
  /\ flight' = IF pc[w] = "failed" THEN flight ELSE "idle"
  /\ Goes(w, IF pc[w] = "failed" THEN "ok" ELSE "drop")
  /\ UNCHANGED <<disk, alive, stacks, world, upc, copies, batch>>

(* ImageReadinessGuard, dropped when the thread ends.                      *)
Drop(w) ==
  /\ pc[w] = "drop"
  /\ ready' = IF ready \in {"Checking", "Building"} THEN "Failed" ELSE ready
  /\ flight' = "idle"
  /\ Goes(w, "none")
  /\ UNCHANGED <<disk, alive, stacks, world, upc, copies, batch>>

(* reconcile_bundle_update_inner returns.                                  *)
Returns(w, result) ==
  /\ Goes(w, result)
  /\ Clears(w)

(* A mutant of Aborts: a panic takes the thread with it, and no guard.      *)
AbortsUncaught(w) ==
  /\ pc[w] \in Working
  /\ Returns(w, "none") /\ flight' = "idle"
  /\ stale' = stale \ {w}
  /\ UNCHANGED <<disk, alive, stacks, world, ready, upc>>

(* A panic, or an error that set_bundle_error does not see: the manifest,  *)
(* a save, a listing, a check cancelled by the teardown.                   *)
Aborts(w) ==
  /\ pc[w] \in Working
  /\ Returns(w, "failed")
  /\ stale' = stale \ {w}
  /\ UNCHANGED <<disk, alive, stacks, world, readiness, upc>>

(* A file that cannot be read is taken for an absent one.                  *)
Readings == {disk, Blank}

Writes(a, s) ==
  /\ st' = [st EXCEPT ![a] = s]
  /\ disk' = s

(* Who writes its list knows what is on disk.                              *)
Saves(a, s) ==
  /\ Writes(a, s)
  /\ stale' = AtWork \ {a}

(* set_bundle_error: the teardown keeps it off the disk, and a save that   *)
(* fails is only logged.                                                   *)
SavesError(w) ==
  /\ disk' \in {disk, st[w]}
  /\ stale' = AtWork \ {w}
  /\ Returns(w, "failed")

(* The engine does not answer, the sync or the build fails.                *)
Reports(w) ==
  /\ pc[w] \in {"check", "ensure", "resources", "build", "built"}
  /\ SavesError(w)
  /\ UNCHANGED <<alive, stacks, world, readiness, upc>>

-----------------------------------------------------------------------------
(* reconcile_bundle_update_inner.                                          *)

Load(w) ==
  /\ pc[w] = "load"
  /\ \E s \in Readings :
       /\ st' = [st EXCEPT ![w] = s]
       /\ stale' = (stale \ {w}) \cup {x \in {w} : s.pending # disk.pending}
       /\ Goes(w, IF ~s.applied \/ s.phase # "done" THEN "prepare" ELSE "check")
  /\ UNCHANGED <<disk, alive, stacks, world, readiness, upc, batch>>

(* images_exist, with an id that has not changed: an engine that is not    *)
(* ready releases the waiters and leaves the rest for another launch.      *)
EngineNotReady(w) ==
  /\ pc[w] = "check"
  /\ ready' = "Ready"
  /\ Returns(w, "ok")
  /\ stale' = stale \ {w}
  /\ UNCHANGED <<disk, alive, stacks, world, flight, upc>>

ImagesMissing(w) ==
  /\ pc[w] = "check"
  /\ Goes(w, "prepareMissing")
  /\ UNCHANGED <<disk, alive, stacks, world, readiness, upc, copies, batch>>

(* The projects a stop or a restore is about.                              *)
Lists(a, list) == todo' = [todo EXCEPT ![a] = list] /\ UNCHANGED <<kept, cfg>>

(* restore_projects reads the config once; one that cannot be read is taken *)
(* for an empty one, and misleads about what was to be restored.           *)
Batch(a, list, others) ==
  \E c \in {configured, {}} :
    /\ todo' = [todo EXCEPT ![a] = list]
    /\ kept' = [kept EXCEPT ![a] = {}]
    /\ cfg' = [cfg EXCEPT ![a] = list \cap c]
    /\ stale' = others \cup {x \in {a} : ~(list \cap configured \subseteq c)}

ImagesPresent(w) ==
  /\ pc[w] = "check"
  /\ Batch(w, st[w].pending, stale)
  /\ Goes(w, "restoreSame")
  /\ UNCHANGED <<disk, alive, stacks, world, readiness, upc, st>>

(* prepare_rebuild: the phase starts over.                                 *)
Prepare(w) ==
  /\ pc[w] \in {"prepare", "prepareMissing"}
  /\ IF st[w].phase = "pending" THEN UNCHANGED <<disk, copies>>
     ELSE Saves(w, [st[w] EXCEPT !.phase = "pending"])
  /\ flight' = "rebuilding" /\ ready' = "Building"
  /\ Goes(w, IF pc[w] = "prepare" THEN "ensure" ELSE "sync")
  /\ UNCHANGED <<alive, stacks, world, upc, batch>>

EngineReady(w) ==
  /\ pc[w] = "ensure"
  /\ Goes(w, "sync")
  /\ UNCHANGED <<disk, alive, stacks, world, readiness, upc, copies, batch>>

(* What runs is recorded before it is stopped.                             *)
RecordRunning(w) ==
  /\ pc[w] = "sync" /\ up # {}
  /\ Saves(w, [st[w] EXCEPT !.pending = @ \cup up])
  /\ Lists(w, up)
  /\ Goes(w, "stop")
  /\ UNCHANGED <<alive, stacks, world, readiness, upc>>

(* Nothing runs, or the engine or the config does not say.                 *)
SkipStop(w) ==
  /\ pc[w] = "sync"
  /\ Goes(w, "resources")
  /\ UNCHANGED <<disk, alive, stacks, world, readiness, upc, copies, batch>>

(* stop_projects.                                                          *)
StopsOne(a) ==
  \E p \in todo[a] :
    /\ todo' = [todo EXCEPT ![a] = @ \ {p}]
    /\ up' = up \ {p} /\ halted' = halted \cup (up \cap {p})
    /\ Disturbs(a)
    /\ UNCHANGED <<kept, cfg>>

Stop(w) ==
  /\ pc[w] = "stop"
  /\ StopsOne(w)
  /\ UNCHANGED <<disk, alive, world, readiness, pc, upc, st>>

(* All are stopped, or one is not: the sync goes on without the rest.      *)
StopEnds(w) ==
  /\ pc[w] = "stop"
  /\ Goes(w, "resources")
  /\ Lists(w, {})
  /\ UNCHANGED <<disk, alive, stacks, world, readiness, upc, copies>>

Synced(w) ==
  /\ pc[w] = "resources"
  /\ Saves(w, [st[w] EXCEPT !.phase = "begun"])
  /\ Goes(w, "build")
  /\ UNCHANGED <<alive, stacks, world, readiness, upc, batch>>

Built(w) ==
  /\ pc[w] = "build"
  /\ Saves(w, [st[w] EXCEPT !.phase = "begun"])
  /\ ready' = "Ready"
  /\ Goes(w, "built")
  /\ UNCHANGED <<alive, stacks, world, flight, upc, batch>>

(* What is pending and what runs now is restored; a config that cannot be  *)
(* read lists nothing.                                                     *)
RecordRestores(w) ==
  /\ pc[w] = "built"
  /\ \E running \in {up, {}} :
       /\ Writes(w, [st[w] EXCEPT !.pending = @ \cup running])
       /\ Batch(w, st[w].pending \cup running, AtWork \ {w})
  /\ Goes(w, "restore")
  /\ UNCHANGED <<alive, stacks, world, readiness, upc>>

-----------------------------------------------------------------------------
(* restore_batch: the config was read once, the directory is looked up     *)
(* project by project (and before the provider: one that has none may be   *)
(* deferred all the same), and the first failure ends it.                  *)

Dropped(a, p) ==
  /\ p \notin cfg[a]
  /\ halted' = halted \ {p}
  /\ UNCHANGED <<up, kept>>

Deferred(a, p) ==
  /\ p \in gone \/ p \notin cfg[a] \cup configured
  /\ kept' = [kept EXCEPT ![a] = @ \cup {p}]
  /\ UNCHANGED <<up, halted>>

Restored(a, p) ==
  /\ p \in cfg[a] \ gone /\ p \in configured
  /\ up' = up \cup {p} /\ halted' = halted \ {p}
  /\ UNCHANGED kept

RestoresOne(a) ==
  \E p \in todo[a] :
    /\ todo' = [todo EXCEPT ![a] = @ \ {p}]
    /\ cfg' = [cfg EXCEPT ![a] = @ \ {p}]
    /\ Dropped(a, p) \/ Deferred(a, p) \/ Restored(a, p)

(* It fails before it touches the stack, or after it took it down.         *)
RestoreBreaks(a) ==
  \E p \in cfg[a] \ gone :
    \E down \in SUBSET {p} :
      /\ up' = up \ down /\ halted' = halted \cup (up \cap down)

Restore(w) ==
  /\ pc[w] \in {"restore", "restoreSame"}
  /\ RestoresOne(w)
  /\ UNCHANGED <<disk, alive, world, readiness, pc, upc, copies>>

RestoreFails(w) ==
  /\ pc[w] \in {"restore", "restoreSame"}
  /\ RestoreBreaks(w)
  /\ SavesError(w)
  /\ UNCHANGED <<alive, world, readiness, upc>>

(* A mutant of RestoreEnds: the phase is saved with restores under way.     *)
RestoreEndsEarly(w) ==
  /\ pc[w] = "restore"
  /\ Writes(w, [st[w] EXCEPT !.phase = "begun"])
  /\ Disturbs(w)
  /\ Goes(w, "finish")
  /\ UNCHANGED <<alive, stacks, world, readiness, upc, batch>>

RestoreEnds(w) ==
  /\ pc[w] = "restore" /\ todo[w] = {}
  /\ Writes(w, [st[w] EXCEPT !.phase = "begun"])
  /\ Disturbs(w)
  /\ Goes(w, "finish")
  /\ UNCHANGED <<alive, stacks, world, readiness, upc, batch>>

Finish(w) ==
  /\ pc[w] = "finish"
  /\ disk' = [applied |-> TRUE, phase |-> "done", pending |-> kept[w]]
  /\ stale' = AtWork \ {w}
  /\ Returns(w, "ok")
  /\ UNCHANGED <<alive, stacks, world, readiness, upc>>

(* A mutant of SameEnds: the list is cleared with nothing restored yet.    *)
SameClears(w) ==
  /\ pc[w] = "restoreSame"
  /\ disk' = [st[w] EXCEPT !.pending = {}]
  /\ stale' = AtWork \ {w}
  /\ ready' = "Ready"
  /\ Returns(w, "ok")
  /\ UNCHANGED <<alive, stacks, world, flight, upc>>

(* The unchanged bundle: the deferred remainder stays pending.             *)
SameEnds(w) ==
  /\ pc[w] = "restoreSame" /\ todo[w] = {}
  /\ \/ disk' = [st[w] EXCEPT !.pending = kept[w]] /\ stale' = AtWork \ {w}
     \/ st[w].pending = kept[w] /\ UNCHANGED disk /\ stale' = stale \ {w}
  /\ ready' = "Ready"
  /\ Returns(w, "ok")
  /\ UNCHANGED <<alive, stacks, world, flight, upc>>

-----------------------------------------------------------------------------
(* install_update_and_reconcile.                                           *)

(* What runs replaces what was pending; an engine that is not available or *)
(* a config that cannot be read runs nothing.                              *)
Record ==
  /\ alive /\ upc = "none"
  /\ \E running \in {up, {}}, s \in Readings :
       /\ Saves(Updater, [s EXCEPT !.phase = "pending", !.pending = running])
       /\ Lists(Updater, running)
  /\ upc' = "stop"
  /\ UNCHANGED <<alive, stacks, world, readiness, pc>>

(* The projects it found running.                                          *)
Ran == st[Updater].pending

UpdaterStops ==
  /\ upc = "stop"
  /\ StopsOne(Updater)
  /\ UNCHANGED <<disk, alive, world, readiness, pc, upc, st>>

(* All are stopped, or the engine is not available and none is.            *)
UpdaterStopped ==
  /\ upc = "stop" /\ todo[Updater] \in {{}, Ran}
  /\ upc' = "install"
  /\ Lists(Updater, {})
  /\ UNCHANGED <<disk, alive, stacks, world, readiness, pc, copies>>

(* A stop or the install fails: what was stopped is started again.         *)
TakeBack ==
  /\ \/ upc = "stop" /\ todo[Updater] # {} /\ upc' = "undoStop"
     \/ upc = "install" /\ upc' = "undoInstall"
  /\ Batch(Updater, Ran, stale)
  /\ UNCHANGED <<disk, alive, stacks, world, readiness, pc, st>>

UpdaterRestores ==
  /\ upc \in Undoing
  /\ RestoresOne(Updater)
  /\ UNCHANGED <<disk, alive, world, readiness, pc, upc, copies>>

(* After a failed stop the copy is written back, after a failed install    *)
(* the file is read again; a save that fails changes nothing, and only the *)
(* message of the second says so.                                          *)
Undone(retained) ==
  /\ \E s \in IF upc = "undoStop" THEN {st[Updater]} ELSE Readings :
       disk' \in {disk, [s EXCEPT !.phase = "done", !.pending = retained]}
  /\ upc' = "none"
  /\ Clears(Updater)
  /\ stale' = AtWork \ {Updater}

UpdaterRestored ==
  /\ upc \in Undoing /\ todo[Updater] = {}
  /\ Undone(kept[Updater])
  /\ UNCHANGED <<alive, stacks, world, readiness, pc>>

(* A restore fails, or the engine is not available for any.                *)
UpdaterBreaks ==
  /\ upc \in Undoing
  /\ \/ RestoreBreaks(Updater)
     \/ upc = "undoInstall" /\ Ran # {} /\ todo[Updater] = Ran /\ UNCHANGED stacks
  /\ Undone(Ran)
  /\ UNCHANGED <<alive, world, readiness, pc>>

(* A task of the install panics: the command returns, the disk stays.      *)
UpdaterPanics ==
  /\ upc \in {"stop"} \cup Undoing
  /\ upc' = "none"
  /\ Clears(Updater)
  /\ stale' = stale \ {Updater}
  /\ UNCHANGED <<disk, alive, stacks, world, readiness, pc>>

-----------------------------------------------------------------------------
(* The process ends: its readiness, its threads and their copies with it.  *)

Ends ==
  /\ alive' = FALSE
  /\ flight' = "idle" /\ ready' = "Ready"
  /\ pc' = [w \in Workers |-> "none"]
  /\ upc' = "none"
  /\ st' = [a \in Actors |-> Blank]
  /\ todo' = [a \in Actors |-> {}] /\ kept' = todo' /\ cfg' = todo'
  /\ stale' = {}
  /\ UNCHANGED world

Crash ==
  /\ alive
  /\ Ends
  /\ UNCHANGED <<disk, stacks>>

(* The install succeeds and the app restarts, into the same version maybe. *)
Installed ==
  /\ upc = "install"
  /\ disk' \in {disk, [disk EXCEPT !.applied = FALSE]}
  /\ Ends
  /\ UNCHANGED stacks

(* run_exit_cleanup: the VM takes what runs with it, or is spared.         *)
Quit ==
  /\ alive
  /\ up' \in {up, {}}
  /\ Ends
  /\ UNCHANGED <<disk, halted>>

-----------------------------------------------------------------------------
Step(w) ==
  \/ Load(w) \/ EngineNotReady(w) \/ ImagesMissing(w) \/ ImagesPresent(w)
  \/ Prepare(w) \/ EngineReady(w) \/ RecordRunning(w) \/ SkipStop(w)
  \/ Stop(w) \/ StopEnds(w) \/ Synced(w) \/ Built(w) \/ RecordRestores(w)
  \/ Restore(w) \/ RestoreFails(w) \/ RestoreEnds(w) \/ Finish(w) \/ SameEnds(w)
  \/ Aborts(w) \/ Reports(w) \/ Settles(w) \/ Drop(w)

Install ==
  \/ Record \/ UpdaterStops \/ UpdaterStopped \/ TakeBack
  \/ UpdaterRestores \/ UpdaterRestored \/ UpdaterBreaks \/ UpdaterPanics \/ Installed

World ==
  \E p \in Fickle : UserStarts(p) \/ UserStops(p) \/ DirChanges(p) \/ Unwanted(p) \/ Wanted(p)

Next ==
  \/ \E w \in Workers : Launch(w) \/ Retry(w) \/ Step(w)
  \/ Install \/ World \/ Crash \/ Quit

Spec == Init /\ [][Next]_vars

(* A thread that can go on does.                                           *)
FairSpec == Spec /\ \A w \in Workers : WF_vars(Step(w))

-----------------------------------------------------------------------------
(* Properties.                                                             *)

(* An update owes a restart to each project it stops, from the stop until  *)
(* the project runs again or the restore turns it away for good: a failed  *)
(* sync, build, restore or save, a panic, a crash, an exit and a launch of *)
(* the same version leave the debt in bundle-state.json.  It may be lost   *)
(* to the record of another install; to who could not read the state or    *)
(* the config; and to a reconcile and an install, or two reconciles, that  *)
(* write or stop beside each other.  Nothing else may lose it.             *)
Misled == stale \cap AtWork # {}

PlaceOf(p) ==
  CASE p \in up -> "running"
    [] p \notin up \cup halted -> "stopped"
    [] p \in halted \cap disk.pending -> "owed"
    [] p \in halted \ disk.pending -> "lost"

Ledger ==
  INSTANCE RestartLedger WITH
    place <- [p \in Projects |-> PlaceOf(p)],
    wanted <- configured,
    recording <- upc # "none",
    misled <- Misled

RestartsOwed == Ledger!Spec

(* Who waits for the images is answered: the thread that checks or builds  *)
(* them makes them ready or failed, whatever becomes of it.                *)
WaitersAnswered == []<>(ready \in {"Ready", "Failed"})

(* "deferred project must stay pending" (reconcile.rs): a halted project   *)
(* that is pending stays so, by whoever knows the list.                    *)
DeferredStaysPending ==
  [][~Misled => halted \cap halted' \cap disk.pending \subseteq disk'.pending]_vars
=============================================================================
