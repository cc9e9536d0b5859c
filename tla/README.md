# Speedwave: a TLA+ verification project

Speedwave is a desktop application (Tauri, Rust and Angular) that runs Claude Code
in containers, inside a Lima VM on macOS and a WSL distribution on Windows. What
makes it hard to get right is not an algorithm but the
number of things that live side by side: web-view commands on threads of their
own, Claude Code processes in containers and the readers of their output, CLI
processes that share the same VM, release and teardown threads, and an exit that
cuts through all of them. This project models those parts in TLA+, checks them
with TLC on small instances, and proves the invariants that matter for every size
with TLAPS.

Paths below are relative to `src/`; `tauri/` stands for `desktop/src-tauri/src/`
and `rt/` for `crates/speedwave-runtime/src/`.

## 1. Inventory

| Component | State it keeps | Operations | Hard behaviour | Correct when | Module |
|---|---|---|---|---|---|
| Chat tabs (`tauri/chat_registry.rs`, `chat_session_cmd.rs`, `retry_cmd.rs`, `rt/session/instance.rs`) | tab → entry; per entry a project, a transcript slot, a start serializer, a session; unconfirmed instances | start, resume, retry, close, clear; reap; Drop | commands on one tab overlap; reaps fail; readers outlive their session | one process per tab entry, none forgotten, "kept" means kept, every command ends | `ChatTabs` |
| Control channel (`tauri/control_channel.rs`) | waiters by request id, closed flag | register, write, wait, route, close | late, lost and reordered answers; timeouts; a close in between | a caller gets its own answer or an error, and is released by a close | `ControlChannel`, `RequestReply` |
| Chat turns (`tauri/chat.rs`, `queue_cmd.rs`, `rt/session/queue.rs`, `desktop/src/src/app/services/chat-session-store.ts`) | window: streaming, queued message, question; backend: slot, awaited flag, hold, pending requests | send, queue, cancel, stop, answer; read, drain | window and session learn of each other late | no message twice, no question lost, streaming ends, the queue runs | `ChatTurn` |
| Keep awake (`tauri/keep_awake.rs`) | count, generation, switch, OS assertion | hold, release, delayed release, switch, exit | release threads of any age | neither leaked nor cut short | `KeepAwake` |
| Compose lock (`rt/runtime/locked.rs`, `compose_locks.rs`) | in-process mutex and file lock per project, thread-local held set, migrated set | transaction, up, recreate, service, down, network removal | Desktop, CLI and exit on one project; nesting; a process that dies | exclusion, no deadlock, a downed stack stays down, sound migration | `ComposeLock` |
| Engine VM, macOS (`rt/runtime/lima.rs`, `rt/provision.rs`, `tauri/reconcile.rs`, `crates/speedwave-cli/src/main.rs`) | VM status, start gate, unfinished-start flag, teardown flag, CLI session lock | ensure ready, provision, exit cleanup, CLI start | `limactl` leaves boots its status does not show | the VM stays down after the exit; a CLI session is spared; the exit ends | `EngineVm` |
| Project lifecycle (`tauri/containers_cmd.rs`, `project_cmd.rs`, `rt/project.rs`) | active project and projects in the config, teardown intents on disk, teardown threads and their handles | switch and its rollback, add, remove; teardown, convergence at a launch, drain at the exit | a switch back to a project under teardown; crash, exit or failure between an intent and its teardown | a switch that succeeded is not undone, a recorded teardown is done or on disk, no wait is for ever | `ProjectLifecycle` |
| Bundle reconcile (`tauri/reconcile.rs`, `update_commands.rs`, `rt/bundle.rs`, `rt/build.rs`) | phase, pending projects, last error, on disk; readiness of the images | check, rebuild, restore, retry; install of an update and its way back | crash, panic, exit or failure at any phase; the user acts meanwhile | what an update stops is owed a restart until it runs; who waits for the images is answered | `BundleReconcile`, `RestartLedger` |
| Model switching (`tauri/chat.rs`, `chat_session_cmd.rs`) | first-turn gate, settled model, typed `/model`, requests | soft impose at the start or the first init, pick, typed `/model`, drained message, restart | answers in another order than the requests; waits that outlive a session | no turn before its session's switch is decided, the user's choice stands, a reply is that of its command | `ModelSwitch` |
| OAuth worker, host MCP processes, transcription, bridges | files, child processes, ports | refresh; spawn, probe, clean up; record, import | crash and timeout of children | – | not modelled, see 7 |
| Hub, LLM proxy, PII engine, configuration, plugins, updater download, setup, notifications, natives | per request, or data in files | – | – | – | not modelled, see 7 |

How they interact:

- A window command (Tauri `invoke`) runs on a thread of its own and calls into
  the tab registry; a start takes a compose transaction for its sign-in check,
  may recreate containers, and spawns Claude Code in the project's container.
- A session owns a stdout reader thread, a control channel and a handle on the
  keep-awake counter. The reader emits `chat_stream` events to the window, routes
  control responses and drains the message queue.
- Desktop threads and CLI processes share a project's stack through
  `compose.lock`, and the VM through `limactl`; the CLI tells the Desktop of its
  session with a lock file only.
- The exit sets the teardown flag, drops the keep-awake assertion, and stops the
  VM (macOS) or the stacks (Windows) while the other threads go on.

What is hard to test in each of these is listed, line by line, under `hazards` in
`PROJECT.json`, with the properties that would catch it.

## 2. Modules

Each `MCx` module gives `x` its small constants, each `xProofs` holds theorems
(`ChatTurnProofs` those of `KeepAwake` too, and what the two give together).
Actions carry the name of the function or step they translate; `map` in
`PROJECT.json` names the lines. Definitions marked "a mutant of ..." next to an
action are a plausible bug each and are not part of `Next`; they show that a
property would notice.

**ChatTabs.** A `Request` is one window command; it also names the `TabEntry` it
creates and the instance it spawns, so no fresh-name variable is needed.
`registry`, `project`, `slot`, `serial`, `session` are the registry and the
fields of an entry; `refs` are the `Arc`s a command holds, which decide when Rust
drops a session and so stops it (`Finish`). `start_session_inner` is cut where it
releases the processor to others: `Prepare`, `StopReplaced`, `TakeSerial`,
`CheckFree`, `Preflight`, `Authenticate`, `Claim`, `Swap`, `StopOld`, `Reap`,
`Spawn`. Between `Reap` and `Spawn` the session mutex is held (`SessionFree`).
`Stop` is `ChatSession::stop`, with a reap that may fail (`unconfirmed`) and a
reader that may be detached (`reading`). Outside: an instance exits at any time, a
reader records the session id it reads. A Claude Code instance is gone once its
container is recreated.

**ControlChannel** and **RequestReply.** One caller per request id. `Route`
removes the sender from the map and `Deliver` sends to it; in between a caller can
time out. `RequestReply` is what a caller may rely on: a request ends once, and
ends with an answer only if the peer gave that answer to that request. The channel
implements it under the mapping `state <- abstractState`, `answer <- reply`.

**KeepAwake.** The whole `Keeper`: `Hold`, `Release`, `ReleaseIfIdle(g)` for a
release thread that sleeps since generation `g`, the switch in the two steps the
command takes (`Store`, `Apply`), `Renew`, `Exit`. Its names begin with `Awake` where
`ChatTurn` has the same one, so that one module can extend both.

**ComposeLock.** A thread runs a `plan`, the operations of one transaction;
`with_acquired` is `TakeMutex`, `TakeFile`, `Leave`. `held` is the thread-local
set that lets operations nest. A start is `CheckTeardown`, `Isolate`, then `Start`
or `Migrate` and `Unlink`. A CLI process is a thread of a process of its own and
may die anywhere (`Die`). Only the Desktop has the teardown flag.

**ChatTurn.** Three parties and the two channels between them: the window's store
(`streaming`, `shown`, `asking`, fed by `events`), the session with its reader
(`slot`, `awaited`, `hold`, `pending`, `reader`, fed by `output`), and Claude Code
(`turn`, fed by `input`). A send is `Send`, `Write`, `Written`, since the hold, the
flush and the note that a message was written are separate critical sections. A
drain is `DrainTake`, `DrainWrite`, `Drained`. `StopSession` is
`ChatSession::stop` together with the store's reset.

**EngineVm.** `Listed` is what `limactl list` may say of each state of the VM: a
booting VM may read as stopped. A Desktop thread goes through
`ensure_ready` or the setup's provisioning to `TakeGate`, `Start` and the end of
the command: `StartEnds`, `StartFails`, or `StartCut` when the teardown began. The
exit is `Begin`, `Probe`, `Reprobe`, `StopTakesGate`, `Decide`, `ForceStop`.
`foreign` (a CLI process ran a start) and `elder` (sessions a probe could see) are
history variables.

**BundleReconcile** and **RestartLedger.** `disk` is `bundle-state.json`; a reconcile
thread and the install each work on a copy `st` of their own, and `Saves` and `Writes`
put it back. Of a state's id only `applied` is kept, whether it is that of the installed app; the
phases between the first and the last are one, and the last error is left out.
A thread goes through `reconcile_bundle_update_inner` step by step: `Load`, then for
an unchanged bundle `EngineNotReady`, `ImagesMissing` or `ImagesPresent`, else
`Prepare`, `EngineReady`, `RecordRunning`, `Stop`, `Synced`, `Built`,
`RecordRestores`, `Restore`, `Finish`. Any of them may fail (`Reports`,
`RestoreFails`) or panic (`Aborts`); `Settles` and `Drop` are the end of the thread
and its `ImageReadinessGuard`. `Record` to `UpdaterPanics` are
`install_update_and_reconcile`, which may run beside a reconcile. It has two ways back
(`TakeBack`): after a failed stop it writes its copy (`undoStop`), after a failed install it reads
the file again (`undoInstall`); either save may fail unseen (`Undone`), and a panic leaves the file
as it is.

A file that cannot be read counts as absent: the state (`Readings`), and the config of a batch of
restores (`Batch`), which is read once (`cfg`), while each directory is looked up when its turn
comes. `SavesError` may leave the disk as it is, in a teardown or when the save fails.
Two history variables: `halted` is what an update stopped and nobody started since, and `stale` is
who works from a list or a config that is not the true one, because it could not read it or because
another wrote, stopped or wanted something beside it (`Misled`). `RestartLedger` is the promise: each
project is running, stopped by its user, owed a restart, or lost, and only the record
of another install, or an actor that is misled, may lose one. The reconcile and the install
implement it under `place <- PlaceOf`.

**ProjectLifecycle.** `Actors` are the one command that runs
(`PROJECT_TRANSITION_LOCK`) and the reconcile of the launch. A switch is `Switch`,
`ImagesReady`, `EngineReady`, `Wait`, `Waited`, `Started`, `Succeeds`, with
`StartFails`, `TaskDies`, `Undo` and `Rollback` when it does not succeed; both actors
begin a teardown by `Record`, `Spawn`, `Insert`, `Replaced`
(`spawn_background_teardown`), and the thread is `TearsDown`, `Clears`. The config,
the intents and the containers outlive a `Crash` or `Quit`, the threads do not. Three
history variables: `settled`, `debt`, and `crossed` (see 6).

**ModelSwitch.** One tab whose sessions are numbered. `Claude Code` is a queue of
inputs, the input it works on, the `set_model` requests it has not answered, and a queue
of output lines; a `Report` thread opens a session's `gate`; a window command
waits for the gate of the session it saw (`mine`), with one deadline (`begun`). `by`
says who chose the model that runs. `excused`, `overlapped`, `undone` and `misread`
are history variables.

External to the repository, modelled from how the code uses them: Claude Code,
`limactl`, the operating system's power assertion, and what a user, a CLI or a file
system may do at any time.

**How they compose.** `ProjectLifecycle` and `BundleReconcile` take a compose
operation as one step, which `ComposeLock` justifies (`TransactionsExclude`).
`ModelSwitch` takes the way of an answer to its waiter as reliable but unordered,
which `ControlChannel` justifies (`AnswerIsOwn`). `ChatTurn` has one session, as
`ChatTabs` allows (`OneProcessPerEntry`).

## 3. Runs

| Run | Instance | Shows |
|---|---|---|
| `tabs_safety` | 3 commands, 2 tabs, 2 projects, one new transcript, cap 2 | `TypeOK`, `OneProcessPerEntry`, `ProcessAccounted` |
| `tabs_liveness` | 2 commands, 2 tabs, a saved and a new transcript, cap 1 | `KeptMeansKept`, `EveryRequestEnds`, `OrphanStopped` |
| `tabs_exclusive` | 3 commands, 2 tabs, 2 saved transcripts | violation of `OneTabPerTranscript` |
| `control` | 3 callers | `TypeOK`, `NoStaleWaiter`, `AnswerIsOwn`, `Implements`, `EveryRequestEnds`, `CloseReleasesAll` |
| `awake` | 3 workers, 4 holds | `AwakeTypeOK`, `NeverLeaked`, `DroppedOnlyIdle`, `SleepsAgain` |
| `compose` | a Desktop thread, the exit and a CLI, 2 transactions each, 1 project | `TypeOK`, `TransactionsExclude`, `DownedStaysDown`, `SettledIsMigrated`, `TransactionsEnd` |
| `turn` | 2 messages, 2 questions, failures and errors | `TypeOK`, `QuestionAnswerable`, `StoppedLetsSleep`, `OnePlace`, `StreamingEnds`, `QueuedRuns` |
| `engine_vm` | 2 Desktop threads with 2 calls each, the exit, 2 CLIs | `TypeOK`, `StaysDown`, `SessionSpared`, `ExitEnds` |
| `bundle` | 2 projects (one of which may be removed, lose its provider or its directory), 1 reconcile thread and an install beside it or not, any number of launches and updates | `TypeOK`, `RestartsOwed` (the refinement of `RestartLedger`), `WaitersAnswered` |
| `bundle_deferred` | the same | violation of `DeferredStaysPending` |
| `lifecycle` | 2 projects, 3 commands, 3 threads, 2 launches | `TypeOK`, `SwitchHolds`, `DebtOnDisk`, `WaitersGetThrough` |
| `model_switch` | 3 messages, `/model` commands or picks, 2 sessions | `TypeOK`, `ModelAsChosen` |

**Why the bounds are enough.** *Tabs:* every clash is between at most three
commands (one that replaced or removed an entry, one that resolved it earlier, one
that starts anew) on at most two entries of a tab or two tabs of a transcript;
the proofs below remove the bound for the safety properties. *Control:* a third
caller makes the order of two answers visible to an outsider. *Awake:* four holds
let release threads of three earlier generations sleep while new work runs.
*Compose:* each of the three kinds of thread can come before and after each other
one; operations of different projects share nothing but the file names. *Turn:*
the slot is replaced and drained with two messages; a second question follows an
answered or interrupted one. *VM:* a second call of a thread starts after the first
one's boot was left behind. *Bundle:* one project is always wanted and there, the other one
may be deferred or dropped; launches, updates, retries and crashes are not bounded, and more
reconcile threads are left to the proofs. *Lifecycle:* away from a project, back to it
and away again takes three commands and two projects, with a thread for each teardown
and one for the reconcile; a second launch finds what the first left. *Model:* a pick,
a `/model` and a message meet, and a restart falls between any two of them.

**Deadlock** is not checked in any run: every model is of a program that may be
idle for ever (all requests ended, nobody uses the chat, the app has exited).
The liveness properties say that what began ends.

**Symmetry** is used in safety runs only (tabs, projects and requests; commands of
the window).

## 4. Fairness

- `ChatTabs`: strong fairness of each command's steps. A command is a thread;
  every wait in it has a timeout (reap deadline, the 5 s kill wait, the 200 ms
  reader grace). Strong, because a `std::sync::Mutex` may be passed to others in
  between, but no holder keeps one for ever. Neither a reader nor a process has to end.
- `ControlChannel`: weak fairness of the callers' steps and of a delivery that has
  begun. `EveryRequestEnds` adds that timers fire, `CloseReleasesAll` does without.
- `KeepAwake`: a sleeping release thread wakes up.
- `ComposeLock`: weak fairness of a thread inside or waiting. With two transactions
  per thread nobody can starve another, so no fair mutex is assumed.
- `ChatTurn`: the window's event loop, the commands' threads and the reader go on,
  Claude Code takes its input and ends a turn it works on. The user need not act.
- `EngineVm`: Desktop threads work, and strong fairness of the exit cleanup, for
  the gate's mutex. No boot has to end and no start has to time out, so `ExitEnds`
  shows that the exit does not wait for either.
- `BundleReconcile`: a reconcile thread that can go on does; every call it makes
  (engine, build, restore) ends or fails. The install and the user need not act.
- `ProjectLifecycle`: the command's task, the reconcile, each teardown thread (a
  `compose_down` ends, well or not) and the exit cleanup go on. Nobody has to switch,
  and the app may crash or never exit.
- `ModelSwitch` states no fairness: its properties are safety properties.

## 5. What is proved

All theorems are for every value of the constants, under the named assumption of
each module (distinct names for "none", natural bounds; the tab module also
a cap of at least one, the awake module a finite set of workers).

| Theorem | Statement | Inductive invariant |
|---|---|---|
| `ChatTabsProofs!TypeCorrect`, `NeverTwoProcesses`, `NoProcessForgotten` | `[]TypeOK`, `[]OneProcessPerEntry`, `[]ProcessAccounted` | `TypeOK`, `AllSound`, `Live`, `OneProcessPerEntry`, `Referred` |
| `ChatTabsProofs!KeptIsKept` | `[]KeptMeansKept` | the above, and `KeptInv`: `Kept`, `Whole`, `Out`, `Fresh`, `Distinct` |
| `ControlChannelProofs!TypeCorrect`, `WaitersSound`, `AnswersSound`, `ChannelImplements` | `[]TypeOK`, `[]NoStaleWaiter`, `[]AnswerIsOwn`, and the refinement of `RequestReply` | with `AnsweredOnly`, `OutcomeWhenEnded` |
| `ChatTabsProofs!ClaimsExclude` | `[]OneTabPerTranscript`, of the behaviours without a `Trespass` | the above, and `ClaimInv`: `Tied`, `Claimed`, `Unsent`, `Owned`, `Known`, `Attached`, `Unique` |
| `ChatTurnProofs!AwakeTypeCorrect`, `AssertionNeverLeaked`, `DropsAreIdle` | `[]AwakeTypeOK`, `[]NeverLeaked`, `DroppedOnlyIdle` of `KeepAwake` | `AwakeTypeOK`, `NeverLeaked` |
| `ChatTurnProofs!StoppedChatsLetSleep` | a stopped session whose reader has ended holds nothing, and the assertion it leaves is dropped or has a release to come | those of the two modules |
| `ComposeLockProofs!TypeCorrect`, `TransactionsAlone`, `ExitIsFinal`, `MigrationIsSound` | `[]TypeOK`, `[]TransactionsExclude`, `[]DownedStaysDown`, `[]SettledIsMigrated` | with `Placed`, `Gated`, `Migrated` |
| `EngineVmProofs!TypeCorrect`, `VmStaysDown`, `SessionsAreSpared` | `[]TypeOK`, `[]StaysDown`, `SessionSpared` | with `Torn`, `Watched`, `Over`, `Probed` |
| `BundleReconcileProofs!TypeCorrect`, `RefinesLedger` | `[]TypeOK`, and the refinement of `RestartLedger`, for any number of reconcile threads and an install beside them | `TypeOK` by its parts (`StateTypes` to `BatchTypes`, `Lives`, `Listed`, `Over`), and `Informed` of each actor at work that is not stale |
| `ChatTurnProofs!TypeCorrect`, `QuestionsStayAnswerable`, `StoppedSessionsSleep`, `MessagesInOnePlace` | `[]TypeOK`, `[]QuestionAnswerable`, `[]StoppedLetsSleep`, `[]OnePlace` | `TypeOK`, `SentWhenCalled`, `Numbered`, `AskKnown`, `NoneWritten`, `AsleepAtEnd`, `Apart` for each message |
| `ProjectLifecycleProofs!TypeCorrect`, `SwitchesHold`, `DebtsOnDisk` | `[]TypeOK`, `[]SwitchHolds`, `[]DebtOnDisk` | `TypeOK`, `Control` (`Underway`, `Targets`, `Lives`, `ImagesFirst`), `Held`, `Free`, `Clean`, `Succeeded`, `Paid`, with the two properties |
| `BundleReconcileProofs!DeferredUnlessRecorded` | what `DeferredStaysPending` says, of every step but the record of an install | the refinement's |
| `BundleReconcileProofs!MisledOnlyBeside` | nobody is misled where one actor is at work at a time, reads what is there, and nothing left to restore becomes wanted again | `TypeOK`, `~Misled` |
| `BundleReconcileProofs!WaitersAreServed` | `[]Served`, for any number of threads | `Served` |
| `ChatTurnProofs!StreamingIsOwed` | `[]StreamingOwed` | `Owed`: `StreamingOwed`, `EventsFollowed`, `TextFollowed` |
| `ChatTabsProofs!NobodyWaitsInACircle` | `[]NoCircle` | the above, and `Holders` |
| `ComposeLockProofs!NobodyWaitsInACircle` | `[]NoCircle` | the above, and `Holding` |
| `EngineVmProofs!NobodyWaitsInACircle` | `[]NoCircle` | the above, and `Ensures` |
| `ProjectLifecycleProofs!NobodyWaitsInVain` | `[]WaitsForTheRunning` | `TypeOK`, `Targets`, `Begun`, `Checks` |
| `ModelSwitchProofs!TypeCorrect`, `ModelIsChosen` | `[]TypeOK`, `[]ModelAsChosen` | `TypeOK`, `Gated` (`Dormant`, `GateHolds`, `ImposeGated`, `PicksGated`), `Chose` (`PickChose`, `ModelChose`), `ReplyComes`, `PickStands`, `ReplyIsOfCommand` |

*Chat tabs.* `OneProcessPerEntry` alone is not inductive: it survives a `Spawn`
only because nothing of the entry runs at that moment. `Sound(r)` says where a
command is and what that gives it: past `TakeSerial` it holds the entry's serializer
and a reference; at `StopOld`, `Reap` and `Spawn` the entry's session is empty; at
`Spawn` no instance of the entry runs. The last part is the argument of the code:
what runs of an entry is either in its session, in the hands of the command that
swapped it out, or unconfirmed (`Live`), and the serializer excludes the first two
while a complete reap excludes the third. `Referred` says that a session in an
entry nobody refers to does not exist, which is what `Drop` gives. Most actions
neither start a process nor move a session; `CalmStep` proves `Live` and
`OneProcessPerEntry` for all of them at once. `NoProcessForgotten` follows from
`Live` and `Referred`.

*Compose lock.* Exclusion is `Placed` (a thread inside is the file lock's holder).
`Gated` says that a start past its check either belongs to a process that tears
nothing down or began before the exit's down of that project, which the lock makes
wait; `Migrated` that a settled project is off the old network, and that a thread
at `unlink` has already moved its containers.

*Engine VM.* `Watched`: a boot nobody waits for is known as unfinished, unless a CLI
began it or the exit already forces the stop; `Over`: after the exit stopped the VM no thread
is in a start. Together they make `StaysDown` inductive.

*Refinements.* `StepPromise` maps each step of the channel to a step of
`RequestReply` or a stutter; `OutcomeWhenEnded` ties a caller's place to the
outcome the mapping reads. For the bundle, `Explained(p)` says what may become of
one project in one step while nobody is misled. `Informed(a)` makes every step of `a` explain itself:
its copy of the pending list is the one on disk, and while it restores, each halted project
of the list is still to come or retained, and none that is wanted is turned away, so that a project
leaves the list only when it runs or nobody wants it. Every actor at work is informed or `stale`:
a step of one leaves what the others know as it is (`Frame`), or marks them (`Tells`). Of a
misled actor only this holds, that it makes no debt of what it has not stopped
(`OnlyRunningHalted`). `MisledOnlyBeside` bounds the excuse.

*Kept sessions.* A command that may still tell the window "kept" holds the entry's
serializer and a reference to it, and the session is the one it saw unless the entry
has left the registry (`Kept`); it has not recreated the containers (`Whole`). Nobody
else takes that session out: that needs the serializer, or an entry that was replaced
or removed (`Out`), and no two tabs share an entry (`Distinct`, `Fresh`).

*Claims.* A tab claims the transcript its session is attached to, but between the claim of
the next start and its swap (`Attached`), and no two tabs claim one transcript (`Unique`).
From its claim to its spawn a start's entry goes on claiming (`Claimed`), as long as it is
its tab's (`Tied`). The code breaks this, in four ways, and `Trespass` names their steps:
what ADR-090 promises holds of every behaviour that takes none of them, so there is no
fifth way. Each of the four has a counterexample in TLC (see 6), so none can be left out.

*Chat turns.* `Apart` says, place by place, that a message is in one place only:
unsent, with the command that sends or queues it, in the slot, with the drain, or
in Claude Code's input. A command that writes has a message (`SentWhenCalled`), and
each move empties one place and fills another. A question Claude Code waits on is
registered, or its line is still in the output (`AskKnown`, `Numbered`). `NoneWritten` and `AsleepAtEnd`: no write of a command
is under way in a stopped session, and once its reader is at the end of the stream
nothing is left that takes the hold again.

*Project lifecycle.* A thread that tears down is in the registry, or its spawner is
about to put it there, or somebody waits for it (`Tracked`, `Held`). A switch takes
the handle out (`Free`) and joins the thread, and nobody spawns another for its
project meanwhile, because the reconcile is over by then: the images become ready last
(`ImagesFirst`). So no teardown of the project is left when it starts (`Clean`), and that is
`SwitchHolds`. `Paid`: a thread clears an intent only after the teardown it stands for.

*Model switching.* While a session's gate is closed, no input of a user has reached Claude
Code and nobody has chosen a model for it, unless a wait ran out (`excused`); an impose that
nobody answered keeps the gate closed (`GateHolds`, `ImposeGated`). So a pick or a `/model`
comes after the impose, and what runs is what the last of them chose (`ModelChose`,
`PickStands`). The reply to a typed `/model` is found because the first text of Claude Code's own
that the reader meets after it is the reply, if nothing else was under way (`ReplyComes`,
`ReplyIsOfCommand`).

*Waits.* Liveness itself is out of the prover's reach (below), but most of what can go wrong
with it is a state: somebody waits for nobody, or in a circle. These states are excluded for every
value of the constants. In `ChatTabs`, `ComposeLock` and `EngineVm`, `WaitsFor` names who waits
for whom: for a start serializer or a session mutex, for the mutex of a process or the lock file
of a project, for the lock of `ensure_ready` or the start gate. `NoCircle` says that nobody waits
for a command or a thread that has returned, and that a chain of waits has at most two links; its
last one has what it needs. It follows from where the holder of each lock can be
(`Holders`, `Holding`, `Ensures`): with the second lock in hand nobody waits for the first. The exit
cleanup of the VM waits only for a start that looks at the teardown next.
In `ProjectLifecycle` a thread that is joined, drained or kept as a handle was started in this run of
the app (`Begun`) and no lock that a joiner keeps is in its way; a switch waits for images
only while a reconcile checks them (`Checks`), and so do the waiters of `BundleReconcile` (`Served`).

*What the window shows.* `StreamingOwed`: a turn is shown as running only while the message that
began it is yet to be written, or Claude Code, an unread line or an event on its way owes its end
(or Claude Code is gone, as in `StreamingEnds`). A
late text or drain shows a turn as running again, so the order counts: such an event is followed by an
end that comes after it (`EventsFollowed`), because the line it was read from is (`TextFollowed`).

*Deferred projects.* While nobody is misled, a project that is halted and pending stays pending
through every reconcile, failure, crash and exit, and through both ways back of an install: who
knows the list has each such project still to come or keeps it (`Informed`). The record of an install is
the one step that loses it (`DeferredUnlessRecorded`), and `bundle_deferred` shows it.

*Composition.* `StoppedChatsLetSleep` takes a behaviour of `ChatTurn` and one of `KeepAwake` in which
nobody but the chat works, and ties the hold of the one to the count of the other.

**Only model-checked:** the liveness properties (`EveryRequestEnds`, `OrphanStopped`,
`CloseReleasesAll`, `SleepsAgain`, `TransactionsEnd`, `StreamingEnds`, `QueuedRuns`,
`ExitEnds`, `WaitersAnswered`, `WaitersGetThrough`), which need fairness and so
`ENABLED`, out of the prover's reach; of `EveryRequestEnds`, `TransactionsEnd`, `ExitEnds`,
`WaitersAnswered`, `WaitersGetThrough` and `StreamingEnds` the part that needs no fairness is proved (waits,
and what the window shows). `OneTabPerTranscript` and `DeferredStaysPending` are refuted
of the code as it is.

## 6. Where the code and its documents disagree

Two have a run whose counterexample shows them, and an entry under `findings`.

- ADR-090 (line 25): two processes never hold a live claim on one transcript. A
  detached reader overwrites the slot of the session that followed it, and another
  tab then passes the claim (`tabs_exclusive`). With those steps excluded TLC finds three more
  ways, with three or four commands: the old session's reader writes between the claim and the
  swap of the next start; a start whose entry was closed and opened anew claims in the new entry,
  over that one's claim; and a retry that waited for a start goes back to the
  conversation that the start gave up. `ClaimsExclude` proves that these are all.
- `reconcile.rs` (line 1980): a deferred project must stay pending. An install
  replaces the pending list by the projects that run (`update_commands.rs`, line 47),
  and a project that waits for its volume, or that an earlier install stopped before its command
  died, is not among them (`bundle_deferred`). The line is the message of a unit test's assertion, about a
  batch of the reconcile; the reconcile keeps to it.

The others were met while modelling. The models have the behaviour of the code, and the
properties say where they except it.

- `keep_awake.rs` (line 60): the exit takes no new assertion. A switch that was
  stored before the exit and applied after it does.
- ADR-045: a turn's completion drains the slot. A turn that ended with an API
  error does not.
- ADR-045: what runs next is always visible. The event of one drain clears the
  message queued after it.
- ADR-107: a turn holds the computer awake to its end. The result of the turn that
  was stopped releases the hold of the next one.
- ADR-030 (line 13): a rebuild resumes from where it stopped. `prepare_rebuild` begins with
  the first phase again; what it has stopped stays owed (`RestartsOwed`), and that
  is what the models rely on.
- `ImageReadinessGuard`: the phase is stored idle before the guard is dropped. A
  retry may enter in between, and the guard of the first thread then sets the readiness of
  the second one to failed. The `bundle` run has one thread.
- ADR-030 (lines 19-20) and ADR-072 (line 91): the projects that ran before an update are recorded
  and restored, and the list is not cleared. There are three ways to lose it for good. A config that cannot be read
  makes a restore drop every pending project (`reconcile.rs`, line 371); a state file that cannot
  be read is replaced (`bundle.rs`, line 439); and an install does not ask whether a reconcile runs,
  so that one writes its copy over the list of the other. `RestartsOwed` excepts them (`Misled`):
  without any one of the exceptions TLC finds it violated.
- Teardowns of one project may cross: a switch fails back to a project that is being
  torn down, the next one leaves it again, and the first thread clears the intent of the
  second. `DebtOnDisk` excepts this (`crossed`).
- After a rebuild the images are ready before the teardowns of a crash converge, and a
  config that cannot be read counts as empty (`reconcile.rs`, line 686): a project that is active
  may be torn down. `ProjectLifecycle` has the launch with an unchanged bundle, where
  the order is the other one.
- ADR-088: the reply to a typed `/model` is the command's own. If another input was under way
  when it was written, the synthetic error of that input is taken for it
  (`overlapped`). And a pick goes out after the new session's own switch. A
  pick that has outwaited a restart, or a switch that nobody answered in time, may be
  overtaken (`excused`).

## 7. Not modelled

Left out of the modelled components, and what the models assume:

- `ChatTurn`: messages before the session id is known (the deferred queue), the
  store's restart of a dead session and the slot that a resumed session finds, more than one
  question slot, more than one `send_message` at once.
- `EngineVm`: the exit watchdog and a second interrupt, factory reset, a broken VM,
  the per-project downs of Windows between the probes. A CLI session whose lock
  could not be taken is in the model, and nothing spares it.
- `ComposeLock`: read-only operations and the rendering of compose files.
- `ProjectLifecycle`: only the launch with an unchanged bundle converges teardowns. A
  command that meets another one is refused, and so no action. The task of a command
  may panic at the images, the engine and the start. The save of a rollback may fail;
  the write of an intent does not, and a debt begins with its record, so a crash
  between the switch and the record is not one. The exit takes the handles, which is why
  `SwitchHolds` says nothing of an app that exits. The files of a project and its integrations are
  data.
- `BundleReconcile`: more than one reconcile thread in the runs; a second install beside the first,
  which the window does not start (`installInFlight`). `Record` is one step, since a failure in it changes
  nothing. What an image build or a resource sync does beyond succeeding or failing, and the last error
  that the state keeps for display.
- `ModelSwitch`: the wait of `start_then_await_first_turn` for its own session, a
  process that dies inside a session, failed writes to stdin, a reader that goes on
  during the grace of its session; effort and pins, which are settings in a file.

Not modelled as components:

- *Configuration and plugins, compose rendering, PII policy and engine, LLM proxy:*
  functions of data (merging, rendering, scanning, forwarding) with no interleaving of their
  own beyond one file lock. A finite model would have to reduce their data to what makes them
  trivial; the unit tests beside them enumerate more.
- *Hub, bridges, notifications, relay, paste, native helpers, the Windows runtime, the
  updater's download, the setup wizard:* requests served one by one, or sequences of
  external calls that one user drives. The state they keep is that of the operating system.
- *OAuth worker, host MCP processes, transcription and recording:* state machines
  with crashes and timeouts of their own (a refresh that loses its response, a worker that prints its port
  too late, an import that is cut). They share no state with the modelled components
  but the keep-awake counter, and are where a further model would begin: the spawn of a host
  MCP process and its stale lock first, then the token refresh, then the recording.
