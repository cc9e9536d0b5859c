---------------------------- MODULE ComposeLock ----------------------------
(***************************************************************************)
(* Compose transactions on the projects' stacks (runtime/locked.rs,        *)
(* runtime/compose_locks.rs): a per-process mutex and a file lock shared   *)
(* by the Desktop's threads and the CLI processes, operations that nest in *)
(* a transaction, the migration off the networks of an earlier release,    *)
(* and the exit cleanup that brings the stacks down.                       *)
(***************************************************************************)
EXTENDS Sequences, Naturals

CONSTANTS
  Project,
  Thread,         \* threads that run transactions, the CLIs' among them
  DesktopThread,  \* those of the Desktop; every other is a CLI process
  Exiter,         \* the Desktop's exit cleanup thread
  Desktop,        \* the Desktop process
  None,           \* no lock holder, no project, no stack
  Earlier,        \* a stack left up by an earlier release or run
  MaxOps          \* bound: transactions a thread runs

ASSUME ComposeLockAssumption ==
  /\ Exiter \in DesktopThread /\ DesktopThread \subseteq Thread
  /\ {Desktop, None, Earlier} \cap Thread = {}
  /\ None \notin Project /\ Desktop # None /\ Desktop # Earlier
  /\ MaxOps \in Nat

VARIABLES
  pc,        \* a thread: outside, waiting for a lock, inside, or in a start
  target,    \* the project of its transaction
  plan,      \* the operations its transaction still has to run
  ops,       \* transactions it has run
  file,      \* who holds a project's compose.lock
  held,      \* HELD_LOCKS of a thread
  upBy,      \* the process that started a project's stack, None when down
  legacy,    \* projects whose compose-created network still exists
  attached,  \* projects with a container on that network
  settled,   \* the processes and projects known to be migrated
  tearing,   \* ENGINE_TEARDOWN_STARTED of the Desktop
  downed     \* projects the exit cleanup has brought down

vars == <<pc, target, plan, ops, file, held, upBy, legacy, attached, settled, tearing, downed>>
work == <<upBy, legacy, attached, settled, tearing, downed>>

Process == {Desktop} \cup (Thread \ DesktopThread)
ProcessOf(t) == IF t \in DesktopThread THEN Desktop ELSE t

Starts == {"up", "recreate", "service"}
Operation == Starts \cup {"down", "unnet"}
Plans == {<<o>> : o \in Operation} \cup {<<"down", "recreate">>}

Locked == {"in", "checked", "start", "migrate", "unlink"}
Inside(t, p) == pc[t] \in Locked /\ target[t] = p

TypeOK ==
  /\ pc \in [Thread -> Locked \cup {"out", "mutex", "file"}]
  /\ target \in [Thread -> Project \cup {None}]
  /\ plan \in [Thread -> Seq(Operation)]
  /\ ops \in [Thread -> 0..MaxOps]
  /\ file \in [Project -> Thread \cup {None}]
  /\ held \in [Thread -> SUBSET Project]
  /\ upBy \in [Project -> Process \cup {None, Earlier}]
  /\ legacy \in SUBSET Project
  /\ attached \in SUBSET Project
  /\ settled \in SUBSET (Process \X Project)
  /\ tearing \in BOOLEAN
  /\ downed \in SUBSET Project

Init ==
  /\ pc = [t \in Thread |-> "out"]
  /\ target = [t \in Thread |-> None]
  /\ plan = [t \in Thread |-> <<>>]
  /\ ops = [t \in Thread |-> 0]
  /\ file = [p \in Project |-> None]
  /\ held = [t \in Thread |-> {}]
  /\ upBy \in [Project -> {None, Earlier}]
  /\ legacy \in SUBSET Project
  /\ attached = {p \in legacy : upBy[p] = Earlier}
  /\ settled = {}
  /\ tearing = FALSE
  /\ downed = {}

-----------------------------------------------------------------------------
(* The lock.                                                               *)

(* with_acquired from outside. The exit cleanup only brings stacks down.   *)
Begin(t, p) ==
  /\ pc[t] = "out" /\ ops[t] < MaxOps
  /\ \E s \in Plans :
       /\ t = Exiter => tearing /\ s = <<"down">>
       /\ plan' = [plan EXCEPT ![t] = s]
  /\ pc' = [pc EXCEPT ![t] = "mutex"]
  /\ target' = [target EXCEPT ![t] = p]
  /\ ops' = [ops EXCEPT ![t] = @ + 1]
  /\ UNCHANGED <<file, held, work>>

(* The in-process mutex of the project, held from here to Leave.           *)
TakeMutex(t) ==
  /\ pc[t] = "mutex"
  /\ \A u \in Thread \ {t} : ProcessOf(u) = ProcessOf(t) /\ target[u] = target[t]
                               => pc[u] \in {"out", "mutex"}
  /\ pc' = [pc EXCEPT ![t] = "file"]
  /\ UNCHANGED <<target, plan, ops, file, held, work>>

(* Two mutants of TakeFile: a lock file of another path in every process,  *)
(* and a HeldGuard that is not recorded.                                   *)
TakeFileUnshared(t) ==
  /\ pc[t] = "file"
  /\ file' = [file EXCEPT ![target[t]] = t]
  /\ held' = [held EXCEPT ![t] = @ \cup {target[t]}]
  /\ pc' = [pc EXCEPT ![t] = "in"]
  /\ UNCHANGED <<target, plan, ops, work>>

TakeFileUnrecorded(t) ==
  /\ pc[t] = "file"
  /\ file[target[t]] = None
  /\ file' = [file EXCEPT ![target[t]] = t]
  /\ pc' = [pc EXCEPT ![t] = "in"]
  /\ UNCHANGED <<target, plan, ops, held, work>>

(* lock_exclusive on compose.lock, then HeldGuard::acquire.                *)
TakeFile(t) ==
  /\ pc[t] = "file"
  /\ file[target[t]] = None
  /\ file' = [file EXCEPT ![target[t]] = t]
  /\ held' = [held EXCEPT ![t] = @ \cup {target[t]}]
  /\ pc' = [pc EXCEPT ![t] = "in"]
  /\ UNCHANGED <<target, plan, ops, work>>

(* The lock file cannot be created or locked: nothing of the transaction   *)
(* runs.                                                                   *)
LockFails(t) ==
  /\ pc[t] = "file"
  /\ pc' = [pc EXCEPT ![t] = "out"]
  /\ target' = [target EXCEPT ![t] = None]
  /\ plan' = [plan EXCEPT ![t] = <<>>]
  /\ UNCHANGED <<ops, file, held, work>>

(* The guards drop in reverse.                                             *)
Leave(t) ==
  /\ pc[t] = "in" /\ plan[t] = <<>>
  /\ pc' = [pc EXCEPT ![t] = "out"]
  /\ target' = [target EXCEPT ![t] = None]
  /\ file' = [file EXCEPT ![target[t]] = None]
  /\ held' = [held EXCEPT ![t] = @ \ {target[t]}]
  /\ UNCHANGED <<plan, ops, work>>

(* The kernel drops the file lock of a CLI process that dies.              *)
Die(t) ==
  /\ t \notin DesktopThread /\ pc[t] # "out"
  /\ pc' = [pc EXCEPT ![t] = "out"]
  /\ target' = [target EXCEPT ![t] = None]
  /\ plan' = [plan EXCEPT ![t] = <<>>]
  /\ file' = [p \in Project |-> IF file[p] = t THEN None ELSE file[p]]
  /\ held' = [held EXCEPT ![t] = {}]
  /\ UNCHANGED <<ops, work>>

-----------------------------------------------------------------------------
(* The operations. Each calls with_acquired itself; with the project in    *)
(* HELD_LOCKS it runs at once, without it it would wait for its own mutex. *)

Next1(t, o) == /\ pc[t] = "in" /\ plan[t] # <<>> /\ Head(plan[t]) = o
               /\ target[t] \in held[t]

(* An operation that failed ends its transaction, as does the last one.    *)
Done(t, ok) ==
  /\ pc' = [pc EXCEPT ![t] = "in"]
  /\ plan' = [plan EXCEPT ![t] = IF ok THEN Tail(@) ELSE <<>>]

(* compose_down; the one of a transaction may fail without ending it.      *)
Down(t) ==
  /\ Next1(t, "down")
  /\ Done(t, TRUE)
  /\ \/ /\ upBy' = [upBy EXCEPT ![target[t]] = None]
        /\ attached' = attached \ {target[t]}
        /\ downed' = IF t = Exiter THEN downed \cup {target[t]} ELSE downed
     \/ UNCHANGED <<upBy, attached, downed>>
  /\ UNCHANGED <<target, ops, file, held, legacy, settled, tearing>>

(* remove_egress_less_networks: an attached container keeps the network.   *)
RemoveNetworks(t) ==
  /\ Next1(t, "unnet")
  /\ \/ /\ target[t] \notin attached
        /\ legacy' = legacy \ {target[t]}
        /\ Done(t, TRUE)
     \/ UNCHANGED legacy /\ Done(t, FALSE)
  /\ UNCHANGED <<target, ops, file, held, upBy, attached, settled, tearing, downed>>

(* A mutant of CheckTeardown: a teardown that began is not looked at.      *)
CheckNothing(t) ==
  /\ \E o \in Starts : Next1(t, o)
  /\ pc' = [pc EXCEPT ![t] = "checked"]
  /\ UNCHANGED <<target, plan, ops, file, held, work>>

(* refuse_during_engine_teardown *)
CheckTeardown(t) ==
  /\ \E o \in Starts : Next1(t, o)
  /\ IF ProcessOf(t) = Desktop /\ tearing
     THEN Done(t, FALSE)
     ELSE pc' = [pc EXCEPT ![t] = "checked"] /\ UNCHANGED plan
  /\ UNCHANGED <<target, ops, file, held, work>>

(* A mutant of Settled: known to the thread alone.                         *)
SettledThread(t) == <<t, target[t]>>

(* The entry of the process-wide set of migrated projects.                 *)
Settled(t) == <<ProcessOf(t), target[t]>>

(* isolate_egress_less_networks creates the isolated networks (which may   *)
(* fail) and probes for a compose-created one unless the project is        *)
(* settled; one service alone does not start next to it.                   *)
Isolate(t) ==
  LET found == Settled(t) \notin settled /\ target[t] \in legacy IN
  /\ pc[t] = "checked"
  /\ \/ Done(t, FALSE) /\ UNCHANGED settled
     \/ /\ settled' = IF found THEN settled ELSE settled \cup {Settled(t)}
        /\ IF found /\ Head(plan[t]) = "service"
           THEN Done(t, FALSE)
           ELSE /\ pc' = [pc EXCEPT ![t] = IF found THEN "migrate" ELSE "start"]
                /\ UNCHANGED plan
  /\ UNCHANGED <<target, ops, file, held, upBy, legacy, attached, tearing, downed>>

(* The inner compose_up, compose_up_recreate or compose_up_service; a      *)
(* failed one may have started some containers.                            *)
Start(t) ==
  LET up == upBy' = [upBy EXCEPT ![target[t]] = ProcessOf(t)]
  IN
  /\ pc[t] = "start"
  /\ \/ up /\ Done(t, TRUE)
     \/ (up \/ UNCHANGED upBy) /\ Done(t, FALSE)
  /\ attached' = IF Head(plan[t]) = "recreate" THEN attached \ {target[t]} ELSE attached
  /\ UNCHANGED <<target, ops, file, held, legacy, settled, tearing, downed>>

(* start_isolated with a legacy network: every container is recreated ...  *)
Migrate(t) ==
  LET up == upBy' = [upBy EXCEPT ![target[t]] = ProcessOf(t)]
  IN
  /\ pc[t] = "migrate"
  /\ \/ /\ up
        /\ attached' = attached \ {target[t]}
        /\ pc' = [pc EXCEPT ![t] = "unlink"]
        /\ UNCHANGED plan
     \/ (up \/ UNCHANGED upBy) /\ UNCHANGED attached /\ Done(t, FALSE)
  /\ UNCHANGED <<target, ops, file, held, legacy, settled, tearing, downed>>

(* A mutant of Unlink: settled without looking at the removal.             *)
UnlinkUnchecked(t) ==
  /\ pc[t] = "unlink"
  /\ settled' = settled \cup {Settled(t)}
  /\ \E ok \in BOOLEAN :
       /\ legacy' = IF ok THEN legacy \ {target[t]} ELSE legacy
       /\ Done(t, ok)
  /\ UNCHANGED <<target, ops, file, held, upBy, attached, tearing, downed>>

(* ... the network removed, which may fail, and only then settled.         *)
Unlink(t) ==
  /\ pc[t] = "unlink"
  /\ \/ /\ legacy' = legacy \ {target[t]}
        /\ settled' = settled \cup {Settled(t)}
        /\ Done(t, TRUE)
     \/ Done(t, FALSE) /\ UNCHANGED <<legacy, settled>>
  /\ UNCHANGED <<target, ops, file, held, upBy, attached, tearing, downed>>

(* begin_engine_teardown, by run_exit_cleanup and factory_reset.           *)
BeginTeardown ==
  /\ ~tearing
  /\ tearing' = TRUE
  /\ UNCHANGED <<pc, target, plan, ops, file, held, upBy, legacy, attached, settled, downed>>

-----------------------------------------------------------------------------
Step(t) == \/ TakeMutex(t) \/ TakeFile(t) \/ LockFails(t) \/ Leave(t)
           \/ Down(t) \/ RemoveNetworks(t)
           \/ CheckTeardown(t) \/ Isolate(t) \/ Start(t) \/ Migrate(t) \/ Unlink(t)

Next ==
  \/ \E t \in Thread : (\E p \in Project : Begin(t, p)) \/ Step(t) \/ Die(t)
  \/ BeginTeardown

Spec == Init /\ [][Next]_vars

(* A thread that can go on does: the engine's commands have timeouts.      *)
FairSpec == Spec /\ \A t \in Thread : WF_vars(Step(t))

-----------------------------------------------------------------------------
(* Properties.                                                             *)

(* Two transactions on one project never overlap, in one process or in     *)
(* two: nobody renders, stops or starts a stack in the middle of another's *)
(* transaction.                                                            *)
TransactionsExclude ==
  \A p \in Project, t, u \in Thread : Inside(t, p) /\ Inside(u, p) => t = u

(* A stack the exit cleanup brought down is not started again by the       *)
(* Desktop: a start that was waiting, or had passed its check, comes       *)
(* before the down or is refused.                                          *)
DownedStaysDown == \A p \in downed : upBy[p] # Desktop

(* A project a process takes for migrated has no network of the earlier    *)
(* release and no container on it, whoever failed, died or raced on the    *)
(* way.                                                                    *)
SettledIsMigrated ==
  \A s \in settled : s[2] \notin legacy /\ s[2] \notin attached

(* Every transaction ends: nested operations do not wait for their own     *)
(* lock, and a dead CLI leaves no lock behind.                             *)
TransactionsEnd == \A t \in Thread : (pc[t] # "out") ~> (pc[t] = "out")
=============================================================================
