------------------------------ MODULE EngineVm ------------------------------
(***************************************************************************)
(* The Lima VM of macOS: Desktop threads that make it ready (lima.rs,      *)
(* provision.rs), the exit cleanup that stops it (reconcile.rs), and CLI   *)
(* processes that start it and live in it (speedwave-cli, cli_lock.rs).    *)
(*                                                                         *)
(* limactl lies: a start that was cut short or timed out leaves a boot     *)
(* behind that the status does not show. The gate and its start_unfinished *)
(* flag are one process's own, and so is the teardown flag.                *)
(***************************************************************************)
EXTENDS Naturals

CONSTANTS
  Thread,    \* Desktop threads that make the VM ready
  Exiter,    \* the exit cleanup's thread
  Cli,       \* CLI processes
  None,      \* nobody
  MaxCalls,  \* bound: calls of each thread
  Failing    \* limactl may fail, and the session lock too

ASSUME EngineVmAssumption ==
  /\ Exiter \notin Thread
  /\ None \notin Thread \cup {Exiter}
  /\ MaxCalls \in Nat
  /\ Failing \in BOOLEAN

VARIABLES
  vm,          \* the VM
  gate,        \* VmStartGate.held
  unfinished,  \* VmStartGate.start_unfinished
  lock,        \* ENSURE_READY_LOCK
  tearing,     \* ENGINE_TEARDOWN_STARTED
  pc,          \* where each Desktop thread is
  calls,       \* its calls so far
  exit,        \* where the exit cleanup is
  cli,         \* where each CLI process is
  locked,      \* CLI processes that hold the session lock
  elder,       \* those among them that held it before the last probe
  foreign      \* a CLI process has run limactl start

vars == <<vm, gate, unfinished, lock, tearing, pc, calls, exit, cli, locked, elder, foreign>>
clis == <<cli, locked, elder, foreign>>
desktop == <<gate, unfinished, lock, tearing, pc, calls, exit>>

ThreadState == {"idle", "wants", "ensures", "provisions", "polls", "gates", "checks", "starts"}
ExitState == {"up", "probes", "reprobes", "gates", "decides", "forces", "stopped", "failed", "spared"}
CliState == {"away", "asks", "starts", "ready", "session"}

TypeOK ==
  /\ vm \in {"stopped", "booting", "running", "stopping"}
  /\ gate \in Thread \cup {Exiter, None}
  /\ lock \in Thread \cup {None}
  /\ unfinished \in BOOLEAN /\ tearing \in BOOLEAN /\ foreign \in BOOLEAN
  /\ pc \in [Thread -> ThreadState]
  /\ calls \in [Thread -> 0..MaxCalls]
  /\ exit \in ExitState
  /\ cli \in [Cli -> CliState]
  /\ locked \in SUBSET Cli /\ elder \in SUBSET Cli
  /\ gate = Exiter <=> exit \in {"decides", "forces"}
  /\ \A t \in Thread : gate = t <=> pc[t] \in {"checks", "starts"}

Init ==
  /\ vm \in {"stopped", "running", "stopping"}
  /\ gate = None /\ lock = None
  /\ unfinished = FALSE /\ tearing = FALSE /\ foreign = FALSE
  /\ pc = [t \in Thread |-> "idle"]
  /\ calls = [t \in Thread |-> 0]
  /\ exit = "up"
  /\ cli = [c \in Cli |-> "away"]
  /\ locked = {} /\ elder = {}

-----------------------------------------------------------------------------
(* limactl.                                                                *)

(* What limactl list says of the VM; the read may fail.                    *)
Listed ==
  (CASE vm = "stopped" -> {"Stopped"} [] vm = "booting" -> {"Stopped", "Running"}
     [] vm = "running" -> {"Running"} [] vm = "stopping" -> {"Stopping", "Running"})
  \cup IF Failing THEN {"unreadable"} ELSE {}

Started == IF vm = "stopped" THEN "booting" ELSE vm

BootEnds ==
  /\ vm = "booting" /\ vm' = "running"
  /\ UNCHANGED <<desktop, clis>>

StopEnds ==
  /\ vm = "stopping" /\ vm' = "stopped"
  /\ UNCHANGED <<desktop, clis>>

-----------------------------------------------------------------------------
(* A Desktop thread.                                                       *)

Goes(t, s) == pc' = [pc EXCEPT ![t] = s]

(* Leaving gives back what the thread holds.                               *)
Returns(t) ==
  /\ Goes(t, "idle")
  /\ gate' = IF gate = t THEN None ELSE gate
  /\ lock' = IF lock = t THEN None ELSE lock

(* ensure_ready waits for its lock, the setup's provisioning does not.     *)
Call(t) ==
  /\ pc[t] = "idle" /\ calls[t] < MaxCalls
  /\ calls' = [calls EXCEPT ![t] = @ + 1]
  /\ \E s \in {"wants", "provisions"} : Goes(t, s)
  /\ UNCHANGED <<vm, gate, unfinished, lock, tearing, exit, clis>>

TakeLock(t) ==
  /\ pc[t] = "wants" /\ lock = None
  /\ lock' = t
  /\ Goes(t, "ensures")
  /\ UNCHANGED <<vm, gate, unfinished, tearing, calls, exit, clis>>

(* ensure_ready_inner: the status is read before the gate is held.         *)
ReadStatus(t) ==
  /\ pc[t] = "ensures"
  /\ \E s \in Listed :
       \/ s = "Stopped" /\ Goes(t, "gates") /\ UNCHANGED <<gate, lock>>
       \/ s = "Stopping" /\ Goes(t, "polls") /\ UNCHANGED <<gate, lock>>
       \/ s \in {"Running", "unreadable"} /\ Returns(t)
  /\ UNCHANGED <<vm, unfinished, tearing, calls, exit, clis>>

(* One round of its wait for a VM that is stopping; a failed read is tried *)
(* again until the deadline, which may pass at any round.                  *)
Poll(t) ==
  /\ pc[t] = "polls"
  /\ \E s \in Listed :
       \/ s = "Stopped" /\ Goes(t, "gates") /\ UNCHANGED <<gate, lock>>
       \/ s # "Stopped" /\ Returns(t)
  /\ UNCHANGED <<vm, unfinished, tearing, calls, exit, clis>>

(* init_vm: anything but a running VM is started.                          *)
Provision(t) ==
  /\ pc[t] = "provisions"
  /\ \E s \in Listed :
       \/ s = "Running" /\ Returns(t)
       \/ s # "Running" /\ Goes(t, "gates") /\ UNCHANGED <<gate, lock>>
  /\ UNCHANGED <<vm, unfinished, tearing, calls, exit, clis>>

TakeGate(t) ==
  /\ pc[t] = "gates" /\ gate = None
  /\ gate' = t
  /\ Goes(t, "checks")
  /\ UNCHANGED <<vm, unfinished, lock, tearing, calls, exit, clis>>

(* start_vm_unless_torn_down                                               *)
Start(t) ==
  /\ pc[t] = "checks"
  /\ IF tearing THEN Returns(t) /\ UNCHANGED vm
                ELSE Goes(t, "starts") /\ vm' = Started /\ UNCHANGED <<gate, lock>>
  /\ UNCHANGED <<unfinished, tearing, calls, exit, clis>>

StartEnds(t) ==
  /\ pc[t] = "starts" /\ vm = "running"
  /\ Returns(t)
  /\ UNCHANGED <<vm, unfinished, tearing, calls, exit, clis>>

(* limactl fails, with its boot over or not, or runs into the timeout.     *)
StartFails(t) ==
  /\ Failing /\ pc[t] = "starts"
  /\ unfinished' = TRUE
  /\ vm' \in {vm} \cup IF vm = "booting" THEN {"stopped"} ELSE {}
  /\ Returns(t)
  /\ UNCHANGED <<tearing, calls, exit, clis>>

(* Mutants of StartCut: the boot left behind is not recorded, and the      *)
(* command is not looked at again before its timeout.                      *)
StartCutForgets(t) ==
  /\ pc[t] = "starts" /\ tearing
  /\ Returns(t)
  /\ UNCHANGED <<vm, unfinished, tearing, calls, exit, clis>>

StartRunsOn(t) ==
  /\ pc[t] = "starts" /\ vm = "running" /\ tearing
  /\ Returns(t)
  /\ UNCHANGED <<vm, unfinished, tearing, calls, exit, clis>>

(* run_until kills limactl once the teardown began; its host agent goes on.*)
StartCut(t) ==
  /\ pc[t] = "starts" /\ tearing
  /\ unfinished' = TRUE
  /\ Returns(t)
  /\ UNCHANGED <<vm, tearing, calls, exit, clis>>

-----------------------------------------------------------------------------
(* The exit cleanup.                                                       *)

Begin ==
  /\ exit = "up"
  /\ tearing' = TRUE
  /\ exit' = "probes"
  /\ UNCHANGED <<vm, gate, unfinished, lock, pc, calls, clis>>

Probe ==
  /\ exit = "probes"
  /\ exit' = IF locked = {} THEN "reprobes" ELSE "spared"
  /\ UNCHANGED <<vm, gate, unfinished, lock, tearing, pc, calls, clis>>

(* A mutant of Reprobe: only the first probe counts.                       *)
ReprobeIgnored ==
  /\ exit = "reprobes"
  /\ exit' = "gates"
  /\ UNCHANGED <<vm, gate, unfinished, lock, tearing, pc, calls, clis>>

Reprobe ==
  /\ exit = "reprobes"
  /\ exit' = IF locked = {} THEN "gates" ELSE "spared"
  /\ UNCHANGED <<vm, gate, unfinished, lock, tearing, pc, calls, clis>>

(* stop_vm: the gate first, so that no start is under way ...              *)
StopTakesGate ==
  /\ exit = "gates" /\ gate = None
  /\ gate' = Exiter
  /\ exit' = "decides"
  /\ UNCHANGED <<vm, unfinished, lock, tearing, pc, calls, clis>>

(* A mutant of Decide: the gate is let go before the VM is stopped.        *)
DecideUngated ==
  /\ exit = "decides"
  /\ exit' = "forces" /\ gate' = None
  /\ UNCHANGED <<vm, unfinished, lock, tearing, pc, calls, clis>>

(* ... a start that did not finish forces the stop, and so does a status   *)
(* that cannot be read ...                                                 *)
Decide ==
  /\ exit = "decides"
  /\ unfinished' = FALSE
  /\ \/ /\ unfinished
        /\ exit' = "forces" /\ UNCHANGED gate
     \/ /\ ~unfinished
        /\ \E s \in Listed :
             IF s \in {"Running", "unreadable"} THEN exit' = "forces" /\ UNCHANGED gate
                                                ELSE exit' = "stopped" /\ gate' = None
  /\ UNCHANGED <<vm, lock, tearing, pc, calls, clis>>

(* ... and limactl stop --force ends whatever the VM does, or fails.       *)
ForceStop ==
  /\ exit = "forces"
  /\ gate' = IF gate = Exiter THEN None ELSE gate
  /\ \/ exit' = "stopped" /\ vm' = "stopped"
     \/ Failing /\ exit' = "failed" /\ UNCHANGED vm
  /\ UNCHANGED <<unfinished, lock, tearing, pc, calls, clis>>

-----------------------------------------------------------------------------
(* A CLI process.                                                          *)

CliGoes(c, s) == cli' = [cli EXCEPT ![c] = s]

(* is_available                                                            *)
CliRuns(c) ==
  /\ cli[c] = "away"
  /\ \E s \in Listed : CliGoes(c, IF s = "Running" THEN "ready" ELSE "asks")
  /\ UNCHANGED <<vm, desktop, locked, elder, foreign>>

(* ensure_ready of a process that tears nothing down.                      *)
CliStarts(c) ==
  /\ cli[c] = "asks"
  /\ \E s \in Listed :
       \/ s = "Stopped" /\ CliGoes(c, "starts") /\ vm' = Started /\ foreign' = TRUE
       \/ s = "Running" /\ CliGoes(c, "ready") /\ UNCHANGED <<vm, foreign>>
       \/ s = "Stopping" /\ UNCHANGED <<vm, cli, foreign>>
       \/ s = "unreadable" /\ CliGoes(c, "away") /\ UNCHANGED <<vm, foreign>>
  /\ UNCHANGED <<desktop, locked, elder>>

CliStarted(c) ==
  /\ cli[c] = "starts" /\ vm = "running"
  /\ CliGoes(c, "ready")
  /\ UNCHANGED <<vm, desktop, locked, elder, foreign>>

(* CliSessionGuard::acquire, whose failure is only logged.                 *)
CliEnters(c) ==
  /\ cli[c] = "ready"
  /\ CliGoes(c, "session")
  /\ \/ /\ locked' = locked \cup {c}
        /\ elder' = IF exit \in {"up", "probes", "reprobes"} THEN elder \cup {c} ELSE elder
     \/ Failing /\ UNCHANGED <<locked, elder>>
  /\ UNCHANGED <<vm, desktop, foreign>>

(* It ends or is killed; the kernel drops its lock.                        *)
CliEnds(c) ==
  /\ cli[c] # "away"
  /\ CliGoes(c, "away")
  /\ locked' = locked \ {c} /\ elder' = elder \ {c}
  /\ UNCHANGED <<vm, desktop, foreign>>

-----------------------------------------------------------------------------
Works(t) == \/ TakeLock(t) \/ ReadStatus(t) \/ Poll(t) \/ Provision(t) \/ TakeGate(t)
            \/ Start(t) \/ StartCut(t)
Cleanup == Probe \/ Reprobe \/ StopTakesGate \/ Decide \/ ForceStop

Next ==
  \/ BootEnds \/ StopEnds
  \/ \E t \in Thread : Call(t) \/ Works(t) \/ StartEnds(t) \/ StartFails(t)
  \/ Begin \/ Cleanup
  \/ \E c \in Cli : CliRuns(c) \/ CliStarts(c) \/ CliStarted(c) \/ CliEnters(c) \/ CliEnds(c)

Spec == Init /\ [][Next]_vars

(* Threads run, and every limactl call they wait for is bounded; but no    *)
(* fairness makes a boot end or a start time out. The mutex of the gate is *)
(* not fair, and nobody holds it for ever.                                 *)
FairSpec ==
  /\ Spec
  /\ \A t \in Thread : WF_vars(Works(t))
  /\ SF_vars(Cleanup)

-----------------------------------------------------------------------------
(* Properties.                                                             *)

(* Once the exit cleanup has stopped the VM it stays down: no thread that  *)
(* read its status before starts it again, and no boot that a cut or timed *)
(* out start left behind comes up, unless a CLI process starts it.         *)
StaysDown == exit = "stopped" /\ ~foreign => vm \in {"stopped", "stopping"}

(* The exit cleanup never stops the VM under a CLI session that held its   *)
(* lock before the last probe.                                             *)
SessionSpared == [][exit = "forces" /\ vm' # vm => elder = {}]_vars

(* The exit cleanup ends, however far a start is: it does not depend on    *)
(* the boot to end, nor on the ten minutes a start may take.               *)
ExitEnds == tearing ~> (exit \in {"stopped", "failed", "spared"})
=============================================================================
