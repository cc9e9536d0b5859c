--------------------------- MODULE EngineVmProofs ---------------------------
(***************************************************************************)
(* Proofs about EngineVm for any sets of Desktop threads and CLI           *)
(* processes.  The inductive invariant follows a boot: while the VM boots, *)
(* somebody waits for it with the gate in hand, or its start is recorded   *)
(* as unfinished, or the exit cleanup stops it by force, or a CLI process  *)
(* may have started it.  At the end: who waits for whom.                   *)
(***************************************************************************)
EXTENDS EngineVm, TLAPS

(* The parts of the type: the Desktop's, the others', and who has the gate.*)
DesktopTypes ==
  /\ gate \in Thread \cup {Exiter, None}
  /\ lock \in Thread \cup {None}
  /\ unfinished \in BOOLEAN /\ tearing \in BOOLEAN
  /\ pc \in [Thread -> ThreadState]
  /\ calls \in [Thread -> 0..MaxCalls]
  /\ exit \in ExitState

OtherTypes ==
  /\ vm \in {"stopped", "booting", "running", "stopping"}
  /\ foreign \in BOOLEAN
  /\ cli \in [Cli -> CliState]
  /\ locked \in SUBSET Cli /\ elder \in SUBSET Cli

Gated ==
  /\ gate = Exiter <=> exit \in {"decides", "forces"}
  /\ \A t \in Thread : gate = t <=> pc[t] \in {"checks", "starts"}

(* The exit cleanup acts after the teardown began.                         *)
Torn == exit # "up" => tearing

(* No boot is left behind that the exit cleanup would not see.             *)
Watched ==
  vm = "booting" =>
    \/ foreign
    \/ unfinished
    \/ exit \in {"forces", "failed"}
    \/ \E t \in Thread : pc[t] = "starts"

(* Once the VM was stopped, nobody waits for a start of it.                *)
Over == exit = "stopped" => \A t \in Thread : pc[t] # "starts"

(* A session the second probe would have seen is gone once it passed.      *)
Probed ==
  /\ elder \subseteq locked
  /\ exit \in {"gates", "decides", "forces"} => elder = {}

IInv == TypeOK /\ Torn /\ Watched /\ Over /\ StaysDown /\ Probed

-----------------------------------------------------------------------------
LEMMA Types == TypeOK <=> (DesktopTypes /\ OtherTypes /\ Gated)
  BY DEF TypeOK, DesktopTypes, OtherTypes, Gated

LEMMA InitInvariant == Init => IInv
<1> SUFFICES ASSUME Init PROVE IInv
  OBVIOUS
<1>1. DesktopTypes
  <2>1. pc \in [Thread -> ThreadState] /\ calls \in [Thread -> 0..MaxCalls]
    BY EngineVmAssumption DEF Init, ThreadState
  <2>2. unfinished \in BOOLEAN /\ tearing \in BOOLEAN /\ exit \in ExitState
    BY DEF Init, ExitState
  <2>3. gate \in Thread \cup {Exiter, None} /\ lock \in Thread \cup {None}
    BY DEF Init
  <2> QED
    BY <2>1, <2>2, <2>3 DEF DesktopTypes
<1>2. OtherTypes
  BY DEF Init, OtherTypes, CliState
<1>3. Gated
  BY EngineVmAssumption DEF Init, Gated
<1>4. Torn /\ Watched /\ Over /\ StaysDown /\ Probed
  BY DEF Init, Torn, Watched, Over, StaysDown, Probed
<1> QED
  BY <1>1, <1>2, <1>3, <1>4, Types DEF IInv

-----------------------------------------------------------------------------
(* A thread moves: the exit cleanup and the CLI processes do not.          *)
Moves(t, s) ==
  /\ Goes(t, s)
  /\ UNCHANGED <<tearing, exit, clis>>

(* Outside the gate, a thread's move leaves the gate to whoever has it.    *)
LEMMA FreeMove ==
  ASSUME IInv, NEW t \in Thread, NEW s \in ThreadState, Moves(t, s),
         pc[t] \notin {"checks", "starts"}, s \notin {"checks", "starts"},
         UNCHANGED <<vm, gate, unfinished>>,
         lock' \in Thread \cup {None}, calls' \in [Thread -> 0..MaxCalls]
  PROVE  IInv'
<1>1. pc \in [Thread -> ThreadState] /\ pc' = [pc EXCEPT ![t] = s]
  BY DEF IInv, TypeOK, Moves, Goes
<1>2. DesktopTypes' /\ OtherTypes'
  BY <1>1 DEF IInv, TypeOK, DesktopTypes, OtherTypes, Moves, clis
<1>3. \A u \in Thread : pc'[u] \in {"checks", "starts"} <=> pc[u] \in {"checks", "starts"}
  BY <1>1
<1>4. \A u \in Thread : pc'[u] = "starts" <=> pc[u] = "starts"
  BY <1>1
<1>5. Gated'
  BY <1>3 DEF IInv, TypeOK, Gated, Moves
<1>6. Torn' /\ StaysDown' /\ Probed'
  BY DEF IInv, Torn, StaysDown, Probed, Moves, clis
<1>7. Watched' /\ Over'
  BY <1>4 DEF IInv, Watched, Over, Moves, clis
<1> QED
  BY <1>2, <1>5, <1>6, <1>7 DEF IInv, TypeOK, DesktopTypes, OtherTypes, Gated

(* Leaving from outside the gate leaves it alone.                          *)
LEMMA ReturnsFree ==
  ASSUME IInv, NEW t \in Thread, pc[t] \notin {"checks", "starts"}, Returns(t)
  PROVE  /\ Goes(t, "idle") /\ gate' = gate
         /\ lock' \in Thread \cup {None}
  BY DEF IInv, TypeOK, Returns

(* Leaving with the gate in hand gives it to nobody; a boot that the       *)
(* thread leaves behind is recorded, unless the VM is up.                  *)
LEMMA GatedReturn ==
  ASSUME IInv, NEW t \in Thread, pc[t] \in {"checks", "starts"}, Returns(t),
         UNCHANGED <<tearing, calls, exit, clis>>,
         unfinished' \in {unfinished, TRUE},
         vm' = vm \/ (vm = "booting" /\ vm' = "stopped"),
         pc[t] = "starts" => unfinished' \/ vm' # "booting"
  PROVE  IInv'
<1>1. pc \in [Thread -> ThreadState] /\ pc' = [pc EXCEPT ![t] = "idle"]
  BY DEF IInv, TypeOK, Returns, Goes
<1>2. gate = t /\ gate' = None /\ gate # Exiter
  BY EngineVmAssumption DEF IInv, TypeOK, Returns
<1>3. DesktopTypes' /\ OtherTypes'
  BY <1>1, <1>2 DEF IInv, TypeOK, DesktopTypes, OtherTypes, Returns, clis, ThreadState
<1>4. \A u \in Thread : pc'[u] \notin {"checks", "starts"}
  BY <1>1, <1>2 DEF IInv, TypeOK
<1>5. None \notin Thread \cup {Exiter}
  BY EngineVmAssumption
<1>6. Gated'
  BY <1>2, <1>4, <1>5 DEF IInv, TypeOK, Gated
<1>7. Torn' /\ StaysDown' /\ Probed' /\ Over'
  BY <1>4 DEF IInv, Torn, StaysDown, Probed, Over, clis
<1>8. Watched'
  <2>1. \A u \in Thread : pc[u] = "starts" => u = t
    BY <1>2 DEF IInv, TypeOK
  <2> QED
    BY <2>1 DEF IInv, TypeOK, Watched, clis
<1> QED
  BY <1>3, <1>6, <1>7, <1>8 DEF IInv, TypeOK, DesktopTypes, OtherTypes, Gated

-----------------------------------------------------------------------------
(* Each of a thread's steps keeps the invariant.                           *)
LEMMA TakeLockKeeps == ASSUME IInv, NEW t \in Thread, TakeLock(t) PROVE IInv'
<1>1. Moves(t, "ensures") /\ lock' \in Thread \cup {None} /\ calls' \in [Thread -> 0..MaxCalls]
  BY DEF TakeLock, Moves, clis, IInv, TypeOK
<1> QED
  BY <1>1, FreeMove DEF TakeLock, ThreadState

LEMMA CallKeeps == ASSUME IInv, NEW t \in Thread, Call(t) PROVE IInv'
<1>1. calls' \in [Thread -> 0..MaxCalls]
  <2>1. calls \in [Thread -> 0..MaxCalls] /\ calls[t] + 1 \in 0..MaxCalls
    BY EngineVmAssumption DEF Call, IInv, TypeOK
  <2> QED
    BY <2>1 DEF Call
<1>2. lock' \in Thread \cup {None}
  BY DEF Call, IInv, TypeOK
<1>3. PICK s \in {"wants", "provisions"} : Goes(t, s)
  BY DEF Call
<1>4. Moves(t, s)
  BY <1>3 DEF Call, Moves, clis
<1> QED
  BY <1>1, <1>2, <1>4, FreeMove DEF Call, ThreadState

(* A look at the status either leads to the gate, to a wait, or out.       *)
LEMMA LookKeeps ==
  ASSUME IInv, NEW t \in Thread,
         pc[t] \in {"ensures", "polls", "provisions"},
         \/ (Goes(t, "gates") \/ Goes(t, "polls")) /\ UNCHANGED <<gate, lock>>
         \/ Returns(t),
         UNCHANGED <<vm, unfinished, tearing, calls, exit, clis>>
  PROVE  IInv'
<1>1. PICK s \in {"gates", "polls", "idle"} :
        Goes(t, s) /\ gate' = gate /\ lock' \in Thread \cup {None}
  BY ReturnsFree DEF IInv, TypeOK
<1>2. Moves(t, s) /\ calls' \in [Thread -> 0..MaxCalls]
  BY <1>1 DEF Moves, clis, IInv, TypeOK
<1> QED
  BY <1>1, <1>2, FreeMove DEF ThreadState

LEMMA TakeGateKeeps == ASSUME IInv, NEW t \in Thread, TakeGate(t) PROVE IInv'
<1>1. pc \in [Thread -> ThreadState] /\ pc' = [pc EXCEPT ![t] = "checks"]
  BY DEF IInv, TypeOK, TakeGate, Goes
<1>2. DesktopTypes' /\ OtherTypes'
  BY <1>1 DEF IInv, TypeOK, DesktopTypes, OtherTypes, TakeGate, clis, ThreadState
<1>3. None \notin Thread \cup {Exiter} /\ Exiter \notin Thread
  BY EngineVmAssumption
<1>4. Gated'
  BY <1>1, <1>3 DEF IInv, TypeOK, Gated, TakeGate
<1>5. \A u \in Thread : pc'[u] = "starts" <=> pc[u] = "starts"
  BY <1>1 DEF TakeGate
<1>6. Torn' /\ StaysDown' /\ Probed' /\ Watched' /\ Over'
  BY <1>5 DEF IInv, Torn, StaysDown, Probed, Watched, Over, TakeGate, clis
<1> QED
  BY <1>2, <1>4, <1>6, Types DEF IInv, TypeOK, DesktopTypes, OtherTypes, Gated

LEMMA StartKeeps == ASSUME IInv, NEW t \in Thread, Start(t) PROVE IInv'
<1>1. CASE tearing
  BY <1>1, GatedReturn DEF Start
<1>2. CASE ~tearing
  <2>1. pc \in [Thread -> ThreadState] /\ pc' = [pc EXCEPT ![t] = "starts"]
    BY <1>2 DEF IInv, TypeOK, Start, Goes
  <2>2. DesktopTypes' /\ OtherTypes'
    BY <1>2, <2>1 DEF IInv, TypeOK, DesktopTypes, OtherTypes, Start, clis, ThreadState, Started
  <2>3. \A u \in Thread : pc'[u] \in {"checks", "starts"} <=> pc[u] \in {"checks", "starts"}
    BY <2>1 DEF Start
  <2>4. Gated'
    BY <1>2, <2>3 DEF IInv, TypeOK, Gated, Start
  <2>5. exit = "up" /\ exit' = "up"
    BY <1>2 DEF IInv, Torn, Start
  <2>6. pc'[t] = "starts"
    BY <2>1
  <2>7. Torn' /\ StaysDown' /\ Probed' /\ Watched' /\ Over'
    BY <2>5, <2>6 DEF IInv, Torn, StaysDown, Probed, Watched, Over, Start, clis
  <2> QED
    BY <2>2, <2>4, <2>7 DEF IInv, TypeOK, DesktopTypes, OtherTypes, Gated
<1> QED
  BY <1>1, <1>2

LEMMA StartOverKeeps ==
  ASSUME IInv, NEW t \in Thread, StartEnds(t) \/ StartFails(t) \/ StartCut(t)
  PROVE  IInv'
<1>1. CASE StartEnds(t)
  BY <1>1, GatedReturn DEF StartEnds
<1>2. CASE StartFails(t)
  BY <1>2, GatedReturn DEF StartFails
<1>3. CASE StartCut(t)
  BY <1>3, GatedReturn DEF StartCut
<1> QED
  BY <1>1, <1>2, <1>3

LEMMA ThreadKeeps ==
  ASSUME IInv, NEW t \in Thread,
         Call(t) \/ Works(t) \/ StartEnds(t) \/ StartFails(t)
  PROVE  IInv'
<1>1. CASE ReadStatus(t)
  BY <1>1, LookKeeps DEF ReadStatus
<1>2. CASE Poll(t)
  BY <1>2, LookKeeps DEF Poll
<1>3. CASE Provision(t)
  BY <1>3, LookKeeps DEF Provision
<1> QED
  BY <1>1, <1>2, <1>3, CallKeeps, TakeLockKeeps, TakeGateKeeps, StartKeeps, StartOverKeeps DEF Works

-----------------------------------------------------------------------------
(* The exit cleanup.                                                       *)
LEMMA CleanupKeeps == ASSUME IInv, Begin \/ Cleanup PROVE IInv'
<1> USE DEF IInv
<1>1. ASSUME Begin \/ Probe \/ Reprobe PROVE IInv'
  <2>1. DesktopTypes' /\ OtherTypes'
    BY <1>1 DEF TypeOK, DesktopTypes, OtherTypes, Begin, Probe, Reprobe, clis, ExitState
  <2>2. Gated'
    BY <1>1 DEF TypeOK, Gated, Begin, Probe, Reprobe
  <2>3. Torn' /\ StaysDown' /\ Probed' /\ Over' /\ Watched'
    BY <1>1 DEF Torn, StaysDown, Probed, Over, Watched, Begin, Probe, Reprobe, clis
  <2> QED
    BY <2>1, <2>2, <2>3 DEF TypeOK, DesktopTypes, OtherTypes, Gated
<1>2. ASSUME StopTakesGate PROVE IInv'
  <2>1. DesktopTypes' /\ OtherTypes'
    BY <1>2 DEF TypeOK, DesktopTypes, OtherTypes, StopTakesGate, clis, ExitState
  <2>2. Gated'
    BY <1>2, EngineVmAssumption DEF TypeOK, Gated, StopTakesGate
  <2>3. Torn' /\ StaysDown' /\ Probed' /\ Over' /\ Watched'
    BY <1>2 DEF Torn, StaysDown, Probed, Over, Watched, StopTakesGate, clis
  <2> QED
    BY <2>1, <2>2, <2>3 DEF TypeOK, DesktopTypes, OtherTypes, Gated
<1>3. ASSUME Decide PROVE IInv'
  <2>1. gate = Exiter /\ \A t \in Thread : pc[t] # "starts"
    BY <1>3, EngineVmAssumption DEF TypeOK, Decide
  <2>2. \/ exit' = "forces" /\ gate' = gate
        \/ /\ exit' = "stopped" /\ gate' = None /\ ~unfinished
           /\ vm \in {"stopped", "booting", "stopping"}
    BY <1>3 DEF TypeOK, Decide, Listed
  <2>3. exit' = "stopped" => foreign \/ vm # "booting"
    BY <2>1, <2>2, <1>3 DEF Watched, Decide
  <2>4. DesktopTypes' /\ OtherTypes'
    BY <1>3, <2>2 DEF TypeOK, DesktopTypes, OtherTypes, Decide, clis, ExitState
  <2>5. Gated'
    BY <1>3, <2>1, <2>2, EngineVmAssumption DEF TypeOK, Gated, Decide
  <2>6. Torn' /\ Probed' /\ Over'
    BY <1>3, <2>1, <2>2 DEF Torn, Probed, Over, Decide, clis
  <2>7. StaysDown' /\ Watched'
    BY <1>3, <2>2, <2>3 DEF StaysDown, Watched, Decide, clis
  <2> QED
    BY <2>4, <2>5, <2>6, <2>7 DEF TypeOK, DesktopTypes, OtherTypes, Gated
<1>4. ASSUME ForceStop PROVE IInv'
  <2>1. gate = Exiter /\ gate' = None /\ \A t \in Thread : pc[t] # "starts"
    BY <1>4, EngineVmAssumption DEF TypeOK, ForceStop
  <2>2. \/ exit' = "stopped" /\ vm' = "stopped"
        \/ exit' = "failed" /\ vm' = vm
    BY <1>4 DEF ForceStop
  <2>3. DesktopTypes' /\ OtherTypes'
    BY <1>4, <2>1, <2>2 DEF TypeOK, DesktopTypes, OtherTypes, ForceStop, clis, ExitState
  <2>4. Gated'
    BY <1>4, <2>1, <2>2, EngineVmAssumption DEF TypeOK, Gated, ForceStop
  <2>5. Torn' /\ StaysDown' /\ Probed' /\ Over' /\ Watched'
    BY <1>4, <2>1, <2>2 DEF Torn, StaysDown, Probed, Over, Watched, ForceStop, clis
  <2> QED
    BY <2>3, <2>4, <2>5 DEF TypeOK, DesktopTypes, OtherTypes, Gated
<1> QED
  BY <1>1, <1>2, <1>3, <1>4 DEF Cleanup

-----------------------------------------------------------------------------
(* Others: the VM itself and the CLI processes.                            *)
LEMMA OthersKeep ==
  ASSUME IInv,
         \/ BootEnds \/ StopEnds
         \/ \E c \in Cli : \/ CliRuns(c) \/ CliStarts(c) \/ CliStarted(c)
                           \/ CliEnters(c) \/ CliEnds(c)
  PROVE  IInv'
<1> USE DEF IInv
<1>1. UNCHANGED desktop
  BY DEF BootEnds, StopEnds, CliRuns, CliStarts, CliStarted, CliEnters, CliEnds
<1>2. DesktopTypes' /\ Gated' /\ Torn' /\ Over'
  BY <1>1 DEF TypeOK, DesktopTypes, Gated, Torn, Over, desktop
<1>3. CASE BootEnds \/ StopEnds
  <2>1. OtherTypes' /\ StaysDown' /\ Probed' /\ Watched'
    BY <1>1, <1>3 DEF TypeOK, OtherTypes, StaysDown, Probed, Watched, desktop, clis, BootEnds, StopEnds
  <2> QED
    BY <1>2, <2>1 DEF TypeOK, DesktopTypes, OtherTypes, Gated
<1>4. ASSUME NEW c \in Cli, CliRuns(c) \/ CliStarts(c) \/ CliStarted(c)
      PROVE  IInv'
  <2>1. /\ locked' = locked /\ elder' = elder
        /\ \/ foreign' = TRUE /\ vm' \in {vm, "booting"}
           \/ foreign' = foreign /\ vm' = vm
    BY <1>4 DEF CliRuns, CliStarts, CliStarted, Started
  <2>2. cli' \in [Cli -> CliState]
    BY <1>4 DEF TypeOK, CliRuns, CliStarts, CliStarted, CliGoes, CliState
  <2>3. OtherTypes'
    BY <2>1, <2>2 DEF TypeOK, OtherTypes
  <2>4. StaysDown' /\ Probed' /\ Watched'
    BY <1>1, <2>1 DEF StaysDown, Probed, Watched, desktop
  <2> QED
    BY <1>2, <2>3, <2>4 DEF TypeOK, DesktopTypes, OtherTypes, Gated
<1>5. ASSUME NEW c \in Cli, CliEnters(c) \/ CliEnds(c)
      PROVE  IInv'
  <2>1. vm' = vm /\ foreign' = foreign
    BY <1>5 DEF CliEnters, CliEnds, desktop
  <2>2. OtherTypes'
    BY <1>5, <2>1 DEF TypeOK, OtherTypes, CliEnters, CliEnds, CliGoes, CliState
  <2>3. StaysDown' /\ Watched'
    BY <1>1, <2>1 DEF StaysDown, Watched, desktop
  <2>4. Probed'
    BY <1>1, <1>5 DEF Probed, desktop, CliEnters, CliEnds
  <2> QED
    BY <1>2, <2>2, <2>3, <2>4 DEF TypeOK, DesktopTypes, OtherTypes, Gated
<1> QED
  BY <1>3, <1>4, <1>5

LEMMA StepInvariant == IInv /\ [Next]_vars => IInv'
<1> SUFFICES ASSUME IInv, [Next]_vars PROVE IInv'
  OBVIOUS
<1>1. CASE UNCHANGED vars
  BY <1>1 DEF vars, IInv, TypeOK, Torn, Watched, Over, StaysDown, Probed
<1>2. CASE Next
  BY <1>2, ThreadKeeps, CleanupKeeps, OthersKeep DEF Next
<1> QED
  BY <1>1, <1>2

LEMMA Invariance == Spec => []IInv
  BY InitInvariant, StepInvariant, PTL DEF Spec

-----------------------------------------------------------------------------
(* lima.rs, reconcile.rs: the gate is held by whoever starts or stops the  *)
(* VM and by nobody else, for any number of threads and CLI processes.     *)
THEOREM TypeCorrect == Spec => []TypeOK
<1>1. IInv => TypeOK
  BY DEF IInv
<1> QED
  BY Invariance, <1>1, PTL

(* stop_vm: no thread of the Desktop and no start it left unfinished       *)
(* brings up the VM that the exit cleanup stopped.                         *)
THEOREM VmStaysDown == Spec => []StaysDown
<1>1. IInv => StaysDown
  BY DEF IInv
<1> QED
  BY Invariance, <1>1, PTL

(* run_container_cleanup: the VM is not stopped under a CLI session that   *)
(* held its lock before the second probe.                                  *)
THEOREM SessionsAreSpared == Spec => SessionSpared
<1>1. IInv => (exit = "forces" /\ vm' # vm => elder = {})
  BY DEF IInv, Probed
<1>2. IInv /\ [Next]_vars => [exit = "forces" /\ vm' # vm => elder = {}]_vars
  BY <1>1
<1> QED
  BY Invariance, <1>2, PTL DEF Spec, SessionSpared

-----------------------------------------------------------------------------
(* Nobody waits in a circle: the part of ExitEnds that fairness has no     *)
(* share in.                                                               *)

(* x waits for y: a thread for ENSURE_READY_LOCK, a thread or the exit     *)
(* cleanup for the start gate.                                             *)
WaitsFor(x, y) ==
  \/ x \in Thread /\ pc[x] = "wants" /\ lock = y
  \/ x \in Thread /\ pc[x] = "gates" /\ gate = y
  \/ x = Exiter /\ exit = "gates" /\ gate = y

Waiters == Thread \cup {Exiter}

NoCircle ==
  /\ \A x, y, z, u \in Waiters : ~(WaitsFor(x, y) /\ WaitsFor(y, z) /\ WaitsFor(z, u))
  /\ \A x \in Waiters, t \in Thread : WaitsFor(x, t) => pc[t] \notin {"idle", "wants", "provisions"}
  /\ \A t \in Thread : WaitsFor(Exiter, t) => tearing /\ pc[t] \in {"checks", "starts"}

(* Who has the lock of ensure_ready is in it, past the wait for it.        *)
Ensuring == {"ensures", "polls", "gates", "checks", "starts"}
Ensures == \A t \in Thread : lock = t => pc[t] \in Ensuring

LEMMA EnsuresThread ==
  ASSUME IInv, Ensures, NEW t \in Thread, Call(t) \/ Works(t) \/ StartEnds(t) \/ StartFails(t)
  PROVE  Ensures'
<1>1. pc \in [Thread -> ThreadState] /\ lock \in Thread \cup {None} /\ None \notin Thread
  BY EngineVmAssumption DEF IInv, TypeOK
<1>2. CASE Returns(t)
  BY <1>1, <1>2 DEF Returns, Goes, Ensures
<1>3. CASE TakeLock(t)
  BY <1>1, <1>3 DEF TakeLock, Goes, Ensures, Ensuring
<1>4. CASE Call(t)
  BY <1>1, <1>4 DEF Call, Goes, Ensures, Ensuring
<1>5. ASSUME lock' = lock, NEW s \in Ensuring, Goes(t, s) PROVE Ensures'
  BY <1>1, <1>5 DEF Goes, Ensures
<1>6. CASE ReadStatus(t) \/ Poll(t) \/ Provision(t)
  <2>1. Returns(t) \/ (lock' = lock /\ (Goes(t, "gates") \/ Goes(t, "polls")))
    BY <1>6 DEF ReadStatus, Poll, Provision
  <2> QED
    BY <1>2, <1>5, <2>1 DEF Ensuring
<1>7. CASE TakeGate(t) \/ Start(t)
  <2>1. Returns(t) \/ (lock' = lock /\ (Goes(t, "checks") \/ Goes(t, "starts")))
    BY <1>7 DEF TakeGate, Start
  <2> QED
    BY <1>2, <1>5, <2>1 DEF Ensuring
<1>8. CASE StartEnds(t) \/ StartFails(t) \/ StartCut(t)
  BY <1>2, <1>8 DEF StartEnds, StartFails, StartCut
<1> QED
  BY <1>3, <1>4, <1>6, <1>7, <1>8 DEF Works

LEMMA EnsuresStep == IInv /\ Ensures /\ [Next]_vars => Ensures'
<1> SUFFICES ASSUME IInv, Ensures, [Next]_vars PROVE Ensures'
  OBVIOUS
<1>1. CASE UNCHANGED <<pc, lock>>
  BY <1>1 DEF Ensures
<1>2. CASE UNCHANGED vars
  BY <1>1, <1>2 DEF vars
<1>3. CASE Begin \/ Cleanup
  BY <1>1, <1>3 DEF Begin, Cleanup, Probe, Reprobe, StopTakesGate, Decide, ForceStop
<1>4. CASE \/ BootEnds \/ StopEnds
           \/ \E c \in Cli : \/ CliRuns(c) \/ CliStarts(c) \/ CliStarted(c)
                             \/ CliEnters(c) \/ CliEnds(c)
  BY <1>1, <1>4 DEF BootEnds, StopEnds, CliRuns, CliStarts, CliStarted, CliEnters, CliEnds, desktop
<1> QED
  BY <1>2, <1>3, <1>4, EnsuresThread DEF Next

LEMMA EnsuresNoCircle == IInv /\ Ensures => NoCircle
<1> SUFFICES ASSUME IInv, Ensures PROVE NoCircle
  OBVIOUS
<1>1. /\ Exiter \notin Thread /\ None \notin Waiters
      /\ lock \in Thread \cup {None}
      /\ gate = Exiter <=> exit \in {"decides", "forces"}
      /\ \A t \in Thread : gate = t <=> pc[t] \in {"checks", "starts"}
  BY EngineVmAssumption DEF IInv, TypeOK, Waiters
<1>2. ASSUME NEW x \in Waiters, NEW y, gate = x PROVE ~WaitsFor(x, y)
  BY <1>1, <1>2 DEF Waiters, WaitsFor
<1>3. ASSUME NEW x \in Waiters, NEW y \in Waiters, NEW z \in Waiters, WaitsFor(x, y), WaitsFor(y, z)
      PROVE  gate = z
  <2>1. gate # y
    BY <1>2, <1>3
  <2>2. y \in Thread /\ lock = y
    BY <1>1, <1>3, <2>1 DEF WaitsFor, Waiters
  <2>3. pc[y] # "wants"
    BY <2>2 DEF Ensures, Ensuring
  <2> QED
    BY <1>1, <1>3, <2>2, <2>3 DEF WaitsFor
<1>4. \A x, y, z, u \in Waiters : ~(WaitsFor(x, y) /\ WaitsFor(y, z) /\ WaitsFor(z, u))
  BY <1>2, <1>3
<1>5. ASSUME NEW x \in Waiters, NEW t \in Thread, WaitsFor(x, t)
      PROVE  pc[t] \notin {"idle", "wants", "provisions"}
  BY <1>1, <1>5 DEF WaitsFor, Ensures, Ensuring
<1>6. ASSUME NEW t \in Thread, WaitsFor(Exiter, t) PROVE tearing /\ pc[t] \in {"checks", "starts"}
  BY <1>1, <1>6 DEF WaitsFor, IInv, Torn
<1> QED
  BY <1>4, <1>5, <1>6 DEF NoCircle

(* A chain of waits has at most two links, and the exit cleanup only waits *)
(* for a start that returns as soon as it looks at the teardown: the lock  *)
(* of ensure_ready is taken before the gate, and nothing is waited for     *)
(* with the gate in hand (lima.rs, ENSURE_READY_LOCK and VmStartGate).     *)
THEOREM NobodyWaitsInACircle == Spec => []NoCircle
<1>1. Init => Ensures
  BY EngineVmAssumption DEF Init, Ensures
<1> QED
  BY <1>1, EnsuresStep, EnsuresNoCircle, Invariance, PTL DEF Spec
=============================================================================
