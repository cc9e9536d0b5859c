------------------------- MODULE ComposeLockProofs -------------------------
(***************************************************************************)
(* Proofs about ComposeLock for any sets of projects and threads.  The     *)
(* inductive invariant says who has the lock file of a project, that the   *)
(* exit cleanup acts after the teardown began and leaves no Desktop thread *)
(* between its check and its start, and that a migrated project has no     *)
(* network to keep a container on.  At the end: who waits for whom.        *)
(***************************************************************************)
EXTENDS ComposeLock, TLAPS

(* A transaction has the lock file of its project, and an operation under  *)
(* way is the head of a plan.                                              *)
Placed ==
  \A t \in Thread :
    /\ pc[t] # "out" => target[t] \in Project
    /\ pc[t] \in Locked => file[target[t]] = t
    /\ pc[t] \in Locked \ {"in"} => plan[t] # <<>>

Starting == {"checked", "start", "migrate"}

(* Once the exit cleanup brought a stack down, no thread of the Desktop is *)
(* past the check of its start.                                            *)
Gated ==
  /\ pc[Exiter] # "out" => tearing
  /\ \A p \in downed :
       /\ tearing
       /\ upBy[p] # Desktop
       /\ \A t \in DesktopThread : pc[t] \in Starting => target[t] # p

(* Containers on a network of the earlier release keep it.                 *)
Migrated ==
  /\ attached \subseteq legacy
  /\ \A t \in Thread : pc[t] = "unlink" => target[t] \notin attached
  /\ \A s \in settled : s[2] \notin legacy

IInv == TypeOK /\ Placed /\ Gated /\ Migrated

-----------------------------------------------------------------------------
(* The parts of the type: the lock's, and the stacks'.                     *)
LockTypes ==
  /\ pc \in [Thread -> Locked \cup {"out", "mutex", "file"}]
  /\ target \in [Thread -> Project \cup {None}]
  /\ plan \in [Thread -> Seq(Operation)]
  /\ ops \in [Thread -> 0..MaxOps]
  /\ file \in [Project -> Thread \cup {None}]
  /\ held \in [Thread -> SUBSET Project]

WorkTypes ==
  /\ upBy \in [Project -> Process \cup {None, Earlier}]
  /\ legacy \in SUBSET Project
  /\ attached \in SUBSET Project
  /\ settled \in SUBSET (Process \X Project)
  /\ tearing \in BOOLEAN
  /\ downed \in SUBSET Project

LEMMA Types == TypeOK <=> LockTypes /\ WorkTypes
  BY DEF TypeOK, LockTypes, WorkTypes

LEMMA ProcessType ==
  ASSUME NEW t \in Thread
  PROVE  /\ ProcessOf(t) \in Process
         /\ ProcessOf(t) = Desktop <=> t \in DesktopThread
  BY ComposeLockAssumption DEF ProcessOf, Process

LEMMA PlanTypes ==
  ASSUME NEW s \in Plans
  PROVE  s \in Seq(Operation) /\ s # <<>>
<1>1. CASE s = <<"down", "recreate">>
  BY <1>1 DEF Operation, Starts
<1>2. ASSUME NEW o \in Operation, s = <<o>> PROVE s \in Seq(Operation) /\ s # <<>>
  BY <1>2
<1> QED
  BY <1>1, <1>2 DEF Plans

(* What the lock's state promises: two threads inside one project are one. *)
LEMMA Exclusion == Placed => TransactionsExclude
  BY DEF Placed, TransactionsExclude, Inside

LEMMA InitInvariant == Init => IInv
<1> SUFFICES ASSUME Init PROVE IInv
  OBVIOUS
<1>1. LockTypes
  BY ComposeLockAssumption DEF Init, LockTypes
<1>2. WorkTypes
  BY DEF Init, WorkTypes
<1>3. Placed /\ Gated /\ Migrated
  BY ComposeLockAssumption DEF Init, Placed, Gated, Migrated, Locked
<1> QED
  BY <1>1, <1>2, <1>3 DEF IInv, TypeOK, LockTypes, WorkTypes

-----------------------------------------------------------------------------
(* An operation: the thread stays inside and nobody's lock changes.        *)
Operates(t) ==
  /\ pc[t] \in Locked
  /\ \E s \in Locked : pc' = [pc EXCEPT ![t] = s]
  /\ \E s \in Seq(Operation) : plan' = [plan EXCEPT ![t] = s]
  /\ pc'[t] = "in" \/ plan'[t] # <<>>
  /\ UNCHANGED <<target, ops, file, held>>

LEMMA OperatesKeeps ==
  ASSUME IInv, NEW t \in Thread, Operates(t)
  PROVE  LockTypes' /\ Placed'
<1>1. LockTypes'
  BY Types DEF IInv, Operates, LockTypes
<1>2. pc \in [Thread -> Locked \cup {"out", "mutex", "file"}] /\ plan \in [Thread -> Seq(Operation)]
  BY DEF IInv, TypeOK
<1>3. ASSUME NEW u \in Thread
      PROVE  /\ pc'[u] # "out" => target'[u] \in Project
             /\ pc'[u] \in Locked => file'[target'[u]] = u
             /\ pc'[u] \in Locked \ {"in"} => plan'[u] # <<>>
  <2>1. CASE u = t
    BY <1>2, <2>1 DEF IInv, Placed, Operates, Locked
  <2>2. CASE u # t
    BY <1>2, <2>2 DEF IInv, Placed, Operates
  <2> QED
    BY <2>1, <2>2
<1> QED
  BY <1>1, <1>3 DEF Placed

(* Done returns to the transaction with what is left of the plan.          *)
LEMMA DoneOperates ==
  ASSUME IInv, NEW t \in Thread, pc[t] \in Locked, plan[t] # <<>>,
         NEW ok \in BOOLEAN, Done(t, ok), UNCHANGED <<target, ops, file, held>>
  PROVE  Operates(t) /\ pc'[t] = "in"
<1>1. plan[t] \in Seq(Operation) /\ plan \in [Thread -> Seq(Operation)]
  BY DEF IInv, TypeOK
<1>2. Tail(plan[t]) \in Seq(Operation) /\ <<>> \in Seq(Operation)
  BY <1>1
<1>3. \E s \in Seq(Operation) : plan' = [plan EXCEPT ![t] = s]
  BY <1>1, <1>2 DEF Done
<1>4. pc' = [pc EXCEPT ![t] = "in"] /\ pc'[t] = "in"
  BY DEF Done, IInv, TypeOK
<1> QED
  BY <1>3, <1>4 DEF Operates, Locked

(* What an operation leaves of the other two parts: what it does to the    *)
(* stacks is judged by the two lemmas below.                               *)
LEMMA GatedKept ==
  ASSUME IInv, NEW t \in Thread, Operates(t),
         tearing' = tearing, downed' = downed,
         t \in DesktopThread /\ pc'[t] \in Starting =>
           pc[t] \in Starting \/ ~tearing,
         \A p \in Project : upBy'[p] = Desktop =>
           \/ upBy[p] = Desktop
           \/ t \in DesktopThread /\ pc[t] \in Starting /\ p = target[t]
  PROVE  Gated'
<1>1. pc \in [Thread -> Locked \cup {"out", "mutex", "file"}] /\ downed \subseteq Project
  BY DEF IInv, TypeOK
<1>2. \A u \in Thread : u # t => pc'[u] = pc[u]
  BY <1>1 DEF Operates
<1>3. pc'[Exiter] # "out" => tearing'
  BY <1>2, ComposeLockAssumption DEF IInv, Gated, Operates, Locked
<1>4. ASSUME NEW p \in downed'
      PROVE  tearing' /\ upBy'[p] # Desktop
  BY <1>1, <1>4 DEF IInv, Gated
<1>5. ASSUME NEW p \in downed', NEW u \in DesktopThread, pc'[u] \in Starting
      PROVE  target'[u] # p
  <2>1. u \in Thread /\ target' = target /\ tearing
    BY <1>5, ComposeLockAssumption DEF Operates, IInv, Gated
  <2>2. pc[u] \in Starting
    BY <1>2, <1>5, <2>1
  <2> QED
    BY <1>5, <2>1, <2>2 DEF IInv, Gated
<1> QED
  BY <1>3, <1>4, <1>5 DEF Gated

-----------------------------------------------------------------------------
(* The operations, one by one.                                             *)

LEMMA DownStep ==
  ASSUME IInv, NEW t \in Thread, Down(t) PROVE IInv'
<1>0. /\ pc[t] = "in" /\ plan[t] # <<>> /\ target[t] \in Project
      /\ pc \in [Thread -> Locked \cup {"out", "mutex", "file"}]
  BY DEF IInv, TypeOK, Down, Next1, Placed
<1>1. Operates(t) /\ pc'[t] = "in"
  BY <1>0, DoneOperates DEF Down, Locked
<1>2. LockTypes' /\ Placed'
  BY <1>1, OperatesKeeps
<1>3. WorkTypes'
  BY <1>0, Types DEF Down, WorkTypes, IInv
<1>4. \A u \in Thread : u # t => pc'[u] = pc[u]
  BY <1>0, <1>1 DEF Operates
<1>5. Migrated'
  BY <1>0, <1>1, <1>4 DEF IInv, Down, Migrated, Operates
<1>6. CASE UNCHANGED <<upBy, attached, downed>>
  <2>1. Gated'
    BY <1>1, <1>6, GatedKept DEF Down, Starting
  <2> QED
    BY <1>2, <1>3, <1>5, <2>1 DEF IInv, TypeOK, LockTypes, WorkTypes
<1>7. CASE /\ upBy' = [upBy EXCEPT ![target[t]] = None]
           /\ downed' = IF t = Exiter THEN downed \cup {target[t]} ELSE downed
  <2>1. upBy \in [Project -> Process \cup {None, Earlier}] /\ downed \subseteq Project
    BY DEF IInv, TypeOK
  <2>2. \A p \in Project : upBy'[p] = Desktop => upBy[p] = Desktop
    BY <1>7, <2>1, ComposeLockAssumption
  <2>3. CASE t # Exiter
    <3>1. Gated'
      BY <1>1, <1>7, <2>2, <2>3, GatedKept DEF Down, Starting
    <3> QED
      BY <1>2, <1>3, <1>5, <3>1 DEF IInv, TypeOK, LockTypes, WorkTypes
  <2>4. CASE t = Exiter
    <3>1. tearing /\ tearing'
      BY <1>0, <2>4 DEF IInv, Gated, Down
    <3>2. downed' = downed \cup {target[t]}
      BY <1>7, <2>4
    <3>3. \A p \in downed' : upBy'[p] # Desktop
      BY <1>0, <1>7, <2>1, <2>2, <3>2, ComposeLockAssumption DEF IInv, Gated
    <3>4. ASSUME NEW p \in downed', NEW u \in DesktopThread, pc'[u] \in Starting
          PROVE  target'[u] # p
      <4>1. u \in Thread /\ u # t /\ pc[u] \in Starting /\ target' = target
        BY <1>1, <1>4, <3>4, ComposeLockAssumption DEF Starting, Operates
      <4>2. file[target[u]] = u /\ file[target[t]] = t
        BY <1>0, <4>1 DEF IInv, Placed, Starting, Locked
      <4> QED
        BY <3>2, <3>4, <4>1, <4>2 DEF IInv, Gated
    <3>5. Gated'
      BY <3>1, <3>3, <3>4 DEF Gated
    <3> QED
      BY <1>2, <1>3, <1>5, <3>5 DEF IInv, TypeOK, LockTypes, WorkTypes
  <2> QED
    BY <2>3, <2>4
<1> QED
  BY <1>6, <1>7 DEF Down

LEMMA RemoveNetworksStep ==
  ASSUME IInv, NEW t \in Thread, RemoveNetworks(t) PROVE IInv'
<1>0. /\ pc[t] = "in" /\ plan[t] # <<>> /\ target[t] \in Project
      /\ pc \in [Thread -> Locked \cup {"out", "mutex", "file"}]
  BY DEF IInv, TypeOK, RemoveNetworks, Next1, Placed
<1>1. Operates(t) /\ pc'[t] = "in"
  BY <1>0, DoneOperates DEF RemoveNetworks, Locked
<1>2. LockTypes' /\ Placed'
  BY <1>1, OperatesKeeps
<1>3. WorkTypes'
  BY <1>0, Types DEF RemoveNetworks, WorkTypes, IInv
<1>4. Gated'
  BY <1>1, GatedKept DEF RemoveNetworks, Starting
<1>5. \A u \in Thread : u # t => pc'[u] = pc[u]
  BY <1>0, <1>1 DEF Operates
<1>6. Migrated'
  BY <1>0, <1>1, <1>5 DEF IInv, RemoveNetworks, Migrated, Operates
<1> QED
  BY <1>2, <1>3, <1>4, <1>6 DEF IInv, TypeOK, LockTypes, WorkTypes

LEMMA CheckTeardownStep ==
  ASSUME IInv, NEW t \in Thread, CheckTeardown(t) PROVE IInv'
<1>0. /\ pc[t] = "in" /\ plan[t] # <<>> /\ target[t] \in Project
      /\ pc \in [Thread -> Locked \cup {"out", "mutex", "file"}]
      /\ plan \in [Thread -> Seq(Operation)]
  BY DEF IInv, TypeOK, CheckTeardown, Next1, Placed
<1>1. /\ Operates(t)
      /\ pc'[t] \in {"in", "checked"}
      /\ pc'[t] = "checked" => ~(ProcessOf(t) = Desktop /\ tearing)
  <2>1. CASE ProcessOf(t) = Desktop /\ tearing
    BY <1>0, <2>1, DoneOperates DEF CheckTeardown, Locked
  <2>2. CASE ~(ProcessOf(t) = Desktop /\ tearing)
    <3>1. pc' = [pc EXCEPT ![t] = "checked"] /\ UNCHANGED plan
      BY <2>2 DEF CheckTeardown
    <3>2. plan' = [plan EXCEPT ![t] = plan[t]] /\ plan[t] \in Seq(Operation)
      BY <1>0, <3>1
    <3> QED
      BY <1>0, <2>2, <3>1, <3>2 DEF CheckTeardown, Locked, Operates
  <2> QED
    BY <2>1, <2>2
<1>2. LockTypes' /\ Placed'
  BY <1>1, OperatesKeeps
<1>3. WorkTypes'
  BY Types DEF CheckTeardown, work, WorkTypes, IInv
<1>4. t \in DesktopThread /\ pc'[t] \in Starting => ~tearing
  BY <1>1, ProcessType DEF Starting
<1>5. Gated'
  BY <1>1, <1>4, GatedKept DEF CheckTeardown, work
<1>6. \A u \in Thread : u # t => pc'[u] = pc[u]
  BY <1>0, <1>1 DEF Operates
<1>7. Migrated'
  BY <1>1, <1>6 DEF IInv, CheckTeardown, work, Migrated, Operates
<1> QED
  BY <1>2, <1>3, <1>5, <1>7 DEF IInv, TypeOK, LockTypes, WorkTypes

LEMMA IsolateStep ==
  ASSUME IInv, NEW t \in Thread, Isolate(t) PROVE IInv'
<1>0. /\ pc[t] = "checked" /\ plan[t] # <<>> /\ target[t] \in Project
      /\ pc \in [Thread -> Locked \cup {"out", "mutex", "file"}]
      /\ plan \in [Thread -> Seq(Operation)]
  BY DEF IInv, TypeOK, Isolate, Placed, Locked
<1>1. Operates(t) /\ pc'[t] \in {"in", "start", "migrate"}
  <2>1. CASE Done(t, FALSE)
    BY <1>0, <2>1, DoneOperates DEF Isolate, Locked
  <2>2. CASE ~Done(t, FALSE)
    <3>1. PICK s \in {"start", "migrate"} : pc' = [pc EXCEPT ![t] = s] /\ UNCHANGED plan
      BY <2>2 DEF Isolate
    <3>2. plan' = [plan EXCEPT ![t] = plan[t]] /\ plan[t] \in Seq(Operation)
      BY <1>0, <3>1
    <3> QED
      BY <1>0, <3>1, <3>2 DEF Isolate, Locked, Operates
  <2> QED
    BY <2>1, <2>2
<1>2. LockTypes' /\ Placed'
  BY <1>1, OperatesKeeps
<1>3. \/ settled' = settled
      \/ settled' = settled \cup {Settled(t)} /\ (Settled(t) \in settled \/ target[t] \notin legacy)
  BY DEF Isolate
<1>4. WorkTypes'
  BY <1>0, <1>3, ProcessType, Types DEF Isolate, Settled, WorkTypes, IInv
<1>5. Gated'
  BY <1>0, <1>1, GatedKept DEF Isolate, Starting
<1>6. \A u \in Thread : u # t => pc'[u] = pc[u]
  BY <1>0, <1>1 DEF Operates
<1>7. Migrated'
  BY <1>1, <1>3, <1>6 DEF IInv, Isolate, Settled, Migrated, Operates
<1> QED
  BY <1>2, <1>4, <1>5, <1>7 DEF IInv, TypeOK, LockTypes, WorkTypes

(* Start and Migrate: the stack is up, perhaps in part, by this process.   *)
LEMMA UpGated ==
  ASSUME IInv, NEW t \in Thread, pc[t] \in Starting, Operates(t), pc'[t] \in {"in", "unlink"},
         tearing' = tearing, downed' = downed,
         upBy' = [upBy EXCEPT ![target[t]] = ProcessOf(t)] \/ UNCHANGED upBy
  PROVE  Gated' /\ upBy' \in [Project -> Process \cup {None, Earlier}]
<1>1. upBy \in [Project -> Process \cup {None, Earlier}]
  BY DEF IInv, TypeOK
<1>2. upBy' \in [Project -> Process \cup {None, Earlier}]
  BY <1>1, ProcessType
<1>3. \A p \in Project : upBy'[p] = Desktop =>
         upBy[p] = Desktop \/ (t \in DesktopThread /\ p = target[t])
  BY <1>1, ProcessType
<1> QED
  BY <1>2, <1>3, GatedKept DEF Starting

LEMMA StartStep ==
  ASSUME IInv, NEW t \in Thread, Start(t) PROVE IInv'
<1>0. /\ pc[t] = "start" /\ plan[t] # <<>> /\ target[t] \in Project
      /\ pc \in [Thread -> Locked \cup {"out", "mutex", "file"}]
  BY DEF IInv, TypeOK, Start, Placed, Locked
<1>1. Operates(t) /\ pc'[t] = "in"
  BY <1>0, DoneOperates DEF Start, Locked
<1>2. LockTypes' /\ Placed'
  BY <1>1, OperatesKeeps
<1>3. Gated' /\ upBy' \in [Project -> Process \cup {None, Earlier}]
  BY <1>0, <1>1, UpGated DEF Start, Starting
<1>4. attached' \subseteq attached
  BY DEF Start
<1>5. WorkTypes'
  BY <1>3, <1>4, Types DEF Start, WorkTypes, IInv
<1>6. \A u \in Thread : u # t => pc'[u] = pc[u]
  BY <1>0, <1>1 DEF Operates
<1>7. Migrated'
  BY <1>1, <1>4, <1>6 DEF IInv, Start, Migrated, Operates
<1> QED
  BY <1>2, <1>3, <1>5, <1>7 DEF IInv, TypeOK, LockTypes, WorkTypes

LEMMA MigrateStep ==
  ASSUME IInv, NEW t \in Thread, Migrate(t) PROVE IInv'
<1>0. /\ pc[t] = "migrate" /\ plan[t] # <<>> /\ target[t] \in Project
      /\ pc \in [Thread -> Locked \cup {"out", "mutex", "file"}]
      /\ plan \in [Thread -> Seq(Operation)]
  BY DEF IInv, TypeOK, Migrate, Placed, Locked
<1>1. /\ Operates(t)
      /\ \/ pc'[t] = "in" /\ attached' = attached
         \/ pc'[t] = "unlink" /\ attached' = attached \ {target[t]}
  <2>1. CASE Done(t, FALSE) /\ UNCHANGED attached
    BY <1>0, <2>1, DoneOperates DEF Migrate, Locked
  <2>2. CASE /\ attached' = attached \ {target[t]} /\ UNCHANGED plan
             /\ pc' = [pc EXCEPT ![t] = "unlink"]
    <3>1. plan' = [plan EXCEPT ![t] = plan[t]] /\ plan[t] \in Seq(Operation)
      BY <1>0, <2>2
    <3> QED
      BY <1>0, <2>2, <3>1 DEF Migrate, Locked, Operates
  <2> QED
    BY <2>1, <2>2 DEF Migrate
<1>2. LockTypes' /\ Placed'
  BY <1>1, OperatesKeeps
<1>3. Gated' /\ upBy' \in [Project -> Process \cup {None, Earlier}]
  BY <1>0, <1>1, UpGated DEF Migrate, Starting
<1>4. WorkTypes'
  BY <1>1, <1>3, Types DEF Migrate, WorkTypes, IInv
<1>5. \A u \in Thread : u # t => pc'[u] = pc[u]
  BY <1>0, <1>1 DEF Operates
<1>6. Migrated'
  BY <1>1, <1>5 DEF IInv, Migrate, Migrated, Operates
<1> QED
  BY <1>2, <1>3, <1>4, <1>6 DEF IInv, TypeOK, LockTypes, WorkTypes

LEMMA UnlinkStep ==
  ASSUME IInv, NEW t \in Thread, Unlink(t) PROVE IInv'
<1>0. /\ pc[t] = "unlink" /\ plan[t] # <<>> /\ target[t] \in Project
      /\ pc \in [Thread -> Locked \cup {"out", "mutex", "file"}]
  BY DEF IInv, TypeOK, Unlink, Placed, Locked
<1>1. Operates(t) /\ pc'[t] = "in"
  BY <1>0, DoneOperates DEF Unlink, Locked
<1>2. LockTypes' /\ Placed'
  BY <1>1, OperatesKeeps
<1>3. \/ UNCHANGED <<legacy, settled>>
      \/ legacy' = legacy \ {target[t]} /\ settled' = settled \cup {Settled(t)}
  BY DEF Unlink
<1>4. WorkTypes'
  BY <1>0, <1>3, ProcessType, Types DEF Unlink, Settled, WorkTypes, IInv
<1>5. Gated'
  BY <1>1, GatedKept DEF Unlink, Starting
<1>6. \A u \in Thread : u # t => pc'[u] = pc[u]
  BY <1>0, <1>1 DEF Operates
<1>7. attached' = attached /\ target[t] \notin attached
  BY <1>0 DEF Unlink, IInv, Migrated
<1>8. Migrated'
  BY <1>0, <1>1, <1>3, <1>6, <1>7 DEF IInv, Settled, Migrated, Operates
<1> QED
  BY <1>2, <1>4, <1>5, <1>8 DEF IInv, TypeOK, LockTypes, WorkTypes

-----------------------------------------------------------------------------
(* The lock. Nobody else's place changes, and no stack.                    *)
Relocates(t) ==
  /\ \E s \in {"out", "mutex", "file", "in"} : pc' = [pc EXCEPT ![t] = s]
  /\ \/ target' = target
     \/ \E p \in Project \cup {None} : target' = [target EXCEPT ![t] = p]
  /\ UNCHANGED work

LEMMA RelocatesKeeps ==
  ASSUME IInv, NEW t \in Thread, Relocates(t), t = Exiter /\ pc'[t] # "out" => tearing
  PROVE  /\ WorkTypes' /\ Gated' /\ Migrated'
         /\ \A u \in Thread : u # t => pc'[u] = pc[u] /\ target'[u] = target[u]
<1>1. /\ pc \in [Thread -> Locked \cup {"out", "mutex", "file"}]
      /\ target \in [Thread -> Project \cup {None}]
  BY DEF IInv, TypeOK
<1>2. \A u \in Thread : u # t => pc'[u] = pc[u] /\ target'[u] = target[u]
  BY <1>1 DEF Relocates
<1>3. pc'[t] \in {"out", "mutex", "file", "in"}
  BY <1>1 DEF Relocates
<1>4. WorkTypes'
  BY Types DEF IInv, Relocates, work, WorkTypes
<1>5. pc'[Exiter] # "out" => tearing'
  BY <1>2, ComposeLockAssumption DEF IInv, Gated, Relocates, work
<1>6. Gated'
  BY <1>2, <1>3, <1>5, ComposeLockAssumption DEF IInv, Gated, Relocates, work, Starting
<1>7. Migrated'
  BY <1>2, <1>3 DEF IInv, Migrated, Relocates, work
<1> QED
  BY <1>2, <1>4, <1>6, <1>7

LEMMA BeginStep ==
  ASSUME IInv, NEW t \in Thread, NEW p \in Project, Begin(t, p) PROVE IInv'
<1>0. /\ pc \in [Thread -> Locked \cup {"out", "mutex", "file"}]
      /\ target \in [Thread -> Project \cup {None}]
      /\ plan \in [Thread -> Seq(Operation)]
  BY DEF IInv, TypeOK
<1>1. PICK s \in Plans : plan' = [plan EXCEPT ![t] = s] /\ (t = Exiter => tearing)
  BY DEF Begin
<1>2. pc'[t] = "mutex" /\ target'[t] = p
  BY <1>0 DEF Begin
<1>3. Relocates(t)
  BY DEF Begin, Relocates
<1>4. /\ WorkTypes' /\ Gated' /\ Migrated'
      /\ \A u \in Thread : u # t => pc'[u] = pc[u] /\ target'[u] = target[u]
  BY <1>1, <1>3, RelocatesKeeps
<1>5. \A u \in Thread : u # t => plan'[u] = plan[u]
  BY <1>0, <1>1
<1>6. LockTypes'
  <2>1. ops' \in [Thread -> 0..MaxOps]
    BY ComposeLockAssumption DEF Begin, IInv, TypeOK
  <2>2. plan' \in [Thread -> Seq(Operation)]
    BY <1>0, <1>1, PlanTypes
  <2> QED
    BY <1>0, <2>1, <2>2 DEF Begin, IInv, TypeOK, LockTypes
<1>7. Placed'
  BY <1>2, <1>4, <1>5 DEF Begin, IInv, Placed, Locked
<1> QED
  BY <1>4, <1>6, <1>7 DEF IInv, TypeOK, LockTypes, WorkTypes

LEMMA TakeMutexStep ==
  ASSUME IInv, NEW t \in Thread, TakeMutex(t) PROVE IInv'
<1>0. /\ pc \in [Thread -> Locked \cup {"out", "mutex", "file"}]
      /\ target \in [Thread -> Project \cup {None}]
  BY DEF IInv, TypeOK
<1>1. pc[t] = "mutex" /\ pc'[t] = "file"
  BY <1>0 DEF TakeMutex
<1>2. Relocates(t)
  BY DEF TakeMutex, Relocates
<1>3. /\ WorkTypes' /\ Gated' /\ Migrated'
      /\ \A u \in Thread : u # t => pc'[u] = pc[u] /\ target'[u] = target[u]
  BY <1>1, <1>2, RelocatesKeeps DEF IInv, Gated
<1>4. LockTypes'
  BY <1>0, Types DEF TakeMutex, IInv, LockTypes
<1>5. Placed'
  BY <1>1, <1>3 DEF TakeMutex, IInv, Placed, Locked
<1> QED
  BY <1>3, <1>4, <1>5 DEF IInv, TypeOK, LockTypes, WorkTypes

LEMMA TakeFileStep ==
  ASSUME IInv, NEW t \in Thread, TakeFile(t) PROVE IInv'
<1>0. /\ pc \in [Thread -> Locked \cup {"out", "mutex", "file"}]
      /\ target \in [Thread -> Project \cup {None}]
      /\ file \in [Project -> Thread \cup {None}]
  BY DEF IInv, TypeOK
<1>1. pc[t] = "file" /\ pc'[t] = "in" /\ target[t] \in Project
  BY <1>0 DEF TakeFile, IInv, Placed
<1>2. Relocates(t)
  BY DEF TakeFile, Relocates
<1>3. /\ WorkTypes' /\ Gated' /\ Migrated'
      /\ \A u \in Thread : u # t => pc'[u] = pc[u] /\ target'[u] = target[u]
  BY <1>1, <1>2, RelocatesKeeps DEF IInv, Gated
<1>4. LockTypes'
  BY <1>0, <1>1, Types DEF TakeFile, IInv, LockTypes, Locked
<1>5. file[target[t]] = None /\ file' = [file EXCEPT ![target[t]] = t] /\ target' = target /\ plan' = plan
  BY DEF TakeFile
<1>6. ASSUME NEW u \in Thread
      PROVE  /\ pc'[u] # "out" => target'[u] \in Project
             /\ pc'[u] \in Locked => file'[target'[u]] = u
             /\ pc'[u] \in Locked \ {"in"} => plan'[u] # <<>>
  <2>1. CASE u = t
    BY <1>0, <1>1, <1>5, <2>1
  <2>2. CASE u # t
    <3>1. pc'[u] \in Locked => target[u] # target[t]
      BY <1>3, <1>5, <2>2, ComposeLockAssumption DEF IInv, Placed
    <3> QED
      BY <1>0, <1>1, <1>3, <1>5, <2>2, <3>1 DEF IInv, Placed, Locked
  <2> QED
    BY <2>1, <2>2
<1>7. Placed'
  BY <1>6 DEF Placed
<1> QED
  BY <1>3, <1>4, <1>7 DEF IInv, TypeOK, LockTypes, WorkTypes

(* LockFails, Leave and Die: out, with whatever was held given back.       *)
LEMMA OutStep ==
  ASSUME IInv, NEW t \in Thread, Relocates(t), pc'[t] = "out",
         file' \in [Project -> Thread \cup {None}],
         \A p \in Project : file'[p] = file[p] \/ file[p] = t,
         plan' \in [Thread -> Seq(Operation)],
         \A u \in Thread : u # t => plan'[u] = plan[u],
         held' \in [Thread -> SUBSET Project],
         ops' = ops
  PROVE  IInv'
<1>0. /\ pc \in [Thread -> Locked \cup {"out", "mutex", "file"}]
      /\ target \in [Thread -> Project \cup {None}]
  BY DEF IInv, TypeOK
<1>1. /\ WorkTypes' /\ Gated' /\ Migrated'
      /\ \A u \in Thread : u # t => pc'[u] = pc[u] /\ target'[u] = target[u]
  BY RelocatesKeeps
<1>2. LockTypes'
  <2>1. pc' \in [Thread -> Locked \cup {"out", "mutex", "file"}]
    BY <1>0 DEF Relocates, Locked
  <2>2. target' \in [Thread -> Project \cup {None}]
    BY <1>0 DEF Relocates
  <2>3. ops' \in [Thread -> 0..MaxOps]
    BY DEF IInv, TypeOK
  <2> QED
    BY <2>1, <2>2, <2>3 DEF LockTypes
<1>3. Placed'
  BY <1>1 DEF IInv, Placed, Locked
<1> QED
  BY <1>1, <1>2, <1>3 DEF IInv, TypeOK, LockTypes, WorkTypes

LEMMA LeavesStep ==
  ASSUME IInv, NEW t \in Thread, LockFails(t) \/ Leave(t) \/ Die(t) PROVE IInv'
<1>0. /\ pc \in [Thread -> Locked \cup {"out", "mutex", "file"}]
      /\ plan \in [Thread -> Seq(Operation)] /\ <<>> \in Seq(Operation)
      /\ file \in [Project -> Thread \cup {None}]
      /\ held \in [Thread -> SUBSET Project]
  BY DEF IInv, TypeOK
<1>1. Relocates(t) /\ pc'[t] = "out" /\ ops' = ops
  BY <1>0 DEF LockFails, Leave, Die, Relocates
<1>2. /\ plan' \in [Thread -> Seq(Operation)]
      /\ \A u \in Thread : u # t => plan'[u] = plan[u]
  <2>1. CASE plan' = [plan EXCEPT ![t] = <<>>]
    BY <1>0, <2>1
  <2>2. CASE plan' = plan
    BY <1>0, <2>2
  <2> QED
    BY <2>1, <2>2 DEF LockFails, Leave, Die
<1>3. held' \in [Thread -> SUBSET Project]
  BY <1>0 DEF LockFails, Leave, Die
<1>4. /\ file' \in [Project -> Thread \cup {None}]
      /\ \A p \in Project : file'[p] = file[p] \/ file[p] = t
  <2>1. CASE LockFails(t)
    BY <1>0, <2>1 DEF LockFails
  <2>2. CASE Leave(t)
    BY <1>0, <2>2 DEF Leave, IInv, Placed, Locked
  <2>3. CASE Die(t)
    BY <1>0, <2>3 DEF Die
  <2> QED
    BY <2>1, <2>2, <2>3
<1> QED
  BY <1>1, <1>2, <1>3, <1>4, OutStep

LEMMA BeginTeardownStep ==
  ASSUME IInv, BeginTeardown PROVE IInv'
<1>1. LockTypes' /\ WorkTypes'
  BY Types DEF BeginTeardown, IInv, LockTypes, WorkTypes
<1>2. Placed' /\ Gated' /\ Migrated'
  BY DEF BeginTeardown, IInv, Placed, Gated, Migrated
<1> QED
  BY <1>1, <1>2 DEF IInv, TypeOK, LockTypes, WorkTypes

-----------------------------------------------------------------------------
LEMMA StepInvariant == IInv /\ [Next]_vars => IInv'
<1> SUFFICES ASSUME IInv, [Next]_vars PROVE IInv'
  OBVIOUS
<1>1. ASSUME NEW t \in Thread, NEW p \in Project, Begin(t, p) PROVE IInv'
  BY <1>1, BeginStep
<1>2. ASSUME NEW t \in Thread, Step(t) PROVE IInv'
  BY <1>2, TakeMutexStep, TakeFileStep, LeavesStep, DownStep, RemoveNetworksStep,
     CheckTeardownStep, IsolateStep, StartStep, MigrateStep, UnlinkStep DEF Step
<1>3. ASSUME NEW t \in Thread, Die(t) PROVE IInv'
  BY <1>3, LeavesStep
<1>4. CASE BeginTeardown
  BY <1>4, BeginTeardownStep
<1>5. CASE UNCHANGED vars
  <2>1. LockTypes' /\ WorkTypes'
    BY <1>5, Types DEF vars, IInv, LockTypes, WorkTypes
  <2>2. Placed' /\ Gated' /\ Migrated'
    BY <1>5 DEF vars, IInv, Placed, Gated, Migrated
  <2> QED
    BY <2>1, <2>2 DEF IInv, TypeOK, LockTypes, WorkTypes
<1> QED
  BY <1>1, <1>2, <1>3, <1>4, <1>5 DEF Next

LEMMA Invariance == Spec => []IInv
  BY InitInvariant, StepInvariant, PTL DEF Spec

(* locked.rs and compose_locks.rs keep their state within its types.       *)
THEOREM TypeCorrect == Spec => []TypeOK
  BY Invariance, PTL DEF IInv

(* with_project_compose_lock: whatever the threads and processes, no two   *)
(* transactions of a project overlap.                                      *)
THEOREM TransactionsAlone == Spec => []TransactionsExclude
<1>1. IInv => TransactionsExclude
  BY Exclusion DEF IInv
<1> QED
  BY <1>1, Invariance, PTL

(* refuse_during_engine_teardown under the project's lock: a stack the     *)
(* exit cleanup brought down is not started again by the Desktop.          *)
THEOREM ExitIsFinal == Spec => []DownedStaysDown
<1>1. IInv => DownedStaysDown
  BY DEF IInv, Gated, DownedStaysDown
<1> QED
  BY <1>1, Invariance, PTL

(* start_isolated, isolate_egress_less_networks: a project is settled only *)
(* once its network of the earlier release is gone, with nothing on it.    *)
THEOREM MigrationIsSound == Spec => []SettledIsMigrated
<1>1. IInv => SettledIsMigrated
  BY DEF IInv, Migrated, SettledIsMigrated
<1> QED
  BY <1>1, Invariance, PTL

-----------------------------------------------------------------------------
(* Nobody waits in a circle: the part of TransactionsEnd that fairness has *)
(* no share in.                                                            *)

(* t waits for u: for the mutex of its process, for the lock file, or, if  *)
(* an operation does not find its project in HELD_LOCKS, for itself.       *)
WaitsFor(t, u) ==
  \/ /\ pc[t] = "mutex" /\ u # t
     /\ ProcessOf(u) = ProcessOf(t) /\ target[u] = target[t] /\ pc[u] \notin {"out", "mutex"}
  \/ pc[t] = "file" /\ file[target[t]] = u
  \/ pc[t] = "in" /\ plan[t] # <<>> /\ target[t] \notin held[t] /\ u = t

NoCircle ==
  /\ \A t, u \in Thread : WaitsFor(t, u) => pc[u] # "out"
  /\ \A t, u, v, w \in Thread : ~(WaitsFor(t, u) /\ WaitsFor(u, v) /\ WaitsFor(v, w))

(* Who is inside knows it, and who has a lock file is inside its project.  *)
Holding ==
  /\ \A t \in Thread : pc[t] \in Locked => target[t] \in held[t]
  /\ \A p \in Project, t \in Thread : file[p] = t => Inside(t, p)

LEMMA OperationHolds ==
  ASSUME IInv, Holding, NEW t \in Thread,
         \/ Down(t) \/ RemoveNetworks(t) \/ CheckTeardown(t) \/ Isolate(t)
         \/ Start(t) \/ Migrate(t) \/ Unlink(t)
  PROVE  Holding'
<1>1. pc[t] \in Locked
  BY DEF Down, RemoveNetworks, CheckTeardown, Isolate, Start, Migrate, Unlink, Next1, Locked
<1>2. \E s \in Locked : pc' = [pc EXCEPT ![t] = s]
  BY DEF Down, RemoveNetworks, CheckTeardown, Isolate, Start, Migrate, Unlink, Done, Locked
<1>3. UNCHANGED <<target, file, held>>
  BY DEF Down, RemoveNetworks, CheckTeardown, Isolate, Start, Migrate, Unlink
<1>4. \A u \in Thread : pc'[u] \in Locked <=> pc[u] \in Locked
  BY <1>1, <1>2 DEF IInv, TypeOK
<1> QED
  BY <1>3, <1>4 DEF Holding, Inside

LEMMA LockHolds ==
  ASSUME IInv, Holding, NEW t \in Thread,
         \/ TakeMutex(t) \/ TakeFile(t) \/ LockFails(t) \/ Leave(t) \/ Die(t)
         \/ \E p \in Project : Begin(t, p)
  PROVE  Holding'
<1>0. /\ pc \in [Thread -> Locked \cup {"out", "mutex", "file"}]
      /\ target \in [Thread -> Project \cup {None}]
      /\ file \in [Project -> Thread \cup {None}]
      /\ held \in [Thread -> SUBSET Project]
      /\ None \notin Thread
  BY ComposeLockAssumption DEF IInv, TypeOK
<1>1. CASE TakeMutex(t) \/ LockFails(t) \/ \E p \in Project : Begin(t, p)
  <2>1. /\ pc[t] \notin Locked /\ pc'[t] \notin Locked
        /\ \A u \in Thread : u # t => pc'[u] = pc[u] /\ target'[u] = target[u]
        /\ UNCHANGED <<file, held>>
    BY <1>0, <1>1 DEF TakeMutex, LockFails, Begin, Locked
  <2> QED
    BY <2>1 DEF Holding, Inside
<1>2. CASE TakeFile(t)
  <2>1. /\ target' = target /\ target[t] \in Project
        /\ pc'[t] = "in" /\ target[t] \in held'[t] /\ file[target[t]] = None
        /\ \A u \in Thread : u # t => pc'[u] = pc[u] /\ held'[u] = held[u]
        /\ \A p \in Project : p # target[t] => file'[p] = file[p]
        /\ file'[target[t]] = t /\ pc[t] \notin Locked
    BY <1>0, <1>2 DEF TakeFile, IInv, Placed, Locked
  <2> QED
    BY <2>1 DEF Holding, Inside, Locked
<1>3. CASE Leave(t) \/ Die(t)
  <2>1. /\ pc'[t] = "out"
        /\ \A u \in Thread : u # t => pc'[u] = pc[u] /\ held'[u] = held[u] /\ target'[u] = target[u]
    BY <1>0, <1>3 DEF Leave, Die
  <2>2. \A p \in Project : file'[p] # t /\ (file'[p] \in Thread => file'[p] = file[p])
    <3>1. CASE Leave(t)
      <4>1. file' = [file EXCEPT ![target[t]] = None] /\ target[t] \in Project
        BY <3>1 DEF Leave, IInv, Placed
      <4> QED
        BY <1>0, <4>1 DEF Holding, Inside
    <3>2. CASE Die(t)
      BY <1>0, <3>2 DEF Die
    <3> QED
      BY <1>3, <3>1, <3>2
  <2> QED
    BY <2>1, <2>2 DEF Holding, Inside, Locked
<1> QED
  BY <1>1, <1>2, <1>3

LEMMA HoldingNoCircle == ASSUME IInv, Holding PROVE NoCircle
<1>0. pc \in [Thread -> Locked \cup {"out", "mutex", "file"}]
  BY DEF IInv, TypeOK
<1>1. \A q \in Thread : pc[q] \in Locked => ~\E r \in Thread : WaitsFor(q, r)
  BY DEF Holding, WaitsFor, Locked
<1>2. ASSUME NEW q \in Thread, NEW r \in Thread, pc[q] = "file", WaitsFor(q, r) PROVE pc[r] \in Locked
  <2>1. file[target[q]] = r
    BY <1>2 DEF WaitsFor
  <2>2. target[q] \in Project
    BY <1>2 DEF IInv, Placed
  <2> QED
    BY <2>1, <2>2 DEF Holding, Inside
<1>3. ASSUME NEW t \in Thread, NEW u \in Thread, WaitsFor(t, u) PROVE pc[u] \in Locked \cup {"file"}
  <2>1. CASE pc[t] = "mutex"
    BY <1>0, <1>3, <2>1 DEF WaitsFor
  <2>2. CASE pc[t] = "file"
    BY <1>2, <1>3, <2>2
  <2>3. pc[t] # "out"
    BY <1>3 DEF WaitsFor
  <2>4. pc[t] \notin Locked
    BY <1>1, <1>3
  <2> QED
    BY <1>0, <2>1, <2>2, <2>3, <2>4
<1>4. ASSUME NEW t \in Thread, NEW u \in Thread, NEW v \in Thread, NEW w \in Thread,
             WaitsFor(t, u), WaitsFor(u, v), WaitsFor(v, w)
      PROVE  FALSE
  <2>1. pc[u] = "file"
    BY <1>1, <1>3, <1>4
  <2>2. pc[v] \in Locked
    BY <1>2, <1>4, <2>1
  <2> QED
    BY <1>1, <1>4, <2>2
<1> QED
  BY <1>3, <1>4 DEF NoCircle, Locked

(* with_acquired, HeldGuard and the lock file: whoever waits for a         *)
(* transaction waits for one that goes on, or for one that waits for one   *)
(* that goes on; an operation nested in a transaction does not wait for    *)
(* its own, and a dead CLI or a failed lock leaves nothing to wait for.    *)
THEOREM NobodyWaitsInACircle == Spec => []NoCircle
<1>1. Init => Holding
  BY ComposeLockAssumption DEF Init, Holding, Inside, Locked
<1>2. IInv /\ Holding /\ [Next]_vars => Holding'
  <2> SUFFICES ASSUME IInv, Holding, [Next]_vars PROVE Holding'
    OBVIOUS
  <2>1. CASE UNCHANGED vars
    BY <2>1 DEF vars, Holding, Inside
  <2>2. CASE BeginTeardown
    BY <2>2 DEF BeginTeardown, Holding, Inside
  <2> QED
    BY <2>1, <2>2, OperationHolds, LockHolds DEF Next, Step
<1> QED
  BY <1>1, <1>2, HoldingNoCircle, Invariance, PTL DEF Spec
=============================================================================
