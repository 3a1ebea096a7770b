------------------------ MODULE MigrationRecordProofs ------------------------
(***************************************************************************)
(* The plan status and the VMs that were swapped: the record of a source   *)
(* survives until nobody needs it, and no swapped VM is forgotten.         *)
(***************************************************************************)
EXTENDS MigrationOrderProofs

-----------------------------------------------------------------------------
(* What a step does to a migration and to the worker's copy *)

\* A write of the copy: the object becomes the copy, takes its finalizer, goes
\* because the finalizer does, or stays as it is because the write conflicts.
LEMMA WriteShape ==
  ASSUME TypeInv, PersistMeta \/ PersistStatus
  PROVE  /\ UNCHANGED <<plan, stale, vm, vmim, claim, data>> /\ mw.pc \in {"meta", "status"} /\ mw.m \in Migs
         /\ \/ mw'.pc = "idle" /\ mw' = IdleWorker
            \/ /\ mw'.pc = "status" /\ mw'.m = mw.m /\ mw'.obj = mw.obj
               /\ mw'.sources = mw.sources /\ mw'.sourcesDone = mw.sourcesDone
         /\ \A m \in Migs : m # mw.m => mig'[m] = mig[m]
         /\ \/ mw.m \in stale /\ mig'[mw.m] = mig[mw.m]
            \/ mw.m \notin stale /\ mig'[mw.m] = mw.obj /\ mw'.pc = "idle"
            \/ /\ mw.m \notin stale
               /\ mig'[mw.m].running = mig[mw.m].running /\ mig'[mw.m].completed = mig[mw.m].completed
               /\ mig'[mw.m].cancelled = mig[mw.m].cancelled /\ mig'[mw.m].deleting = mig[mw.m].deleting
               /\ mig'[mw.m].fin = mw.obj.fin
               /\ \/ mig'[mw.m].phase = mig[mw.m].phase
                  \/ mig'[mw.m].phase = "Gone" /\ ~mw.obj.fin /\ mw'.pc = "idle"
<1>1. /\ mw \in Worker /\ mw.obj \in MigObj /\ mig \in [Migs -> MigObj]
      /\ mw.m \in Migs /\ mig[mw.m] \in MigObj
      /\ UNCHANGED <<plan, stale, vm, vmim, claim, data>> /\ mw.pc \in {"meta", "status"}
  BY DEF TypeInv, TypeOK, Worker, PersistMeta, PersistStatus, clusterVars
<1>2. IdleWorker.pc = "idle"
  BY DEF IdleWorker
<1>3. CASE PersistMeta
  <2>. DEFINE o == [mig[mw.m] EXCEPT !.fin = mw.obj.fin, !.owned = mw.obj.owned]
              g == [o EXCEPT !.phase = "Gone"]
              u == [mw EXCEPT !.pc = "status"]
  <2>1. /\ o.running = mig[mw.m].running /\ o.completed = mig[mw.m].completed
        /\ o.cancelled = mig[mw.m].cancelled /\ o.deleting = mig[mw.m].deleting
        /\ o.fin = mw.obj.fin /\ o.phase = mig[mw.m].phase
    BY <1>1 DEF MigObj
  <2>2. /\ g.running = mig[mw.m].running /\ g.completed = mig[mw.m].completed
        /\ g.cancelled = mig[mw.m].cancelled /\ g.deleting = mig[mw.m].deleting
        /\ g.fin = mw.obj.fin /\ g.phase = "Gone"
    BY <1>1 DEF MigObj
  <2>3. /\ u.pc = "status" /\ u.m = mw.m /\ u.obj = mw.obj
        /\ u.sources = mw.sources /\ u.sourcesDone = mw.sourcesDone
    BY <1>1 DEF Worker
  <2>4. \/ mw.m \in stale /\ mig' = mig /\ mw' = IdleWorker
        \/ mw.m \notin stale /\ mig' = [mig EXCEPT ![mw.m] = g] /\ mw' = IdleWorker /\ ~o.fin
        \/ mw.m \notin stale /\ mig' = [mig EXCEPT ![mw.m] = o] /\ (mw' = IdleWorker \/ mw' = u)
    BY <1>3, Zenon DEF PersistMeta
  <2>. HIDE DEF o, g, u
  <2>. QED BY <1>1, <1>2, <2>1, <2>2, <2>3, <2>4
<1>4. CASE PersistStatus
  BY <1>1, <1>2, <1>4 DEF PersistStatus
<1>. QED BY <1>3, <1>4

\* The detour of a copy that is about to be worked on.
Detour(o, p) ==
  \/ p.phase = o.phase
  \/ o.phase = "" /\ p.phase = "Started"
  \/ /\ p.phase = "Canceling" /\ o.phase # "CleanupCancelledMigrations"
     /\ o.deleting /\ ~(plan.exists /\ plan.deleting /\ plan.fin)

\* A reconcile reads the object; nothing but its phase and its finalizer may
\* differ in the copy.
LEMMA ReadShape ==
  ASSUME TypeInv, NEW m \in Migs, Reconcile(m)
  PROVE  /\ UNCHANGED <<mig, plan, vm, vmim, claim, data>> /\ Exists(m) /\ stale' = stale \ {m}
         /\ \/ mw'.pc = "idle" /\ mw' = IdleWorker
            \/ /\ mw'.pc \in {"meta", "status"} /\ mw'.m = m
               /\ mw'.sources = [v \in VMs |-> "none"] /\ mw'.sourcesDone = {}
               /\ \/ SameWork(mw'.obj, mig[m])
                  \/ /\ mw'.obj.running = mig[m].running /\ mw'.obj.completed = mig[m].completed
                     /\ mw'.obj.cancelled = mig[m].cancelled /\ mw'.obj.deleting = mig[m].deleting
                     /\ mig[m].phase \in OverPhases
               /\ mw'.obj.phase = mig[m].phase
            \/ /\ mw'.pc = mw'.obj.phase /\ mw'.m = m /\ SameWork(mw'.obj, mig[m])
               /\ mw'.pc \in TaskPhases /\ mig[m].phase \notin OverPhases /\ Detour(mig[m], mw'.obj)
               /\ plan.exists \/ mig[m].deleting
               /\ mw'.sources = ReadSources /\ mw'.sourcesDone = ReadCompleted
               /\ mw'.todo = LoopOver(mw'.obj, ReadSources)
<1>. DEFINE owned == [mig[m] EXCEPT !.owned = @ \/ plan.exists]
            o == [owned EXCEPT !.phase = TaskPhase(owned)]
            over == [mig[m] EXCEPT !.fin = FALSE]
            fresh == [IdleWorker EXCEPT !.pc = o.phase, !.m = m, !.obj = o,
                        !.sources = ReadSources, !.sourcesDone = ReadCompleted,
                        !.todo = LoopOver(o, ReadSources)]
<1>1. /\ mig[m] \in MigObj /\ UNCHANGED <<mig, plan, vm, vmim, claim, data>> /\ Exists(m) /\ stale' = stale \ {m}
  BY DEF TypeInv, TypeOK, Reconcile, clusterVars
<1>2. ASSUME NEW p \in MigObj, mw' = ToPersist(m, p)
      PROVE  \/ mw'.pc = "idle" /\ mw' = IdleWorker
             \/ /\ mw'.pc \in {"meta", "status"} /\ mw'.m = m /\ mw'.obj = p
                /\ mw'.sources = [v \in VMs |-> "none"] /\ mw'.sourcesDone = {}
  BY <1>2 DEF ToPersist, IdleWorker
<1>3. CASE mig[m].phase \in OverPhases /\ mw' = ToPersist(m, over)
  <2>1. /\ over \in MigObj /\ over.phase = mig[m].phase /\ over.running = mig[m].running
        /\ over.completed = mig[m].completed /\ over.cancelled = mig[m].cancelled
        /\ over.deleting = mig[m].deleting
    BY <1>1 DEF MigObj
  <2>. HIDE DEF over
  <2>. QED BY <1>1, <1>2, <1>3, <2>1
<1>4. owned \in MigObj /\ owned.phase = mig[m].phase /\ SameWork(owned, mig[m])
  BY <1>1 DEF MigObj, TypeInv, TypeOK, PlanObj, SameWork
<1>5. CASE mw' = ToPersist(m, owned)
  <2>. HIDE DEF owned
  <2>. QED BY <1>1, <1>2, <1>4, <1>5
<1>6. CASE mig[m].phase \notin OverPhases /\ (~Blocked \/ mig[m].deleting) /\ mw' = fresh
  <2>. HIDE DEF owned
  <2>1. mig[m].phase \in Phases \ {"Absent", "Gone", "Completed", "Canceled"}
    BY <1>1, <1>6 DEF Exists, OverPhases, MigObj
  <2>2. o.phase = TaskPhase(owned) /\ SameWork(o, owned)
    BY <1>4 DEF MigObj, SameWork
  <2>3. Detour(mig[m], o) /\ o.phase \in TaskPhases
    <3>. HIDE DEF o
    <3>1. owned.deleting = mig[m].deleting
      BY <1>4 DEF SameWork
    <3>2. /\ o.phase \in {mig[m].phase, "Started", "Canceling"}
          /\ o.phase = mig[m].phase => mig[m].phase # ""
      BY <1>4, <2>2 DEF TaskPhase
    <3>3. Detour(mig[m], o)
      BY <1>4, <2>2, <3>1 DEF Detour, TaskPhase
    <3>. QED BY <2>1, <3>2, <3>3 DEF TaskPhases, Phases
  <2>4. SameWork(o, mig[m])
    BY <1>4, <2>2 DEF SameWork
  <2>5. plan.exists \/ mig[m].deleting
    BY <1>6 DEF Blocked
  <2>. HIDE DEF o
  <2>6. /\ mw'.pc = o.phase /\ mw'.m = m /\ mw'.obj = o
        /\ mw'.sources = ReadSources /\ mw'.sourcesDone = ReadCompleted
        /\ mw'.todo = LoopOver(o, ReadSources)
    BY <1>6 DEF IdleWorker
  <2>. QED BY <1>1, <1>6, <2>3, <2>4, <2>5, <2>6
<1>. QED BY <1>3, <1>5, <1>6 DEF Reconcile

\* Creating and deleting migrations.
LEMMA OwnerShape ==
  ASSUME TypeInv, NEW m \in Migs, CreateMigration(m) \/ DeleteMigration(m) \/ CollectGarbage(m)
  PROVE  /\ UNCHANGED <<plan, mw, vm, vmim, claim, data>>
         /\ stale \subseteq stale' /\ (PlanKey \in stale' => PlanKey \in stale)
         /\ \A n \in Migs : n # m => mig'[n] = mig[n]
         /\ mig'[m].running = mig[m].running /\ mig'[m].completed = mig[m].completed
         /\ mig'[m].cancelled = mig[m].cancelled /\ mig'[m].fin = mig[m].fin
         /\ \/ mig[m].phase = "Absent" /\ mig'[m].phase = "" /\ mig'[m].deleting = mig[m].deleting
            \/ /\ m \in stale' /\ mig'[m].phase = mig[m].phase /\ mig[m].fin
               /\ "delete" \in Env \/ plan.deleting \/ ~plan.exists
            \/ /\ m \in stale' /\ mig'[m].phase = "Gone" /\ ~mig[m].fin
               /\ mig'[m].deleting = mig[m].deleting
<1>1. mig \in [Migs -> MigObj] /\ mig[m] \in MigObj
  BY DEF TypeInv, TypeOK
<1>2. CASE CreateMigration(m)
  BY <1>1, <1>2 DEF CreateMigration, MigObj, clusterVars
<1>3. CASE DeleteMigration(m) \/ CollectGarbage(m)
  <2>1. /\ MarkDeleted(m) /\ UNCHANGED <<plan, mw, vm, vmim, claim, data>>
        /\ "delete" \in Env \/ plan.deleting \/ ~plan.exists
    BY <1>3 DEF DeleteMigration, CollectGarbage, clusterVars
  <2>2. m # PlanKey
    BY ClusterAssumption DEF PlanKey
  <2>. QED BY <1>1, <2>1, <2>2 DEF MarkDeleted, MigObj
<1>. QED BY <1>2, <1>3

-----------------------------------------------------------------------------
(* The kinds of steps *)

\* A task ends; it leaves the VMs alone.
TaskEnds ==
  /\ mw.pc \in TaskPhases \cup SwapPCs /\ UNCHANGED <<mig, pw, vm>> /\ PlanAsked
  /\ \E o \in MigObj : Return(o) /\ EndOfTask(o)

\* The loop over the VMs goes on.
LoopStep ==
  /\ mw.pc \in SwapPCs \cup {"Canceling"} /\ UNCHANGED <<mig, plan, stale, pw>> /\ LoopGoesOn
  /\ RunBegin \/ \E v \in VMs : CancelVM(v)

\* A step of the cluster, or none.
ClusterMoves ==
  /\ UNCHANGED <<mig, plan, stale, mw, pw>>
  /\ UNCHANGED clusterVars \/ \E v \in VMs : ClusterStep(v, Existing)

\* What a task's end leaves alone.
LEMMA EndLeavesVMs ==
  ASSUME TypeInv, NEW o, Return(o), o \in MigObj, MigWorkerStep, mw.pc \notin {"meta", "status"}
  PROVE  UNCHANGED vm
<1>1. mw'.pc \in {"idle", "meta", "status"}
  <2>1. mw.pc \notin {"idle", "down"}
    BY DEF MigWorkerStep, RunStarted, RunRefresh, RunWaitForRefresh, RunBegin, BeginSkipVM,
       LiveMigrateCreateDV, LiveMigrateSwap, OfflineMigrateSwap, OfflineMigrateCreateDV, BeginFails,
       BeginDone, SwapPCs, RunWaitForLiveMigration, RunCleanupWaits, RunCleanupFails, RunCleanup,
       RunCanceling, CancelVM, CancelFails, CancelDone, RunCleanupCancelled, PersistMeta, PersistStatus
  <2>. QED BY <2>1, ToPersistType DEF Return, TypeInv
<1>2. mw \in Worker
  BY DEF TypeInv, TypeOK
<1>3. CASE RunBegin
  <2>1. ASSUME NEW v \in VMs, OfflineMigrateSwap(v) PROVE FALSE
    BY <1>1, <1>2, <2>1 DEF OfflineMigrateSwap, Worker
  <2>2. ASSUME LiveMigrateSwap PROVE FALSE
    BY <1>1, <1>2, <2>2 DEF LiveMigrateSwap, Swapped, Worker
  <2>. QED BY <1>3, <2>1, <2>2 DEF RunBegin, BeginSkipVM, LiveMigrateCreateDV, OfflineMigrateCreateDV,
       BeginFails, BeginDone, clusterVars
<1>4. CASE RunCanceling
  <2>1. ASSUME NEW v \in VMs, CancelVM(v) PROVE FALSE
    <3>1. /\ mw.pc = "Canceling"
          /\ \/ mw' = [mw EXCEPT !.todo = @ \ {v}, !.kept = @ \cup {v}]
             \/ mw' = [mw EXCEPT !.todo = @ \ {v}]
      BY <2>1, Zenon DEF CancelVM
    <3>. QED BY <1>1, <1>2, <3>1 DEF Worker
  <2>. QED BY <1>4, <2>1 DEF RunCanceling, CancelFails, CancelDone, clusterVars
<1>. QED BY <1>3, <1>4 DEF MigWorkerStep, RunStarted, RunRefresh, RunWaitForRefresh,
       RunWaitForLiveMigration, RunCleanupWaits, RunCleanupFails, RunCleanup, RunCleanupCancelled,
       PersistMeta, PersistStatus, clusterVars

\* A step of the migration worker is a write, the end of a task or a loop.
LEMMA WorkerKinds ==
  ASSUME TypeInv, CopyInv, MigWorkerStep, UNCHANGED pw
  PROVE  PersistMeta \/ PersistStatus \/ TaskEnds \/ LoopStep
<1>1. CASE mw.pc \in {"meta", "status"}
  BY <1>1 DEF MigWorkerStep, RunStarted, RunRefresh, RunWaitForRefresh, RunBegin, BeginSkipVM,
       LiveMigrateCreateDV, LiveMigrateSwap, OfflineMigrateSwap, OfflineMigrateCreateDV, BeginFails,
       BeginDone, SwapPCs, RunWaitForLiveMigration, RunCleanupWaits, RunCleanupFails, RunCleanup,
       RunCanceling, CancelVM, CancelFails, CancelDone, RunCleanupCancelled
<1>2. ASSUME NEW o \in MigObj, Return(o), EndOfTask(o), mw.pc \in TaskPhases \cup SwapPCs,
             UNCHANGED mig, PlanAsked
      PROVE  TaskEnds
  <2>1. mw.pc \notin {"meta", "status"}
    BY <1>2 DEF TaskPhases, Phases, SwapPCs
  <2>. QED BY <1>2, <2>1, EndLeavesVMs DEF TaskEnds
<1>3. CASE RunBegin
  <2>1. /\ mw.pc \in SwapPCs /\ UNCHANGED <<mig, plan, stale>>
        /\ LoopGoesOn \/ \E o \in MigObj : Return(o) /\ EndOfTask(o)
    BY <1>3, BeginSteps
  <2>. QED BY <1>2, <1>3, <2>1 DEF LoopStep, PlanAsked
<1>4. CASE RunCanceling
  <2>1. /\ mw.pc = "Canceling" /\ UNCHANGED <<mig, plan, stale>>
        /\ LoopGoesOn \/ \E o \in MigObj : Return(o) /\ EndOfTask(o)
    BY <1>4, CancelingSteps
  <2>2. "Canceling" \in TaskPhases
    BY DEF TaskPhases, Phases
  <2>3. CASE \E v \in VMs : CancelVM(v)
    BY <1>2, <2>1, <2>2, <2>3 DEF LoopStep, PlanAsked
  <2>4. CASE \E o \in MigObj : Return(o) /\ EndOfTask(o)
    BY <1>2, <2>1, <2>2, <2>4 DEF PlanAsked
  <2>5. CASE CancelFails \/ CancelDone
    <3>1. \E o : Return(o)
      BY <2>5 DEF CancelFails, CancelDone
    <3>2. mw'.pc # "Canceling"
      BY <3>1 DEF Return, ToPersist, IdleWorker
    <3>3. ~LoopGoesOn
      BY <2>1, <3>2 DEF LoopGoesOn, SwapPCs
    <3>. QED BY <2>1, <2>4, <3>3
  <2>. QED BY <1>4, <2>3, <2>5 DEF RunCanceling
<1>5. CASE RunStarted \/ RunRefresh \/ RunWaitForRefresh \/ RunWaitForLiveMigration
           \/ RunCleanupWaits \/ RunCleanupFails \/ RunCleanup \/ RunCleanupCancelled
  BY <1>2, <1>5, SingleSteps
<1>. QED BY <1>3, <1>4, <1>5 DEF MigWorkerStep

\* Every step is of one of these kinds.
LEMMA StepKinds ==
  ASSUME TypeInv, CopyInv, [Next]_vars
  PROVE  \/ \E m \in Migs : Reconcile(m) /\ UNCHANGED pw
         \/ (PersistMeta \/ PersistStatus) /\ UNCHANGED pw
         \/ TaskEnds
         \/ LoopStep
         \/ PlanReconcile
         \/ PlanWorkerStep
         \/ ClusterMoves
         \/ \E m \in Migs : (CreateMigration(m) \/ DeleteMigration(m) \/ CollectGarbage(m)) /\ UNCHANGED pw
         \/ DeletePlan
         \/ Crash \/ Restart
<1>1. CASE UNCHANGED vars
  BY <1>1 DEF vars, ClusterMoves, clusterVars
<1>2. CASE \E v \in VMs : ClusterStep(v, Existing) /\ UNCHANGED <<mig, plan, stale, mw, pw>>
  BY <1>2 DEF ClusterMoves
<1>3. CASE \E m \in Migs : CreateMigration(m) \/ DeleteMigration(m) \/ CollectGarbage(m)
  BY <1>3 DEF CreateMigration, DeleteMigration, CollectGarbage
<1>4. CASE MigWorkerStep /\ UNCHANGED pw
  BY <1>4, WorkerKinds
<1>. QED BY <1>1, <1>2, <1>3, <1>4 DEF Next

\* The plan controller leaves the migrations and the cluster alone.
LEMMA PlanSteps ==
  ASSUME PlanReconcile \/ PlanWorkerStep
  PROVE  /\ UNCHANGED <<mig, mw, vm, vmim, claim, data>>
         /\ UNCHANGED stale \/ stale' = stale \ {PlanKey}
BY DEF PlanReconcile, PlanReconcileDeleting, PlanReconcileCompleted, PlanReconcileOpen,
   PlanReconcileFails, PlanReconcileStarts, PlanWorkerStep, PersistPlanMeta, PersistPlanStatus, clusterVars

\* The end of a task, with the copy it returns.
LEMMA EndShape ==
  ASSUME TypeInv, TaskEnds
  PROVE  /\ mw.pc \notin {"idle", "down"} /\ mw.m \in Migs /\ stale \subseteq stale'
         /\ \A m \in Migs : m \in stale' => m \in stale
         /\ \E o \in MigObj :
              /\ EndOfTask(o)
              /\ \/ mw'.pc = "idle" /\ mw' = IdleWorker
                 \/ /\ mw'.pc \in {"meta", "status"} /\ mw'.m = mw.m /\ mw'.obj = o
                    /\ mw'.sources = [v \in VMs |-> "none"] /\ mw'.sourcesDone = {}
<1>1. PICK o \in MigObj : Return(o) /\ EndOfTask(o)
  BY DEF TaskEnds
<1>2. mw.pc \notin {"idle", "down"} /\ mw.m \in Migs
  BY DEF TaskEnds, TaskPhases, Phases, SwapPCs, TypeInv
<1>3. \/ mw'.pc = "idle" /\ mw' = IdleWorker
      \/ /\ mw'.pc \in {"meta", "status"} /\ mw'.m = mw.m /\ mw'.obj = o
         /\ mw'.sources = [v \in VMs |-> "none"] /\ mw'.sourcesDone = {}
  BY <1>1 DEF Return, ToPersist, IdleWorker
<1>4. PlanKey \notin Migs
  BY ClusterAssumption DEF PlanKey
<1>. QED BY <1>1, <1>2, <1>3, <1>4 DEF TaskEnds, PlanAsked

-----------------------------------------------------------------------------
(* The finalizer and the phases it covers *)

\* Phases of a migration that has its finalizer.
FinalizedPhases == {"RefreshStorageMigrationPlan", "WaitForStorageMigrationPlanRefreshCompletion",
                    "BeginLiveMigration", "WaitForLiveMigrationToComplete"}

\* Where the worker runs the task of the phase the object is in.
OwnPhasePCs == (TaskPhases \ {"Started", "Canceling"}) \cup SwapPCs

(***************************************************************************)
(* From the refresh to the wait a migration has its finalizer, so that a   *)
(* delete cannot take the object from a worker that swaps volumes.         *)
(***************************************************************************)
FinalizerInv ==
  /\ \A m \in Migs : mig[m].phase \in FinalizedPhases => mig[m].fin
  /\ Current /\ mw.obj.phase \in FinalizedPhases => mw.obj.fin
  /\ Current /\ ~mw.obj.fin => mig[mw.m].phase \notin FinalizedPhases
  /\ mw.pc \in OwnPhasePCs =>
       \/ mig[mw.m].phase = mw.obj.phase
       \/ mig[mw.m].phase = "Gone" /\ mw.obj.phase \notin FinalizedPhases

\* A step of which the worker knows nothing.
LEMMA FinalizerLeft ==
  ASSUME TypeInv, CopyInv, FinalizerInv, UNCHANGED mw,
         mw.m \in Migs /\ mw.m \notin stale' => mw.m \notin stale,
         \A m \in Migs : \/ mig'[m] = mig[m]
                         \/ /\ mig'[m].fin = mig[m].fin
                            /\ \/ mig[m].phase = "Absent" /\ mig'[m].phase = ""
                               \/ m \in stale' /\ mig'[m].phase = mig[m].phase
                               \/ m \in stale' /\ mig'[m].phase = "Gone" /\ ~mig[m].fin
  PROVE  FinalizerInv'
<1>1. mw.pc \notin {"idle", "down"} => mw.m \in Migs
  BY DEF TypeInv
<1>2. Current' => Current /\ mw.m \in Migs
  BY <1>1 DEF Current
<1>3. \A m \in Migs : mig'[m].phase \in FinalizedPhases => mig'[m].fin
  BY DEF FinalizerInv, FinalizedPhases
<1>4. Current' => Exists(mw.m)
  BY <1>2 DEF CopyInv, CopyAhead
<1>5. Current' => mig'[mw.m].phase = mig[mw.m].phase
  BY <1>2, <1>4 DEF Exists, Current
<1>6. ASSUME mw.pc \in OwnPhasePCs
      PROVE  \/ mig'[mw.m].phase = mw.obj.phase
             \/ mig'[mw.m].phase = "Gone" /\ mw.obj.phase \notin FinalizedPhases
  <2>1. /\ mw.m \in Migs /\ mw.obj.phase \notin {"", "Absent", "Gone"}
        /\ \/ mig[mw.m].phase = mw.obj.phase
           \/ mig[mw.m].phase = "Gone" /\ mw.obj.phase \notin FinalizedPhases
        /\ mig[mw.m].phase \in FinalizedPhases => mig[mw.m].fin
    BY <1>1, <1>6 DEF OwnPhasePCs, TaskPhases, SwapPCs, Phases, CopyInv, TaskOfPhase, FinalizerInv
  <2>. QED BY <2>1
<1>. QED BY <1>2, <1>3, <1>5, <1>6 DEF FinalizerInv

\* Every step keeps it.
LEMMA FinalizerInvNext ==
  ASSUME TypeInv, CopyInv, FinalizerInv, [Next]_vars
  PROVE  FinalizerInv'
<1>1. ASSUME NEW m \in Migs, Reconcile(m) PROVE FinalizerInv'
  <2>1. /\ UNCHANGED mig
        /\ Current' => /\ mw'.m = m
                       /\ mw'.obj.phase \in {mig[m].phase, "Started", "Canceling"}
                       /\ mw'.obj.fin = mig[m].fin \/ mig[m].phase \in OverPhases
    BY <1>1, ReadShape DEF Current, Detour, SameWork
  <2>2. ASSUME mw'.pc \in OwnPhasePCs PROVE mig[mw'.m].phase = mw'.obj.phase
    <3>1. mw'.pc \notin {"idle", "meta", "status", "Started", "Canceling"}
      BY <2>2 DEF OwnPhasePCs, TaskPhases, Phases, SwapPCs
    <3>. QED BY <1>1, <3>1, ReadShape DEF Detour
  <2>3. mig[m].phase \in OverPhases => mig[m].phase \notin FinalizedPhases
    BY DEF OverPhases, FinalizedPhases
  <2>4. "Started" \notin FinalizedPhases /\ "Canceling" \notin FinalizedPhases
    BY DEF FinalizedPhases
  <2>. QED BY <2>1, <2>2, <2>3, <2>4 DEF FinalizerInv
<1>2. CASE PersistMeta \/ PersistStatus
  <2>1. /\ mw.m \in Migs /\ mw.m \notin stale => Current
    BY <1>2, WriteShape DEF Current
  <2>2. \A m \in Migs : mig'[m].phase \in FinalizedPhases => mig'[m].fin
    BY <1>2, <2>1, WriteShape DEF FinalizerInv, FinalizedPhases
  <2>3. Current' => Current /\ mw'.m = mw.m /\ mw'.obj = mw.obj /\ mig'[mw.m].phase = mig[mw.m].phase
    BY <1>2, WriteShape DEF Current
  <2>4. mw'.pc \notin OwnPhasePCs
    BY <1>2, WriteShape DEF OwnPhasePCs, TaskPhases, Phases, SwapPCs
  <2>. QED BY <2>2, <2>3, <2>4 DEF FinalizerInv
<1>3. CASE TaskEnds
  <2>1. PICK o \in MigObj : /\ EndOfTask(o)
                            /\ \/ mw'.pc = "idle"
                               \/ mw'.pc \in {"meta", "status"} /\ mw'.m = mw.m /\ mw'.obj = o
    BY <1>3, EndShape
  <2>2. UNCHANGED mig
    BY <1>3 DEF TaskEnds
  <2>3. Current' => Current /\ mw'.m = mw.m /\ mw'.obj = o
    BY <1>3, <2>1, EndShape DEF Current
  <2>4. o.phase \in FinalizedPhases => o.fin \/ (o.fin = mw.obj.fin /\ mw.obj.phase \in FinalizedPhases)
    BY <2>1 DEF EndOfTask, Carries, FinalizedPhases
  <2>5. ASSUME Current, ~o.fin PROVE mig[mw.m].phase \notin FinalizedPhases
    <3>1. CASE mw.obj.phase = "CleanupMigrationResources"
      <4>1. mw.pc \in OwnPhasePCs
        BY <1>3, <3>1 DEF TaskEnds, OwnPhasePCs, CopyInv, TaskOfPhase
      <4>. QED BY <3>1, <4>1 DEF FinalizerInv, FinalizedPhases
    <3>2. CASE o.fin = mw.obj.fin
      BY <2>5, <3>2 DEF FinalizerInv
    <3>. QED BY <2>1, <2>5, <3>1, <3>2 DEF EndOfTask, Carries
  <2>6. mw'.pc \notin OwnPhasePCs
    BY <2>1 DEF OwnPhasePCs, TaskPhases, Phases, SwapPCs
  <2>. QED BY <2>2, <2>3, <2>4, <2>5, <2>6 DEF FinalizerInv
<1>4. CASE LoopStep
  <2>1. /\ UNCHANGED <<mig, stale>> /\ mw'.m = mw.m /\ mw'.obj.phase = mw.obj.phase
        /\ mw'.obj.fin = mw.obj.fin
        /\ (mw'.pc \in SwapPCs /\ mw.pc \in SwapPCs) \/ mw'.pc = "Canceling"
    BY <1>4 DEF LoopStep, LoopGoesOn
  <2>2. Current' => Current
    BY <1>4, <2>1 DEF Current, LoopStep, SwapPCs
  <2>3. mw'.pc \in OwnPhasePCs => mw.pc \in OwnPhasePCs
    BY <2>1 DEF OwnPhasePCs, TaskPhases, Phases, SwapPCs
  <2>. QED BY <2>1, <2>2, <2>3 DEF FinalizerInv
<1>5. CASE PlanReconcile \/ PlanWorkerStep
  <2>1. PlanKey \notin Migs
    BY ClusterAssumption DEF PlanKey
  <2>. QED BY <1>5, <2>1, PlanSteps, FinalizerLeft
<1>6. CASE ClusterMoves \/ DeletePlan
  BY <1>6, FinalizerLeft DEF ClusterMoves, DeletePlan
<1>7. CASE \E m \in Migs : CreateMigration(m) \/ DeleteMigration(m) \/ CollectGarbage(m)
  <2>1. PICK m \in Migs : CreateMigration(m) \/ DeleteMigration(m) \/ CollectGarbage(m)
    BY <1>7
  <2>2. \A n \in Migs : \/ mig'[n] = mig[n]
                        \/ /\ mig'[n].fin = mig[n].fin
                           /\ \/ mig[n].phase = "Absent" /\ mig'[n].phase = ""
                              \/ n \in stale' /\ mig'[n].phase = mig[n].phase
                              \/ n \in stale' /\ mig'[n].phase = "Gone" /\ ~mig[n].fin
    BY <2>1, OwnerShape
  <2>3. UNCHANGED mw /\ stale \subseteq stale'
    BY <2>1, OwnerShape
  <2>. QED BY <2>2, <2>3, FinalizerLeft
<1>8. CASE Crash \/ Restart
  <2>1. mw'.pc \in {"idle", "down"} /\ UNCHANGED mig
    BY <1>8 DEF Crash, Restart, IdleWorker
  <2>. QED BY <2>1 DEF FinalizerInv, Current, OwnPhasePCs, TaskPhases, Phases, SwapPCs
<1>. QED BY <1>1, <1>2, <1>3, <1>4, <1>5, <1>6, <1>7, <1>8, StepKinds

\* In an initial state no migration has begun.
LEMMA FinalizerInvInit == Init => FinalizerInv
<1>. SUFFICES ASSUME Init PROVE FinalizerInv
  OBVIOUS
<1>1. mw.pc = "idle" /\ \A m \in Migs : mig[m].phase \in {"Absent", ""}
  BY DEF Init, MigInit, IdleWorker, NoMig
<1>. QED BY <1>1 DEF FinalizerInv, FinalizedPhases, Current, OwnPhasePCs, TaskPhases, Phases, SwapPCs

\* While the loop of BeginLiveMigration runs the object is in that phase.
LEMMA SwapsInBegin ==
  ASSUME CopyInv, FinalizerInv, mw.pc \in SwapPCs
  PROVE  mig[mw.m].phase = "BeginLiveMigration" /\ mw.obj.phase = "BeginLiveMigration"
BY DEF CopyInv, TaskOfPhase, FinalizerInv, OwnPhasePCs, FinalizedPhases

-----------------------------------------------------------------------------
(* Without a delete call by the user nothing is cancelled *)

NoDelete == "delete" \notin Env

CancelingPhases == {"Canceling"} \cup CancelPhases

\* No VM of the migration is or will be cancelled.
Uncancelled(o) == o.cancelled = {} /\ (o.phase \in CancelingPhases => o.running = {})

\* The plan is being deleted, or was.
Leaving == plan.deleting \/ ~plan.exists

(***************************************************************************)
(* A migration nobody deletes is only deleted after its plan, by the       *)
(* garbage collector, and maybeTransitionToCanceling waits for the         *)
(* finalizer of the plan: by then no VM of it is running.                  *)
(***************************************************************************)
NoCancelInv ==
  /\ \A m \in Migs : Uncancelled(mig[m]) /\ (mig[m].deleting => Leaving)
  /\ Uncancelled(mw.obj) /\ (mw.obj.deleting => Leaving)
  /\ pw.pc \in {"meta", "status"} /\ PlanKey \notin stale => pw.obj.deleting = plan.deleting

\* An idle worker's copy.
LEMMA IdleCopy ==
  /\ IdleWorker.pc = "idle" /\ ~IdleWorker.obj.deleting /\ IdleWorker.obj.running = {}
  /\ IdleWorker.obj.completed = {} /\ IdleWorker.obj.cancelled = {} /\ IdleWorker.sourcesDone = {}
BY DEF IdleWorker, NoMig

\* How a step may change the plan other than by its controller's writes.
LEMMA AskedShape ==
  ASSUME TypeInv, PlanAsked
  PROVE  /\ plan'.exists = plan.exists /\ plan'.deleting = plan.deleting /\ plan'.fin = plan.fin
         /\ plan'.list = plan.list /\ plan'.rec = plan.rec /\ plan'.completed = plan.completed
         /\ PlanKey \notin stale' => PlanKey \notin stale /\ plan' = plan
<1>1. plan \in PlanObj
  BY DEF TypeInv, TypeOK
<1>. QED BY <1>1 DEF PlanAsked, PlanObj

\* The writes of the plan's controller.
LEMMA PlanWriteShape ==
  ASSUME TypeInv, PlanInv, PlanWorkerStep
  PROVE  /\ UNCHANGED <<mig, stale, mw, vm, vmim, claim, data>>
         /\ \/ plan' = plan /\ pw' = IdlePlanWorker
            \/ plan' = NoPlan /\ pw' = IdlePlanWorker
            \/ /\ PlanKey \notin stale /\ pw.pc \in {"meta", "status"}
               /\ plan'.exists = plan.exists
               /\ \/ plan' = pw.obj /\ pw' = IdlePlanWorker
                  \/ /\ plan'.list = plan.list /\ plan'.rec = plan.rec
                     /\ plan'.completed = plan.completed /\ plan'.deleting = plan.deleting
                     /\ pw' = IdlePlanWorker \/ (pw'.pc = "status" /\ pw'.obj = pw.obj)
<1>1. plan \in PlanObj /\ pw \in PlanWorker
  BY DEF TypeInv, TypeOK
<1>2. UNCHANGED <<mig, stale, mw, vm, vmim, claim, data>>
  BY DEF PlanWorkerStep, PersistPlanMeta, PersistPlanStatus, clusterVars
<1>3. CASE PersistPlanMeta
  <2>. DEFINE p == [plan EXCEPT !.fin = pw.obj.fin, !.refresh = pw.obj.refresh]
              u == [pw EXCEPT !.pc = "status"]
  <2>1. /\ p.exists = plan.exists /\ p.deleting = plan.deleting /\ p.list = plan.list
        /\ p.rec = plan.rec /\ p.completed = plan.completed
    BY <1>1 DEF PlanObj
  <2>2. u.pc = "status" /\ u.obj = pw.obj
    BY <1>1 DEF PlanWorker
  <2>3. /\ pw.pc = "meta"
        /\ \/ plan' = plan /\ pw' = IdlePlanWorker
           \/ plan' = NoPlan /\ pw' = IdlePlanWorker
           \/ PlanKey \notin stale /\ plan' = p /\ (pw' = IdlePlanWorker \/ pw' = u)
    BY <1>3, Zenon DEF PersistPlanMeta
  <2>. HIDE DEF p, u
  <2>. QED BY <1>2, <2>1, <2>2, <2>3
<1>4. CASE PersistPlanStatus
  <2>1. PlanKey \notin stale => plan.exists /\ pw.obj.exists
    BY <1>4 DEF PlanInv, PersistPlanStatus
  <2>2. plan.exists \in BOOLEAN /\ pw.obj.exists \in BOOLEAN
    BY <1>1 DEF PlanObj, PlanWorker
  <2>. QED BY <1>2, <1>4, <2>1, <2>2 DEF PersistPlanStatus
<1>. QED BY <1>3, <1>4 DEF PlanWorkerStep

\* Every step keeps it.
LEMMA NoCancelInvNext ==
  ASSUME NoDelete, TypeInv, CopyInv, PlanInv, NoCancelInv, [Next]_vars
  PROVE  NoCancelInv'
<1>1. IdlePlanWorker.pc = "idle" /\ ~NoPlan.exists
  BY DEF IdlePlanWorker, NoPlan
<1>2. ASSUME NEW m \in Migs, Reconcile(m), UNCHANGED pw PROVE NoCancelInv'
  <2>1. UNCHANGED <<mig, plan>> /\ stale' = stale \ {m} /\ m # PlanKey
    BY <1>2, ReadShape, ClusterAssumption DEF PlanKey
  <2>2. Uncancelled(mig[m]) /\ (mig[m].deleting => Leaving)
    BY DEF NoCancelInv
  <2>3. ASSUME mig[m].deleting, ~(plan.exists /\ plan.deleting /\ plan.fin) PROVE mig[m].running = {}
    <3>1. ~plan.exists \/ ~plan.fin
      BY <2>2, <2>3 DEF Leaving
    <3>2. NoWork
      BY <3>1 DEF PlanInv
    <3>3. m \in Existing
      BY <1>2, ReadShape DEF Existing
    <3>. QED BY <3>2, <3>3 DEF NoWork, Harmless
  <2>4. CASE mw' = IdleWorker
    BY <1>2, <2>1, <2>4, IdleCopy DEF NoCancelInv, Uncancelled, Leaving, CancelPhases
  <2>5. CASE /\ mw'.obj.running = mig[m].running /\ mw'.obj.cancelled = mig[m].cancelled
             /\ mw'.obj.deleting = mig[m].deleting
             /\ Detour(mig[m], mw'.obj)
    <3>1. Uncancelled(mw'.obj)
      BY <2>2, <2>3, <2>5 DEF Uncancelled, Detour, CancelingPhases, CancelPhases
    <3>. QED BY <1>2, <2>1, <2>2, <2>5, <3>1 DEF NoCancelInv, Leaving, Uncancelled
  <2>. QED BY <1>2, <2>4, <2>5, ReadShape DEF SameWork, Detour
<1>3. CASE (PersistMeta \/ PersistStatus) /\ UNCHANGED pw
  <2>1. UNCHANGED <<plan, stale>> /\ mw.m \in Migs
    BY <1>3, WriteShape
  <2>2. Uncancelled(mw'.obj) /\ (mw'.obj.deleting => Leaving)
    <3>1. mw' = IdleWorker \/ mw'.obj = mw.obj
      BY <1>3, WriteShape
    <3>. QED BY <3>1, IdleCopy DEF NoCancelInv, Uncancelled
  <2>3. ASSUME NEW m \in Migs PROVE Uncancelled(mig'[m]) /\ (mig'[m].deleting => Leaving)
    BY <1>3, WriteShape DEF NoCancelInv, Uncancelled, CancelingPhases, CancelPhases
  <2>. QED BY <1>3, <2>1, <2>2, <2>3 DEF NoCancelInv, Leaving, Uncancelled
<1>4. CASE TaskEnds
  <2>1. PICK o \in MigObj : EndOfTask(o) /\ (mw' = IdleWorker \/ mw'.obj = o)
    BY <1>4, EndShape
  <2>2. Uncancelled(o)
    BY <2>1 DEF EndOfTask, Carries, NoCancelInv, Uncancelled, CancelingPhases, CancelPhases
  <2>3. o.deleting => Leaving
    BY <2>1 DEF EndOfTask, Carries, NoCancelInv
  <2>4. UNCHANGED <<mig, pw>> /\ PlanAsked
    BY <1>4 DEF TaskEnds
  <2>5. Leaving => Leaving'
    BY <2>4, AskedShape DEF Leaving
  <2>6. Uncancelled(mw'.obj) /\ (mw'.obj.deleting => Leaving)
    BY <2>1, <2>2, <2>3, IdleCopy DEF Uncancelled
  <2>. QED BY <2>4, <2>5, <2>6, AskedShape DEF NoCancelInv, Uncancelled
<1>5. CASE LoopStep
  <2>1. UNCHANGED <<mig, plan, stale, pw>>
    BY <1>5 DEF LoopStep
  <2>2. Uncancelled(mw'.obj) /\ (mw'.obj.deleting => Leaving)
    <3>1. /\ mw'.obj.cancelled = mw.obj.cancelled /\ mw'.obj.deleting = mw.obj.deleting
          /\ mw'.obj = mw.obj \/ mw'.obj.phase = "BeginLiveMigration"
      BY <1>5 DEF LoopStep, LoopGoesOn, CopyInv, TaskOfPhase
    <3>. QED BY <3>1 DEF NoCancelInv, Uncancelled, CancelingPhases, CancelPhases
  <2>. QED BY <2>1, <2>2 DEF NoCancelInv, Leaving, Uncancelled
<1>6. CASE PlanReconcile
  <2>1. /\ UNCHANGED <<mig, plan, mw>>
        /\ pw'.pc \in {"meta", "status"} => pw'.obj.deleting = plan.deleting
    BY <1>6, PlanReconcileShape DEF Kept
  <2>. QED BY <2>1 DEF NoCancelInv, Leaving, Uncancelled
<1>7. CASE PlanWorkerStep
  <2>1. UNCHANGED <<mig, mw, stale>>
    BY <1>7, PlanWriteShape
  <2>2. Leaving => Leaving'
    BY <1>1, <1>7, PlanWriteShape DEF Leaving, NoCancelInv
  <2>3. pw'.pc \in {"meta", "status"} /\ PlanKey \notin stale => pw'.obj.deleting = plan'.deleting
    BY <1>1, <1>7, PlanWriteShape DEF NoCancelInv
  <2>. QED BY <2>1, <2>2, <2>3 DEF NoCancelInv, Uncancelled
<1>8. CASE ClusterMoves
  BY <1>8 DEF ClusterMoves, NoCancelInv, Leaving, Uncancelled
<1>9. ASSUME NEW m \in Migs, CreateMigration(m) \/ DeleteMigration(m) \/ CollectGarbage(m), UNCHANGED pw
      PROVE  NoCancelInv'
  <2>1. UNCHANGED <<plan, mw>> /\ (PlanKey \notin stale' => PlanKey \notin stale)
    BY <1>9, OwnerShape
  <2>2. ASSUME NEW n \in Migs PROVE Uncancelled(mig'[n]) /\ (mig'[n].deleting => Leaving)
    BY <1>9, OwnerShape DEF NoDelete, Leaving, NoCancelInv, Uncancelled, CancelingPhases, CancelPhases
  <2>. QED BY <1>9, <2>1, <2>2 DEF NoCancelInv, Leaving, Uncancelled
<1>10. CASE DeletePlan
  <2>1. plan \in PlanObj
    BY DEF TypeInv, TypeOK
  <2>2. UNCHANGED <<mig, mw, pw>> /\ PlanKey \in stale' /\ Leaving'
    BY <1>1, <1>10, <2>1 DEF DeletePlan, Leaving, PlanObj
  <2>. QED BY <2>2 DEF NoCancelInv, Uncancelled
<1>11. CASE Crash \/ Restart
  <2>1. /\ UNCHANGED <<mig, plan, stale>> /\ pw'.pc \notin {"meta", "status"}
        /\ mw'.obj = IdleWorker.obj
    BY <1>11 DEF Crash, Restart, IdleWorker, IdlePlanWorker
  <2>. QED BY <2>1, IdleCopy DEF NoCancelInv, Leaving, Uncancelled
<1>. QED BY <1>2, <1>3, <1>4, <1>5, <1>6, <1>7, <1>8, <1>9, <1>10, <1>11, StepKinds

\* In an initial state there is nothing to cancel.
LEMMA NoCancelInvInit == Init => NoCancelInv
<1>. SUFFICES ASSUME Init PROVE NoCancelInv
  OBVIOUS
<1>1. mw = IdleWorker /\ pw.pc = "idle"
  BY DEF Init, MigInit, PlanInit, IdlePlanWorker
<1>2. \A m \in Migs : mig[m].running = {} /\ mig[m].cancelled = {} /\ ~mig[m].deleting
  BY DEF Init, MigInit, NoMig
<1>. QED BY <1>1, <1>2, IdleCopy DEF NoCancelInv, Uncancelled

-----------------------------------------------------------------------------
(* The record of a source in the plan status *)

\* No entry is invalid or records a target, and a source belongs to an entry.
Sound(p) ==
  \A v \in VMs : /\ p.list[v] # "invalid" /\ p.rec[v] # "tgt" /\ <<v, "tgt">> \notin p.completed
                 /\ p.list[v] = "none" => p.rec[v] = "none"

\* The source of v is recorded where getExistingStatusVMMap finds it.
Recorded(p, v) ==
  <<v, "src">> \in p.completed \/ (p.rec[v] = "src" /\ <<v, "none">> \notin p.completed)

\* What getExistingStatusVMMap returns for a sound plan status.
LEMMA ExistingRecord ==
  ASSUME NEW p \in PlanObj, Sound(p), NEW v \in VMs
  PROVE  ExistingStatus(p, v) = IF Recorded(p, v) THEN "src" ELSE "none"
<1>. DEFINE comp == {e[2] : e \in {f \in p.completed : f[1] = v}}
<1>1. /\ p.list[v] # "invalid" /\ p.rec[v] \in {"src", "none"} /\ <<v, "tgt">> \notin p.completed
      /\ p.completed \subseteq VMs \X {"src", "tgt", "none"}
  BY DEF Sound, PlanObj, Sources, Claims
<1>2. \A s : s \in comp <=> <<v, s>> \in p.completed
  BY <1>1
<1>3. comp \subseteq {"src", "none"}
  BY <1>1, <1>2
<1>4. ExistingStatus(p, v) =
        CASE p.list[v] = "invalid" -> p.rec[v]
          [] p.list[v] # "invalid" /\ comp # {} ->
               IF comp = {"none"} THEN "none" ELSE CHOOSE s \in comp : s # "none"
          [] OTHER -> p.rec[v]
  BY DEF ExistingStatus
<1>. HIDE DEF comp
<1>5. CASE comp = {}
  BY <1>1, <1>2, <1>4, <1>5 DEF Recorded
<1>6. CASE comp = {"none"}
  <2>1. <<v, "none">> \in p.completed /\ <<v, "src">> \notin p.completed
    BY <1>2, <1>6
  <2>. QED BY <1>1, <1>4, <1>6, <2>1 DEF Recorded
<1>7. CASE comp # {} /\ comp # {"none"}
  <2>1. "src" \in comp
    BY <1>3, <1>7
  <2>2. (CHOOSE s \in comp : s # "none") = "src"
    BY <1>3, <2>1
  <2>. QED BY <1>1, <1>2, <1>4, <1>7, <2>1, <2>2 DEF Recorded
<1>. QED BY <1>5, <1>6, <1>7

AllFit == \A v \in VMs : vm[v].fit

\* Every swapped VM has its source recorded.
SwappedRecorded(p) == \A v \in VMs : vm[v].spec = "tgt" => Recorded(p, v)

\* Every entry has its source.
SourcesListed(p) == \A v \in VMs : p.list[v] # "none" => p.rec[v] = "src"

\* validateStorageMigrationPossible keeps what is recorded, as an entry of the
\* ready or the in-progress list, and records no target.
LEMMA ValidatedRecord ==
  ASSUME TypeInv, AllFit, NEW p \in PlanObj, Sound(p), SwappedRecorded(p), NEW st, NEW knows,
         NEW source, source = [v \in VMs |-> CreateStatusVM(v, st, knows[v])]
  PROVE  LET q == Validated(p, st, VMs, source)
         IN  /\ q.completed = {} /\ Sound(q) /\ SourcesListed(q)
             /\ \A v \in VMs : Recorded(p, v) => Recorded(q, v)
<1>. DEFINE kept(v) == /\ v \in VMs /\ CanVMStorageMigrate(v)
                       /\ source[v] # "none" \/ ExistingStatus(p, v) # "none"
            newList == [v \in VMs |-> IF kept(v) THEN ListFor(st) ELSE "none"]
            newRec == [v \in VMs |-> IF kept(v) THEN RecordedSource(p, v, source[v]) ELSE "none"]
            q == Validated(p, st, VMs, source)
<1>1. \A v \in VMs : CanVMStorageMigrate(v)
  BY DEF AllFit, CanVMStorageMigrate
<1>2. ASSUME NEW v \in VMs
      PROVE  source[v] = "none" \/ source[v] = "src" \/ (source[v] = "tgt" /\ Recorded(p, v))
  <2>1. vm[v].spec \in {"src", "tgt"}
    BY DEF TypeInv, TypeOK, ClusterTypeOK, VMType, Claims
  <2>. QED BY <2>1 DEF CreateStatusVM, SwappedRecorded
<1>3. ASSUME NEW v \in VMs PROVE ExistingStatus(p, v) = IF Recorded(p, v) THEN "src" ELSE "none"
  BY ExistingRecord
<1>4. ASSUME NEW v \in VMs
      PROVE  /\ Recorded(p, v) => kept(v)
             /\ kept(v) => RecordedSource(p, v, source[v]) = "src"
  <2>1. Recorded(p, v) => kept(v)
    BY <1>1, <1>3
  <2>2. kept(v) => RecordedSource(p, v, source[v]) = "src"
    BY <1>2, <1>3 DEF RecordedSource
  <2>. QED BY <2>1, <2>2
<1>5. \E crit : q = [p EXCEPT !.completed = {}, !.list = newList, !.rec = newRec, !.crit = crit]
  BY Zenon DEF Validated
<1>6. q.completed = {} /\ q.list = newList /\ q.rec = newRec
  <2>. HIDE DEF newList, newRec, q
  <2>. QED BY <1>5 DEF PlanObj
<1>7. ListFor(st) \in {"ready", "inProgress"}
  BY DEF ListFor
<1>. HIDE DEF kept, q
<1>8. ASSUME NEW v \in VMs
      PROVE  /\ q.list[v] = (IF kept(v) THEN ListFor(st) ELSE "none")
             /\ q.rec[v] = (IF kept(v) THEN "src" ELSE "none")
  BY <1>4, <1>6
<1>9. Sound(q)
  BY <1>6, <1>7, <1>8 DEF Sound
<1>10. SourcesListed(q)
  BY <1>7, <1>8 DEF SourcesListed
<1>11. \A v \in VMs : Recorded(p, v) => Recorded(q, v)
  BY <1>4, <1>6, <1>8 DEF Recorded
<1>. QED BY <1>6, <1>9, <1>10, <1>11 DEF q

\* Two plans with the same lists.
SameLists(p, q) == p.list = q.list /\ p.rec = q.rec /\ p.completed = q.completed

\* validatePVCs finds no conflict in a sound plan status.
LEMMA CheckedRecord ==
  ASSUME NEW p \in PlanObj, Sound(p), NEW now
  PROVE  SameLists(Checked(p, now), p)
<1>1. ConflictingPVCs(p, now) = {}
  BY DEF ConflictingPVCs, Sound
<1>2. \E crit : Checked(p, now) = [p EXCEPT !.crit = crit]
  BY <1>1, Zenon DEF Checked
<1>. QED BY <1>2 DEF PlanObj, SameLists

\* The VMs whose entry updateReadyCompletedMigrations moves.
Moved(p) == IF Existing = {} THEN {}
            ELSE {v \in VMs : v \in mig[LastMigration].completed /\ p.list[v] \in {"ready", "inProgress"}}

\* updateReadyCompletedMigrations loses no record.
LEMMA ProcessedRecord ==
  ASSUME NEW p \in PlanObj, Sound(p)
  PROVE  LET q == ProcessMigrations(p)
         IN  /\ Sound(q)
             /\ \A v \in VMs : Recorded(p, v) => Recorded(q, v)
             /\ \A v \in Moved(p) : p.rec[v] = "src" => <<v, "src">> \in q.completed
             /\ SourcesListed(p) => SourcesListed(q)
             /\ \A v \in VMs : <<v, "none">> \in q.completed =>
                  <<v, "none">> \in p.completed \/ ~SourcesListed(p)
             /\ \A v \in VMs : <<v, "src">> \in q.completed => <<v, "src">> \in p.completed \/ v \in Moved(p)
<1>. DEFINE q == ProcessMigrations(p)
            newDone == p.completed \cup {<<v, p.rec[v]>> : v \in Moved(p)}
            newList == [v \in VMs |-> IF v \in Moved(p) THEN "none" ELSE p.list[v]]
            newRec == [v \in VMs |-> IF v \in Moved(p) THEN "none" ELSE p.rec[v]]
<1>1. q = [p EXCEPT !.completed = newDone, !.list = newList, !.rec = newRec]
  BY Zenon DEF ProcessMigrations, Moved
<1>2. q.completed = newDone /\ q.list = newList /\ q.rec = newRec
  <2>. HIDE DEF newDone, newList, newRec, q
  <2>. QED BY <1>1 DEF PlanObj
<1>3. Moved(p) \subseteq VMs /\ \A v \in Moved(p) : p.list[v] # "none"
  BY DEF Moved
<1>4. ASSUME NEW v \in VMs, NEW s
      PROVE  <<v, s>> \in q.completed <=> <<v, s>> \in p.completed \/ (v \in Moved(p) /\ s = p.rec[v])
  BY <1>2
<1>5. ASSUME NEW v \in VMs
      PROVE  /\ q.list[v] = IF v \in Moved(p) THEN "none" ELSE p.list[v]
             /\ q.rec[v] = IF v \in Moved(p) THEN "none" ELSE p.rec[v]
  BY <1>2
<1>. HIDE DEF q
<1>6. Sound(q)
  BY <1>4, <1>5 DEF Sound
<1>7. \A v \in VMs : Recorded(p, v) => Recorded(q, v)
  BY <1>4, <1>5 DEF Recorded
<1>8. SourcesListed(p) => SourcesListed(q)
  BY <1>5 DEF SourcesListed
<1>. QED BY <1>3, <1>4, <1>6, <1>7, <1>8 DEF q, SourcesListed

\* The end of the refresh leaves the lists alone.
LEMMA RefreshedRecord ==
  ASSUME NEW p \in PlanObj
  PROVE  SameLists(Refreshed(p), p)
BY DEF Refreshed, PlanObj, SameLists

-----------------------------------------------------------------------------
(* The invariant of the record *)

\* Volumes of v are swapped, or a worker that read its source may swap them.
AtStake(v) == vm[v].spec = "tgt" \/ (mw.pc \in SwapPCs /\ mw.sources[v] # "none")

\* The migration can still swap volumes.
Open == \A m \in Migs : mig[m].phase \notin OverPhases \cup {"Gone"}

\* Entries have their sources, and completed ones belong to completed VMs.
Intact(p) ==
  /\ SourcesListed(p)
  /\ \A v \in VMs : /\ <<v, "none">> \notin p.completed
                    /\ <<v, "src">> \in p.completed => \A m \in Migs : v \in mig[m].completed

\* The plan's controller may write its copy.
PlanCurrent == pw.pc \in {"meta", "status"} /\ PlanKey \notin stale

RecordInv ==
  /\ AllFit
  /\ Sound(plan) /\ Sound(pw.obj)
  /\ plan.exists => \A v \in VMs : AtStake(v) => Recorded(plan, v)
  /\ PlanCurrent => \A v \in VMs :
       Recorded(plan, v) /\ (AtStake(v) \/ Open) => Recorded(pw.obj, v)
  /\ Open => Intact(plan) /\ Intact(pw.obj)

\* The migration does not answer for swapped VMs: it still begins, or cancels.
Excused(o) ==
  o.phase = "BeginLiveMigration" \/ ("delete" \in Env /\ o.phase \in CancelingPhases \cup {"Gone"})

\* Every swapped VM is in a list of the migration.
Accounted(o) == Excused(o) \/ \A v \in VMs : vm[v].spec = "tgt" => v \in o.running \cup o.completed

(***************************************************************************)
(* What the loop of handleBeginLiveMigrationPhase swapped is listed in the *)
(* copy or will be met again.  A lost write leaves the object in its phase.*)
(***************************************************************************)
AccountInv ==
  /\ \A m \in Migs : Accounted(mig[m])
  /\ Current => Accounted(mw.obj) /\ mig[mw.m].completed \subseteq mw.obj.completed
  /\ mw.pc \in SwapPCs => /\ \A v \in mw.todo : mw.sources[v] # "none"
                          /\ mw.pc # "BeginLiveMigration" => mw.at \in mw.todo
  /\ mw.pc \in SwapPCs /\ Current =>
       \A v \in VMs : vm[v].spec = "tgt" => v \in mw.obj.running \cup mw.obj.completed \cup mw.todo

\* The environment of these proofs.
Undisturbed == OneMigration /\ "unfit" \notin Env /\ "planError" \notin Env

\* The only migration of the plan is the last one.
LEMMA OnlyMigration ==
  ASSUME OneMigration, NEW m \in Migs, m \in Existing
  PROVE  LastMigration = m
<1>1. Existing = {m}
  BY DEF OneMigration, Existing
<1>2. m \in Nat /\ m <= m
  <2>1. m \in Nat
    BY ClusterAssumption
  <2>. QED BY <2>1
<1>. DEFINE open == {k \in Existing : mig[k].phase # "Completed"}
            pool == IF open # {} THEN open ELSE Existing
<1>3. pool = {m}
  BY <1>1
<1>4. LastMigration = CHOOSE k \in pool : \A n \in pool : n <= k
  BY Zenon DEF LastMigration
<1>. HIDE DEF pool
<1>. QED BY <1>2, <1>3, <1>4

\* A loop step of BeginLiveMigration swaps VMs it read the sources of, and
\* passes none over.
LEMMA SwapLoop ==
  ASSUME TypeInv, AllFit, LoopStep, mw.pc \in SwapPCs,
         mw.pc # "BeginLiveMigration" => mw.at \in mw.todo
  PROVE  /\ mw'.pc \in SwapPCs /\ mw'.todo \subseteq mw.todo
         /\ mw'.pc # "BeginLiveMigration" => mw'.at \in mw'.todo
         /\ mw.todo \subseteq mw'.todo \cup mw'.obj.running
         /\ mw.obj.running \subseteq mw'.obj.running
         /\ \A v \in VMs : /\ vm'[v].fit = vm[v].fit
                           /\ vm'[v].spec # vm[v].spec => vm'[v].spec = "tgt" /\ v \in mw.todo
<1>1. /\ mw \in Worker /\ mw.obj \in MigObj /\ vm \in [VMs -> VMType]
      /\ mw'.pc \in SwapPCs /\ RunBegin
  <2>1. mw.pc # "Canceling"
    BY DEF SwapPCs
  <2>. QED BY <2>1 DEF TypeInv, TypeOK, ClusterTypeOK, Worker, LoopStep, LoopGoesOn, CancelVM
<1>2. ASSUME NEW v \in VMs, NEW strategy, PatchVM(v, "tgt", strategy)
      PROVE  \A w \in VMs : /\ vm'[w].fit = vm[w].fit
                            /\ vm'[w].spec # vm[w].spec => vm'[w].spec = "tgt" /\ w = v
  BY <1>1, <1>2 DEF PatchVM, VMType
<1>3. ASSUME NEW v \in VMs, BeginSkipVM(v) PROVE FALSE
  BY <1>3 DEF BeginSkipVM, CanVMStorageMigrate, AllFit
<1>4. ASSUME NEW v \in VMs, LiveMigrateCreateDV(v) \/ OfflineMigrateSwap(v)
      PROVE  /\ v \in mw.todo /\ mw'.at = v /\ mw'.todo = mw.todo /\ mw'.obj = mw.obj
             /\ UNCHANGED vm \/ \E s : PatchVM(v, "tgt", s)
  BY <1>1, <1>4 DEF LiveMigrateCreateDV, OfflineMigrateSwap, Worker
<1>5. ASSUME LiveMigrateSwap \/ OfflineMigrateCreateDV
      PROVE  /\ mw.at \in mw.todo /\ mw'.pc = "BeginLiveMigration" /\ mw'.todo = mw.todo \ {mw.at}
             /\ mw'.obj.running = mw.obj.running \cup {mw.at}
             /\ UNCHANGED vm \/ \E s : PatchVM(mw.at, "tgt", s)
  <2>1. /\ Swapped(mw.at).pc = "BeginLiveMigration" /\ Swapped(mw.at).todo = mw.todo \ {mw.at}
        /\ Swapped(mw.at).obj.running = mw.obj.running \cup {mw.at}
    BY <1>1 DEF Swapped, Worker, MigObj
  <2>. QED BY <1>5, <2>1 DEF LiveMigrateSwap, OfflineMigrateCreateDV
<1>6. ASSUME BeginFails \/ BeginDone PROVE FALSE
  <2>1. \E o : Return(o)
    BY <1>6 DEF BeginFails, BeginDone
  <2>. QED BY <1>1, <2>1 DEF Return, ToPersist, IdleWorker, SwapPCs
<1>7. mw.todo \subseteq VMs
  BY <1>1 DEF Worker
<1>8. CASE \E v \in VMs : LiveMigrateCreateDV(v) \/ OfflineMigrateSwap(v)
  BY <1>1, <1>2, <1>4, <1>8
<1>9. CASE LiveMigrateSwap \/ OfflineMigrateCreateDV
  BY <1>1, <1>2, <1>5, <1>7, <1>9
<1>. QED BY <1>1, <1>3, <1>6, <1>8, <1>9 DEF RunBegin

\* A loop step of Canceling only turns VMs back.
LEMMA CancelLoop ==
  ASSUME TypeInv, CopyInv, LoopStep, mw.pc = "Canceling"
  PROVE  /\ mw'.pc = "Canceling" /\ mw'.obj = mw.obj
         /\ \A v \in VMs : /\ vm'[v].fit = vm[v].fit
                           /\ vm'[v].spec # vm[v].spec => vm'[v].spec = "src" /\ v \in mw.obj.running
<1>1. mw'.pc = "Canceling" /\ mw'.obj = mw.obj /\ vm \in [VMs -> VMType]
  BY DEF LoopStep, LoopGoesOn, SwapPCs, TypeInv, TypeOK, ClusterTypeOK
<1>2. PICK v \in VMs : CancelVM(v)
  BY DEF LoopStep, SwapPCs, RunBegin, BeginSkipVM, LiveMigrateCreateDV, OfflineMigrateSwap,
     LiveMigrateSwap, OfflineMigrateCreateDV, BeginFails, BeginDone
<1>3. (UNCHANGED vm \/ PatchVM(v, "src", TRUE)) /\ v \in mw.obj.running
  BY <1>2 DEF CancelVM, CopyInv, TaskOfPhase
<1>4. PatchVM(v, "src", TRUE) =>
        \A w \in VMs : /\ vm'[w].fit = vm[w].fit
                       /\ vm'[w].spec # vm[w].spec => vm'[w].spec = "src" /\ w = v
  BY <1>1 DEF PatchVM, VMType
<1>. QED BY <1>1, <1>3, <1>4

\* KubeVirt and CDI do not edit the spec of a VM.
LEMMA ClusterSpecs ==
  ASSUME TypeInv, ClusterMoves
  PROVE  \A v \in VMs : /\ vm'[v].spec = vm[v].spec
                        /\ "unfit" \notin Env => vm'[v].fit = vm[v].fit
<1>1. vm \in [VMs -> VMType]
  BY DEF TypeInv, TypeOK, ClusterTypeOK
<1>2. CASE UNCHANGED clusterVars
  BY <1>2 DEF clusterVars
<1>3. ASSUME NEW v \in VMs, ClusterStep(v, Existing)
      PROVE  \A w \in VMs : /\ vm'[w].spec = vm[w].spec
                            /\ "unfit" \notin Env => vm'[w].fit = vm[w].fit
  <2>1. ASSUME NEW d, vm' = [vm EXCEPT ![v].disk = d]
        PROVE  \A w \in VMs : vm'[w].spec = vm[w].spec /\ vm'[w].fit = vm[w].fit
    BY <1>1, <2>1 DEF VMType
  <2>2. CASE FitnessChanges(v)
    BY <1>1, <2>2 DEF FitnessChanges, VMType
  <2>3. \/ UNCHANGED vm
        \/ FitnessChanges(v)
        \/ \E d : vm' = [vm EXCEPT ![v].disk = d]
    BY <1>3 DEF ClusterStep, ClusterProgress, CreateVMIM, VMIMSucceeds, CloneSucceeds, Evacuate,
       VMIMFails, StopVM, StartVM
  <2>. QED BY <2>1, <2>2, <2>3
<1>. QED BY <1>2, <1>3 DEF ClusterMoves

\* What a reconcile of the plan is about to write.
Prepared(p) ==
  /\ Sound(p)
  /\ \A v \in VMs : Recorded(plan, v) /\ (AtStake(v) \/ Open) => Recorded(p, v)
  /\ Open => Intact(p)

\* It depends on the lists only.
LEMMA PreparedLists ==
  ASSUME NEW p, NEW q, SameLists(p, q), Prepared(q)
  PROVE  Prepared(p)
BY DEF SameLists, Prepared, Sound, Recorded, Intact, SourcesListed

\* The end of a reconcile, after validation: p has what must not be lost.
LEMMA AfterValidationRecord ==
  ASSUME OneMigration, "planError" \notin Env, TypeInv, NEW p \in PlanObj, AfterValidation(p), Sound(p),
         \A v \in VMs : Recorded(plan, v) /\ (AtStake(v) \/ Open)
                        => Recorded(p, v) \/ (v \in Moved(p) /\ p.rec[v] = "src"),
         Open => SourcesListed(p) /\ p.completed = {}
  PROVE  (pw'.pc = "idle" /\ pw' = IdlePlanWorker) \/ Prepared(pw'.obj)
<1>. DEFINE q == ProcessMigrations(p)
<1>1. pw' = PlanToPersist(Refreshed(q))
  BY DEF AfterValidation, Processed
<1>2. q \in PlanObj
  BY PlanStepTypes
<1>3. Prepared(q)
  <2>. HIDE DEF q
  <2>1. /\ Sound(q)
        /\ \A v \in VMs : Recorded(p, v) => Recorded(q, v)
        /\ \A v \in Moved(p) : p.rec[v] = "src" => <<v, "src">> \in q.completed
    BY ProcessedRecord DEF q
  <2>2. ASSUME NEW v \in VMs, Recorded(plan, v), AtStake(v) \/ Open PROVE Recorded(q, v)
    BY <2>1, <2>2 DEF Recorded
  <2>3. ASSUME Open PROVE Intact(q)
    <3>1. SourcesListed(p) /\ p.completed = {}
      BY <2>3
    <3>2. /\ SourcesListed(q)
          /\ \A v \in VMs : <<v, "none">> \notin q.completed
          /\ \A v \in VMs : <<v, "src">> \in q.completed => v \in Moved(p)
      BY <3>1, ProcessedRecord DEF q
    <3>3. ASSUME NEW v \in Moved(p), NEW m \in Migs PROVE v \in mig[m].completed
      <4>1. Existing # {} /\ v \in mig[LastMigration].completed
        BY <3>3 DEF Moved
      <4>2. PICK k \in Migs : k \in Existing
        BY <4>1 DEF Existing
      <4>. QED BY <4>1, <4>2, OnlyMigration DEF OneMigration
    <3>. QED BY <3>2, <3>3 DEF Intact
  <2>. QED BY <2>1, <2>2, <2>3 DEF Prepared
<1>. HIDE DEF q
<1>4. Prepared(Refreshed(q))
  BY <1>2, <1>3, RefreshedRecord, PreparedLists
<1>. QED BY <1>1, <1>4 DEF PlanToPersist, IdlePlanWorker

\* A reconcile of the plan loses no record somebody needs: validation keeps
\* what is recorded, and a completed migration has listed the VMs it swapped
\* before healCompletedMigrations fills in entries without a source.
LEMMA PlanReconcileRecord ==
  ASSUME Undisturbed, TypeInv, CopyInv, FinalizerInv, RecordInv, AccountInv, PlanReconcile
  PROVE  (pw'.pc = "idle" /\ pw' = IdlePlanWorker) \/ Prepared(pw'.obj)
<1>1. plan \in PlanObj /\ plan.exists
  BY PlanReconcileShape DEF TypeInv, TypeOK
<1>2. Sound(plan) /\ AllFit /\ \A v \in VMs : AtStake(v) => Recorded(plan, v)
  BY <1>1 DEF RecordInv
<1>3. Prepared(plan)
  BY <1>2 DEF Prepared, RecordInv
<1>4. OneMigration /\ "planError" \notin Env
  BY DEF Undisturbed
<1>5. CASE PlanReconcileDeleting
  <2>. DEFINE q == [plan EXCEPT !.fin = FALSE]
  <2>1. SameLists(q, plan)
    BY <1>1 DEF SameLists, PlanObj
  <2>2. pw' = IF HasActiveMigrations THEN IdlePlanWorker ELSE PlanToPersist(q)
    BY <1>5 DEF PlanReconcileDeleting
  <2>. HIDE DEF q
  <2>3. Prepared(q)
    BY <1>3, <2>1, PreparedLists
  <2>. QED BY <2>2, <2>3 DEF PlanToPersist, IdlePlanWorker
<1>6. CASE PlanReconcileCompleted
  <2>. DEFINE read == [plan EXCEPT !.fin = TRUE, !.crit = @ \ {"ReconcileFailed"}]
              p == Heal(read)
  <2>1. read \in PlanObj /\ SameLists(read, plan)
    BY <1>1 DEF SameLists, PlanObj
  <2>2. AfterValidation(p)
    BY <1>6 DEF PlanReconcileCompleted
  <2>3. PICK m \in Migs : m \in Existing /\ mig[m].phase = "Completed"
    <3>1. "completed" \in GetMigrationStatus
      BY <1>6 DEF PlanReconcileCompleted
    <3>2. \E m \in {n \in Existing : mig[n].phase \in InProgressPhases \cup {"Completed"}} :
            "completed" = IF mig[m].phase = "Completed" THEN "completed" ELSE "inProgress"
      BY <3>1 DEF GetMigrationStatus
    <3>. QED BY <3>2 DEF Existing
  <2>4. ~Open /\ mw.pc \notin SwapPCs
    <3>1. ~Open
      BY <2>3 DEF Open, OverPhases
    <3>2. mw.pc \in SwapPCs => mw.m \in Migs
      BY DEF TypeInv, SwapPCs
    <3>. QED BY <1>4, <2>3, <3>1, <3>2, SwapsInBegin DEF OneMigration
  <2>. HIDE DEF read
  <2>5. /\ p \in PlanObj /\ p.list = read.list /\ p.rec = read.rec
        /\ p.completed = IF read.completed # {} THEN read.completed ELSE VMs \X {"none"}
    BY <2>1, PlanStepTypes DEF Heal, PlanObj
  <2>. HIDE DEF p
  <2>6. Sound(p)
    <3>1. \A v \in VMs : <<v, "tgt">> \notin VMs \X {"none"}
      OBVIOUS
    <3>2. \A v \in VMs : <<v, "tgt">> \notin p.completed
      <4>1. \A v \in VMs : <<v, "tgt">> \notin read.completed
        BY <1>2, <2>1 DEF Sound, SameLists
      <4>. QED BY <2>5, <3>1, <4>1
    <3>. QED BY <1>2, <2>1, <2>5, <3>2 DEF Sound, SameLists
  <2>7. ASSUME NEW v \in VMs, Recorded(plan, v), AtStake(v)
        PROVE  Recorded(p, v) \/ (v \in Moved(p) /\ p.rec[v] = "src")
    <3>1. CASE read.completed # {}
      BY <2>1, <2>5, <2>7, <3>1 DEF Recorded, SameLists
    <3>2. CASE read.completed = {}
      <4>1. p.rec[v] = "src" /\ p.list[v] \in {"ready", "inProgress"}
        <5>1. plan.rec[v] = "src"
          BY <2>1, <2>7, <3>2 DEF Recorded, SameLists
        <5>2. plan.list[v] \in {"ready", "inProgress"}
          BY <1>1, <1>2, <5>1 DEF Sound, PlanObj
        <5>. QED BY <2>1, <2>5, <5>1, <5>2 DEF SameLists
      <4>2. v \in mig[m].completed
        <5>1. vm[v].spec = "tgt"
          BY <2>4, <2>7 DEF AtStake
        <5>2. mig[m].running = {}
          BY <2>3 DEF CopyInv, RunningInPhase, RunningPhases
        <5>3. ~Excused(mig[m])
          BY <2>3 DEF Excused, CancelingPhases, CancelPhases
        <5>. QED BY <5>1, <5>2, <5>3 DEF AccountInv, Accounted
      <4>3. LastMigration = m
        BY <1>4, <2>3, OnlyMigration
      <4>. QED BY <2>3, <4>1, <4>2, <4>3 DEF Moved
    <3>. QED BY <3>1, <3>2
  <2>. QED BY <1>4, <2>2, <2>4, <2>5, <2>6, <2>7, AfterValidationRecord
<1>7. CASE PlanReconcileOpen
  <2>. DEFINE read == [plan EXCEPT !.fin = TRUE]
              source(st, knows) == [v \in VMs |-> CreateStatusVM(v, st, knows[v])]
  <2>1. PICK st, now, knows : AfterValidation(Checked(Validated(read, st, VMs, source(st, knows)), now))
    BY <1>7, Zenon DEF PlanReconcileOpen
  <2>2. read \in PlanObj /\ SameLists(read, plan)
    BY <1>1 DEF SameLists, PlanObj
  <2>3. source(st, knows) \in [VMs -> Sources]
    BY SourceTypes
  <2>. HIDE DEF read
  <2>. DEFINE p == Validated(read, st, VMs, source(st, knows))
              q == Checked(p, now)
  <2>4. Sound(read) /\ SwappedRecorded(read) /\ \A v \in VMs : Recorded(plan, v) <=> Recorded(read, v)
    BY <1>2, <2>2 DEF SameLists, Sound, SwappedRecorded, Recorded, AtStake
  <2>5. /\ p.completed = {} /\ Sound(p) /\ SourcesListed(p)
        /\ \A v \in VMs : Recorded(plan, v) => Recorded(p, v)
    BY <1>2, <2>2, <2>4, ValidatedRecord
  <2>6. p \in PlanObj
    BY <2>2, <2>3, ValidatedType
  <2>. HIDE DEF p, source
  <2>7. SameLists(q, p) /\ q \in PlanObj
    BY <2>5, <2>6, CheckedRecord, PlanStepTypes
  <2>8. AfterValidation(q)
    BY <2>1 DEF p
  <2>. HIDE DEF q
  <2>9. q.completed = {} /\ Sound(q) /\ SourcesListed(q) /\ \A v \in VMs : Recorded(plan, v) => Recorded(q, v)
    BY <2>5, <2>7 DEF SameLists, Sound, SourcesListed, Recorded
  <2>. QED BY <1>4, <2>7, <2>8, <2>9, AfterValidationRecord
<1>. QED BY <1>4, <1>5, <1>6, <1>7 DEF PlanReconcile, PlanReconcileFails

\* A step that neither the plan's controller takes nor puts a VM at stake.
LEMMA RecordLeft ==
  ASSUME RecordInv, SameLists(plan', plan), plan'.exists => plan.exists, UNCHANGED pw, AllFit',
         PlanCurrent' => PlanCurrent,
         \A v \in VMs : AtStake(v)' => AtStake(v),
         Open' => Open /\ \A m \in Migs : mig[m].completed \subseteq mig'[m].completed
  PROVE  RecordInv'
<1>1. /\ Sound(plan)' /\ Sound(pw.obj)'
      /\ \A v \in VMs : (Recorded(plan, v)' <=> Recorded(plan, v)) /\ (Recorded(pw.obj, v)' <=> Recorded(pw.obj, v))
  BY DEF RecordInv, SameLists, Sound, Recorded
<1>2. plan'.exists => \A v \in VMs : AtStake(v)' => Recorded(plan, v)'
  BY <1>1 DEF RecordInv
<1>3. PlanCurrent' => \A v \in VMs :
        Recorded(plan, v)' /\ (AtStake(v)' \/ Open') => Recorded(pw.obj, v)'
  BY <1>1 DEF RecordInv
<1>4. Open' => Intact(plan)' /\ Intact(pw.obj)'
  BY DEF RecordInv, Intact, SourcesListed, SameLists
<1>. QED BY <1>1, <1>2, <1>3, <1>4 DEF RecordInv

\* Reading a migration that begins: what it read is recorded.
LEMMA ReadRecord ==
  ASSUME Undisturbed, TypeInv, CopyInv, RecordInv, NEW m \in Migs, Reconcile(m), UNCHANGED pw
  PROVE  RecordInv'
<1>1. UNCHANGED <<mig, plan, vm>> /\ stale' = stale \ {m} /\ m # PlanKey
  BY ReadShape, ClusterAssumption DEF PlanKey
<1>2. plan \in PlanObj
  BY DEF TypeInv, TypeOK
<1>3. ASSUME NEW v \in VMs, AtStake(v)', ~AtStake(v)
      PROVE  Open /\ Recorded(plan, v)
  <2>1. mw'.pc \in SwapPCs /\ mw'.sources[v] # "none"
    BY <1>1, <1>3 DEF AtStake
  <2>2. /\ mw'.pc = mw'.obj.phase /\ Detour(mig[m], mw'.obj) /\ mw'.sources = ReadSources
        /\ mw'.pc \in TaskPhases
    BY <2>1, ReadShape DEF SwapPCs, IdleWorker
  <2>3. mig[m].phase = "BeginLiveMigration"
    BY <2>1, <2>2 DEF Detour, SwapPCs, TaskPhases, Phases
  <2>4. Open
    BY <2>3 DEF Undisturbed, OneMigration, Open, OverPhases
  <2>5. plan.rec[v] # "none"
    BY <2>1, <2>2 DEF ReadSources
  <2>6. plan.rec[v] = "src"
    BY <1>2, <2>5 DEF RecordInv, Sound, PlanObj, Sources, Claims
  <2>. QED BY <2>4, <2>6 DEF RecordInv, Intact, Recorded
<1>4. PlanCurrent' => PlanCurrent
  BY <1>1 DEF PlanCurrent
<1>5. (Open' <=> Open) /\ AllFit'
  BY <1>1 DEF Open, RecordInv, AllFit
<1>6. /\ Sound(plan)' /\ Sound(pw.obj)'
      /\ \A v \in VMs : (Recorded(plan, v)' <=> Recorded(plan, v)) /\ (Recorded(pw.obj, v)' <=> Recorded(pw.obj, v))
  BY <1>1 DEF RecordInv, Sound, Recorded
<1>7. plan'.exists => \A v \in VMs : AtStake(v)' => Recorded(plan, v)'
  BY <1>1, <1>3, <1>6 DEF RecordInv
<1>8. PlanCurrent' => \A v \in VMs :
        Recorded(plan, v)' /\ (AtStake(v)' \/ Open') => Recorded(pw.obj, v)'
  BY <1>3, <1>4, <1>5, <1>6 DEF RecordInv
<1>9. Open' => Intact(plan)' /\ Intact(pw.obj)'
  BY <1>1, <1>5 DEF RecordInv, Intact, SourcesListed
<1>. QED BY <1>5, <1>6, <1>7, <1>8, <1>9 DEF RecordInv

\* A plan status without entries.
LEMMA EmptyRecord == Sound(NoPlan) /\ Intact(NoPlan) /\ ~NoPlan.exists
BY DEF NoPlan, Sound, Intact, SourcesListed

\* The writes of the plan's controller.
LEMMA PlanWriteRecord ==
  ASSUME TypeInv, PlanInv, RecordInv, PlanWorkerStep
  PROVE  RecordInv'
<1>1. UNCHANGED <<mig, stale, mw, vm>>
  BY PlanWriteShape
<1>2. /\ AllFit' /\ (Open' <=> Open) /\ \A v \in VMs : AtStake(v)' <=> AtStake(v)
      /\ \A p : Intact(p)' <=> Intact(p)
  BY <1>1 DEF RecordInv, AllFit, Open, AtStake, Intact, SourcesListed
<1>3. IdlePlanWorker.pc = "idle" /\ IdlePlanWorker.obj = NoPlan
  BY DEF IdlePlanWorker
<1>4. CASE plan' = plan /\ pw' = IdlePlanWorker
  BY <1>2, <1>3, <1>4, EmptyRecord DEF RecordInv, PlanCurrent
<1>5. CASE plan' = NoPlan /\ pw' = IdlePlanWorker
  BY <1>2, <1>3, <1>5, EmptyRecord DEF RecordInv, PlanCurrent
<1>6. CASE PlanCurrent /\ plan.exists /\ plan' = pw.obj /\ pw' = IdlePlanWorker
  <2>1. \A v \in VMs : AtStake(v) => Recorded(pw.obj, v)
    BY <1>6 DEF RecordInv
  <2>. QED BY <1>2, <1>3, <1>6, <2>1, EmptyRecord DEF RecordInv, PlanCurrent
<1>7. CASE SameLists(plan', plan) /\ plan'.exists = plan.exists /\ PlanCurrent
           /\ (pw' = IdlePlanWorker \/ (pw'.pc = "status" /\ pw'.obj = pw.obj))
  <2>1. /\ Sound(plan') /\ Sound(pw'.obj)
        /\ \A v \in VMs : Recorded(plan', v) <=> Recorded(plan, v)
    BY <1>3, <1>7, EmptyRecord DEF RecordInv, SameLists, Sound, Recorded
  <2>2. plan'.exists => \A v \in VMs : AtStake(v) => Recorded(plan', v)
    BY <1>7, <2>1 DEF RecordInv
  <2>3. PlanCurrent' => \A v \in VMs :
          Recorded(plan', v) /\ (AtStake(v) \/ Open) => Recorded(pw'.obj, v)
    BY <1>3, <1>7, <2>1 DEF RecordInv, PlanCurrent
  <2>4. Open => Intact(plan') /\ Intact(pw'.obj)
    BY <1>3, <1>7, EmptyRecord DEF RecordInv, Intact, SourcesListed, SameLists
  <2>. QED BY <1>2, <2>1, <2>2, <2>3, <2>4 DEF RecordInv
<1>8. PlanKey \notin stale /\ pw.pc \in {"meta", "status"} => PlanCurrent /\ plan.exists
  BY DEF PlanCurrent, PlanInv
<1>. QED BY <1>4, <1>5, <1>6, <1>7, <1>8, PlanWriteShape DEF SameLists

\* Every step keeps the record.
LEMMA RecordInvNext ==
  ASSUME Undisturbed, TypeInv, CopyInv, PlanInv, FinalizerInv, RecordInv, AccountInv, [Next]_vars
  PROVE  RecordInv'
<1>1. AllFit /\ SameLists(plan, plan)
  BY DEF RecordInv, SameLists
<1>2. CASE (PersistMeta \/ PersistStatus) /\ UNCHANGED pw
  <2>1. UNCHANGED <<plan, stale, vm>> /\ mw.m \in Migs /\ mw.pc \in {"meta", "status"} /\ mw'.pc \notin SwapPCs
    BY <1>2, WriteShape DEF SwapPCs
  <2>2. \A v \in VMs : AtStake(v)' => AtStake(v)
    BY <2>1 DEF AtStake
  <2>3. mw.m \notin stale => Current
    BY <2>1 DEF Current
  <2>4. Open' => Open
    <3>1. ASSUME NEW m \in Migs, mig[m].phase \in OverPhases \cup {"Gone"}
          PROVE  mig'[m].phase \in OverPhases \cup {"Gone"}
      BY <1>2, <2>1, <2>3, <3>1, WriteShape DEF CopyInv, CopyAhead, Exists
    <3>. QED BY <3>1 DEF Open
  <2>5. \A m \in Migs : mig[m].completed \subseteq mig'[m].completed
    BY <1>2, <2>1, <2>3, WriteShape DEF AccountInv
  <2>6. AllFit' /\ (PlanCurrent' => PlanCurrent)
    BY <1>1, <1>2, <2>1 DEF AllFit, PlanCurrent
  <2>. QED BY <1>1, <1>2, <2>1, <2>2, <2>4, <2>5, <2>6, RecordLeft
<1>3. CASE TaskEnds
  <2>1. UNCHANGED <<mig, vm, pw>> /\ PlanAsked /\ mw'.pc \notin SwapPCs
    BY <1>3, EndShape DEF TaskEnds, SwapPCs
  <2>2. /\ SameLists(plan', plan) /\ plan'.exists = plan.exists
        /\ PlanCurrent' => PlanCurrent
    BY <2>1, AskedShape DEF SameLists, PlanCurrent
  <2>3. AllFit' /\ (Open' => Open) /\ \A v \in VMs : AtStake(v)' => AtStake(v)
    BY <1>1, <2>1 DEF AllFit, Open, AtStake
  <2>. QED BY <2>1, <2>2, <2>3, RecordLeft
<1>4. CASE LoopStep
  <2>1. UNCHANGED <<mig, plan, stale, pw>> /\ mw'.sources = mw.sources /\ mw.todo \subseteq VMs
    BY <1>4 DEF LoopStep, LoopGoesOn, TypeInv, TypeOK, Worker
  <2>2. AllFit' /\ \A v \in VMs : AtStake(v)' => AtStake(v)
    <3>1. CASE mw.pc \in SwapPCs
      BY <1>1, <1>4, <2>1, <3>1, SwapLoop DEF AccountInv, AllFit, AtStake
    <3>2. CASE mw.pc = "Canceling"
      BY <1>1, <1>4, <2>1, <3>2, CancelLoop DEF AllFit, AtStake, SwapPCs
    <3>. QED BY <1>4, <3>1, <3>2 DEF LoopStep
  <2>3. (Open' => Open) /\ (PlanCurrent' => PlanCurrent)
    BY <2>1 DEF Open, PlanCurrent
  <2>. QED BY <1>1, <2>1, <2>2, <2>3, RecordLeft
<1>5. CASE PlanReconcile
  <2>1. UNCHANGED <<mig, plan, mw, vm>>
    BY <1>5, PlanSteps, PlanReconcileShape
  <2>2. pw' = IdlePlanWorker \/ Prepared(pw'.obj)
    BY <1>5, PlanReconcileRecord
  <2>3. /\ AllFit' /\ (Open' <=> Open) /\ \A v \in VMs : AtStake(v)' <=> AtStake(v)
        /\ \A p : Intact(p)' <=> Intact(p)
    BY <1>1, <2>1 DEF AllFit, Open, AtStake, Intact, SourcesListed
  <2>4. IdlePlanWorker.pc = "idle" /\ IdlePlanWorker.obj = NoPlan
    BY DEF IdlePlanWorker
  <2>5. CASE pw' = IdlePlanWorker
    BY <2>1, <2>3, <2>4, <2>5, EmptyRecord DEF RecordInv, PlanCurrent
  <2>6. CASE Prepared(pw'.obj)
    BY <2>1, <2>3, <2>6 DEF RecordInv, Prepared
  <2>. QED BY <2>2, <2>5, <2>6
<1>6. CASE ClusterMoves
  <2>1. UNCHANGED <<mig, plan, stale, mw, pw>>
    BY <1>6 DEF ClusterMoves
  <2>2. \A v \in VMs : vm'[v].spec = vm[v].spec /\ vm'[v].fit = vm[v].fit
    BY <1>6, ClusterSpecs DEF Undisturbed
  <2>3. /\ AllFit' /\ (Open' => Open) /\ (PlanCurrent' => PlanCurrent)
        /\ \A v \in VMs : AtStake(v)' => AtStake(v)
    BY <1>1, <2>1, <2>2 DEF AllFit, Open, AtStake, PlanCurrent
  <2>. QED BY <1>1, <2>1, <2>3, RecordLeft
<1>7. ASSUME NEW m \in Migs, CreateMigration(m) \/ DeleteMigration(m) \/ CollectGarbage(m), UNCHANGED pw
      PROVE  RecordInv'
  <2>1. UNCHANGED <<plan, mw, vm>> /\ (PlanKey \notin stale' => PlanKey \notin stale)
    BY <1>7, OwnerShape
  <2>2. \A n \in Migs : /\ mig'[n].completed = mig[n].completed
                        /\ mig[n].phase \in OverPhases \cup {"Gone"}
                           => mig'[n].phase \in OverPhases \cup {"Gone"}
    BY <1>7, OwnerShape DEF OverPhases
  <2>3. /\ AllFit' /\ (Open' => Open) /\ (PlanCurrent' => PlanCurrent)
        /\ \A v \in VMs : AtStake(v)' => AtStake(v)
    BY <1>1, <1>7, <2>1, <2>2 DEF AllFit, Open, AtStake, PlanCurrent
  <2>. QED BY <1>1, <1>7, <2>1, <2>2, <2>3, RecordLeft
<1>8. CASE DeletePlan
  <2>1. UNCHANGED <<mig, mw, pw, vm>> /\ ~PlanCurrent' /\ plan \in PlanObj
    BY <1>8 DEF DeletePlan, clusterVars, PlanCurrent, TypeInv, TypeOK
  <2>2. /\ AllFit' /\ (Open' <=> Open) /\ \A v \in VMs : AtStake(v)' <=> AtStake(v)
        /\ \A p : Intact(p)' <=> Intact(p)
    BY <1>1, <2>1 DEF AllFit, Open, AtStake, Intact, SourcesListed
  <2>3. plan' = NoPlan \/ (SameLists(plan', plan) /\ plan'.exists = plan.exists)
    BY <1>8, <2>1 DEF DeletePlan, PlanObj, SameLists
  <2>4. CASE plan' = NoPlan
    BY <2>1, <2>2, <2>4, EmptyRecord DEF RecordInv
  <2>5. CASE SameLists(plan', plan) /\ plan'.exists = plan.exists
    BY <2>1, <2>2, <2>5, RecordLeft
  <2>. QED BY <2>3, <2>4, <2>5
<1>9. CASE Crash \/ Restart
  <2>1. UNCHANGED <<mig, plan, vm>> /\ pw'.obj = NoPlan /\ ~PlanCurrent' /\ mw'.pc \notin SwapPCs
    BY <1>9 DEF Crash, Restart, clusterVars, IdleWorker, IdlePlanWorker, SwapPCs, PlanCurrent
  <2>2. /\ AllFit' /\ (Open' <=> Open) /\ (\A v \in VMs : AtStake(v)' => AtStake(v))
        /\ \A p : Intact(p)' <=> Intact(p)
    BY <1>1, <2>1 DEF AllFit, Open, AtStake, Intact, SourcesListed
  <2>. QED BY <2>1, <2>2, EmptyRecord DEF RecordInv, Recorded
<1>. QED BY <1>2, <1>3, <1>4, <1>5, <1>6, <1>7, <1>8, <1>9, StepKinds, ReadRecord, PlanWriteRecord

-----------------------------------------------------------------------------
(* The lists of the migration *)

\* A step that swaps nothing and of which the worker knows nothing.
LEMMA AccountLeft ==
  ASSUME CopyInv, FinalizerInv, AccountInv, UNCHANGED mw, Current' => Current,
         \A v \in VMs : vm'[v].spec = vm[v].spec,
         \A m \in Migs : /\ mig'[m].running = mig[m].running /\ mig'[m].completed = mig[m].completed
                         /\ \/ mig'[m].phase = mig[m].phase
                            \/ mig[m].phase = "Absent" /\ mig'[m].phase = ""
                            \/ mig'[m].phase = "Gone" /\ ~mig[m].fin,
         Current => mw.m \in Migs
  PROVE  AccountInv'
<1>1. ASSUME NEW m \in Migs PROVE Accounted(mig[m])'
  <2>1. Excused(mig[m]) => Excused(mig[m])'
    BY DEF Excused, FinalizerInv, FinalizedPhases, CancelingPhases, CancelPhases
  <2>. QED BY <2>1 DEF AccountInv, Accounted
<1>2. Accounted(mw.obj) => Accounted(mw.obj)'
  BY DEF Accounted, Excused
<1>. QED BY <1>1, <1>2 DEF AccountInv

\* Reading a migration that begins: its swapped VMs are completed, or the loop
\* meets them again because the plan has their source.
LEMMA ReadAccount ==
  ASSUME Undisturbed, TypeInv, CopyInv, PlanInv, RecordInv, AccountInv, NoDelete => NoCancelInv,
         NEW m \in Migs, Reconcile(m)
  PROVE  AccountInv'
<1>1. UNCHANGED <<mig, plan, vm>> /\ Exists(m) /\ m \in Existing
  BY ReadShape DEF Existing
<1>2. \A n \in Migs : Accounted(mig[n])'
  BY <1>1 DEF AccountInv, Accounted, Excused
<1>3. CASE mw'.pc = "idle"
  BY <1>2, <1>3 DEF AccountInv, Current, SwapPCs
<1>4. CASE /\ mw'.pc \in {"meta", "status"} /\ mw'.m = m /\ mw'.obj.phase = mig[m].phase
           /\ mw'.obj.running = mig[m].running /\ mw'.obj.completed = mig[m].completed
  <2>1. Accounted(mw.obj)'
    BY <1>1, <1>4 DEF AccountInv, Accounted, Excused
  <2>. QED BY <1>1, <1>2, <1>4, <2>1 DEF AccountInv, SwapPCs
<1>5. CASE /\ mw'.pc = mw'.obj.phase /\ mw'.m = m /\ SameWork(mw'.obj, mig[m])
           /\ mw'.pc \in TaskPhases /\ Detour(mig[m], mw'.obj)
           /\ plan.exists \/ mig[m].deleting
           /\ mw'.sources = ReadSources /\ mw'.todo = LoopOver(mw'.obj, ReadSources)
  <2>1. ~plan.exists \/ ~plan.fin => mig[m].phase # "BeginLiveMigration"
    BY <1>1 DEF PlanInv, NoWork, Harmless, WorkPhases
  <2>2. ASSUME Excused(mig[m]) PROVE Excused(mw'.obj)
    <3>1. CASE mw'.obj.phase = mig[m].phase
      BY <2>2, <3>1 DEF Excused
    <3>2. CASE mig[m].phase = ""
      BY <2>2, <3>2 DEF Excused, CancelingPhases, CancelPhases
    <3>3. CASE /\ mw'.obj.phase = "Canceling" /\ mig[m].deleting
               /\ ~(plan.exists /\ plan.deleting /\ plan.fin)
      <4>1. CASE "delete" \in Env
        BY <3>3, <4>1 DEF Excused, CancelingPhases
      <4>2. CASE NoDelete
        <5>1. Leaving
          BY <3>3, <4>2 DEF NoCancelInv
        <5>. QED BY <2>1, <2>2, <3>3, <4>2, <5>1 DEF Leaving, Excused, NoDelete
      <4>. QED BY <4>1, <4>2 DEF NoDelete
    <3>. QED BY <1>5, <3>1, <3>2, <3>3 DEF Detour
  <2>3. Accounted(mw.obj)' /\ mig'[mw'.m].completed \subseteq mw'.obj.completed
    BY <1>1, <1>5, <2>2 DEF AccountInv, Accounted, Excused, SameWork
  <2>4. ASSUME mw'.pc \in SwapPCs
        PROVE  /\ mw'.pc = "BeginLiveMigration" /\ \A v \in mw'.todo : mw'.sources[v] # "none"
               /\ \A v \in VMs : vm[v].spec = "tgt" => v \in mw'.obj.completed \cup mw'.todo
    <3>1. mw'.pc = "BeginLiveMigration" /\ mig[m].phase = "BeginLiveMigration"
      BY <1>5, <2>4 DEF SwapPCs, TaskPhases, Phases, Detour
    <3>2. mw'.todo = {v \in VMs : ReadSources[v] # "none"}
      BY <1>5, <3>1 DEF LoopOver
    <3>3. plan.exists /\ plan \in PlanObj
      BY <2>1, <3>1 DEF TypeInv, TypeOK
    <3>4. Open /\ Intact(plan)
      BY <3>1 DEF Undisturbed, OneMigration, Open, OverPhases, RecordInv
    <3>5. ASSUME NEW v \in VMs, vm[v].spec = "tgt" PROVE v \in mig[m].completed \/ ReadSources[v] # "none"
      <4>1. Recorded(plan, v)
        BY <3>3, <3>5 DEF RecordInv, AtStake
      <4>2. CASE <<v, "src">> \in plan.completed
        BY <3>4, <4>2 DEF Intact
      <4>3. CASE plan.rec[v] = "src"
        <5>1. plan.list[v] \in {"ready", "inProgress"}
          BY <3>3, <4>3 DEF RecordInv, Sound, PlanObj
        <5>. QED BY <3>3, <4>3, <5>1 DEF ReadSources
      <4>. QED BY <4>1, <4>2, <4>3 DEF Recorded
    <3>. QED BY <1>5, <3>1, <3>2, <3>5 DEF SameWork
  <2>. QED BY <1>1, <1>2, <2>3, <2>4 DEF AccountInv
<1>. QED BY <1>3, <1>4, <1>5, ReadShape DEF SameWork

\* Every step keeps the lists.
LEMMA AccountInvNext ==
  ASSUME Undisturbed, TypeInv, CopyInv, PlanInv, FinalizerInv, RecordInv, AccountInv,
         NoDelete => NoCancelInv, [Next]_vars
  PROVE  AccountInv'
<1>1. CASE PersistMeta \/ PersistStatus
  <2>1. UNCHANGED <<stale, vm>> /\ mw.m \in Migs /\ mw'.pc \notin SwapPCs /\ (mw.m \notin stale => Current)
    BY <1>1, WriteShape DEF SwapPCs, Current
  <2>2. ASSUME NEW m \in Migs PROVE Accounted(mig[m])'
    <3>1. CASE mig'[m] = mig[m]
      BY <2>1, <3>1 DEF AccountInv, Accounted, Excused
    <3>2. CASE m = mw.m /\ mw.m \notin stale /\ mig'[m] = mw.obj
      BY <2>1, <3>2 DEF AccountInv, Accounted, Excused
    <3>3. CASE /\ m = mw.m /\ mw.m \notin stale
               /\ mig'[m].running = mig[m].running /\ mig'[m].completed = mig[m].completed
               /\ \/ mig'[m].phase = mig[m].phase
                  \/ mig'[m].phase = "Gone" /\ ~mw.obj.fin
      <4>1. Excused(mig[m]) => Excused(mig[m])'
        BY <2>1, <3>3 DEF Excused, FinalizerInv, FinalizedPhases, CancelingPhases, CancelPhases
      <4>. QED BY <2>1, <3>3, <4>1 DEF AccountInv, Accounted
    <3>. QED BY <1>1, <3>1, <3>2, <3>3, WriteShape
  <2>3. Current' => Accounted(mw.obj)' /\ mig'[mw'.m].completed \subseteq mw'.obj.completed
    <3>1. Current' => /\ mw.m \notin stale /\ mw'.m = mw.m /\ mw'.obj = mw.obj
                      /\ mig'[mw.m].completed = mig[mw.m].completed
      BY <1>1, <2>1, WriteShape DEF Current
    <3>. QED BY <2>1, <3>1 DEF AccountInv, Accounted, Excused
  <2>. QED BY <2>1, <2>2, <2>3 DEF AccountInv
<1>2. CASE TaskEnds
  <2>1. PICK o \in MigObj : /\ EndOfTask(o)
                            /\ \/ mw'.pc = "idle"
                               \/ mw'.pc \in {"meta", "status"} /\ mw'.m = mw.m /\ mw'.obj = o
    BY <1>2, EndShape
  <2>2. UNCHANGED <<mig, vm>>
    BY <1>2 DEF TaskEnds
  <2>3. Current' => Current /\ mw'.m = mw.m /\ mw'.obj = o
    BY <1>2, <2>1, EndShape DEF Current
  <2>4. mw.obj.completed \subseteq o.completed
    BY <2>1 DEF EndOfTask, Carries
  <2>5. ASSUME Current, ~Excused(o), NEW v \in VMs, vm[v].spec = "tgt" PROVE v \in o.running \cup o.completed
    <3>1. CASE mw.obj.phase = "BeginLiveMigration"
      <4>1. mw.pc \in SwapPCs
        BY <1>2, <3>1 DEF TaskEnds, CopyInv, TaskOfPhase, SwapPCs
      <4>2. mw.todo = {} /\ mw.obj.running \subseteq o.running \cup o.completed
        BY <2>1, <2>5, <3>1 DEF EndOfTask, Carries, Excused
      <4>3. v \in mw.obj.running \cup mw.obj.completed \cup mw.todo
        BY <2>5, <4>1 DEF AccountInv
      <4>. QED BY <2>4, <4>2, <4>3
    <3>2. CASE mw.obj.phase = "Canceling"
      <4>1. o.phase \in CancelingPhases
        BY <2>1, <3>2 DEF EndOfTask, CancelingPhases, CancelPhases
      <4>2. NoDelete
        BY <2>5, <4>1 DEF Excused, NoDelete
      <4>3. mw.obj.running = {}
        BY <3>2, <4>2 DEF NoCancelInv, Uncancelled, CancelingPhases
      <4>4. v \in mw.obj.running \cup mw.obj.completed
        BY <2>5, <3>2, <4>2 DEF AccountInv, Accounted, Excused, NoDelete
      <4>. QED BY <2>4, <4>3, <4>4
    <3>3. CASE mw.obj.phase \notin {"BeginLiveMigration", "Canceling"}
      <4>1. mw.obj.running \subseteq o.running \cup o.completed
        BY <2>1, <3>3 DEF EndOfTask, Carries
      <4>2. ~Excused(mw.obj)
        BY <2>1, <2>5, <3>3 DEF EndOfTask, Excused, CancelingPhases, CancelPhases
      <4>3. v \in mw.obj.running \cup mw.obj.completed
        BY <2>5, <4>2 DEF AccountInv, Accounted
      <4>. QED BY <2>4, <4>1, <4>3
    <3>. QED BY <3>1, <3>2, <3>3
  <2>6. Current' => Accounted(mw.obj)'
    BY <2>2, <2>3, <2>5 DEF Accounted, Excused
  <2>7. mw'.pc \notin SwapPCs
    BY <2>1 DEF SwapPCs
  <2>8. \A m \in Migs : Accounted(mig[m])'
    BY <2>2 DEF AccountInv, Accounted, Excused
  <2>9. Current' => mig'[mw'.m].completed \subseteq mw'.obj.completed
    BY <2>2, <2>3, <2>4 DEF AccountInv
  <2>. QED BY <2>6, <2>7, <2>8, <2>9 DEF AccountInv
<1>3. CASE LoopStep /\ mw.pc \in SwapPCs
  <2>1. /\ UNCHANGED <<mig, stale>> /\ mw'.m = mw.m /\ mw'.obj.phase = mw.obj.phase
        /\ mw'.obj.completed = mw.obj.completed /\ mw'.sources = mw.sources
    BY <1>3 DEF LoopStep, LoopGoesOn
  <2>2. /\ mw'.pc \in SwapPCs /\ mw'.todo \subseteq mw.todo
        /\ mw'.pc # "BeginLiveMigration" => mw'.at \in mw'.todo
        /\ mw.todo \subseteq mw'.todo \cup mw'.obj.running
        /\ mw.obj.running \subseteq mw'.obj.running
        /\ \A v \in VMs : vm'[v].spec # vm[v].spec => v \in mw.todo
    BY <1>3, SwapLoop DEF AccountInv, RecordInv
  <2>3. mw.m \in Migs
    BY <1>3 DEF TypeInv, SwapPCs
  <2>4. (\A m \in Migs : Excused(mig[m])') /\ Excused(mw.obj)'
    BY <1>3, <2>1, <2>3, SwapsInBegin DEF Excused, Undisturbed, OneMigration
  <2>5. Current' => Current
    BY <1>3, <2>1 DEF Current, SwapPCs
  <2>6. Current' => mig'[mw'.m].completed \subseteq mw'.obj.completed
    BY <2>1, <2>5 DEF AccountInv
  <2>7. \A v \in mw'.todo : mw'.sources[v] # "none"
    BY <1>3, <2>1, <2>2 DEF AccountInv
  <2>8. ASSUME Current', NEW v \in VMs, vm'[v].spec = "tgt"
        PROVE  v \in mw'.obj.running \cup mw'.obj.completed \cup mw'.todo
    <3>1. vm[v].spec = "tgt" => v \in mw.obj.running \cup mw.obj.completed \cup mw.todo
      BY <1>3, <2>5, <2>8 DEF AccountInv
    <3>. QED BY <2>1, <2>2, <2>8, <3>1
  <2>. QED BY <2>2, <2>4, <2>6, <2>7, <2>8 DEF AccountInv, Accounted
<1>4. CASE LoopStep /\ mw.pc = "Canceling"
  <2>1. /\ UNCHANGED <<mig, stale>> /\ mw'.m = mw.m /\ mw'.obj = mw.obj /\ mw'.pc = mw.pc
        /\ \A v \in VMs : vm'[v].spec = "tgt" => vm[v].spec = "tgt"
    BY <1>4, CancelLoop DEF LoopStep, LoopGoesOn
  <2>2. \A m \in Migs : Accounted(mig[m])'
    BY <2>1 DEF AccountInv, Accounted, Excused
  <2>3. Accounted(mw.obj) => Accounted(mw.obj)'
    BY <2>1 DEF Accounted, Excused
  <2>4. (Current' => Current) /\ mw'.pc \notin SwapPCs
    BY <1>4, <2>1 DEF Current, SwapPCs
  <2>. QED BY <2>1, <2>2, <2>3, <2>4 DEF AccountInv
<1>5. Current => mw.m \in Migs
  BY DEF Current, TypeInv
<1>6. CASE PlanReconcile \/ PlanWorkerStep \/ ClusterMoves \/ DeletePlan
  <2>1. UNCHANGED <<mig, mw>> /\ \A v \in VMs : vm'[v].spec = vm[v].spec
    BY <1>6, PlanSteps, ClusterSpecs DEF ClusterMoves, DeletePlan, clusterVars
  <2>2. \A m \in Migs : m \in stale => m \in stale'
    <3>1. PlanKey \notin Migs
      BY ClusterAssumption DEF PlanKey
    <3>. QED BY <1>6, <3>1, PlanSteps DEF ClusterMoves, DeletePlan
  <2>3. Current' => Current
    <3>1. mw.pc \notin {"idle", "down"} => mw.m \in Migs
      BY DEF TypeInv
    <3>. QED BY <2>1, <2>2, <3>1 DEF Current
  <2>. QED BY <1>5, <2>1, <2>3, AccountLeft
<1>7. ASSUME NEW m \in Migs, CreateMigration(m) \/ DeleteMigration(m) \/ CollectGarbage(m)
      PROVE  AccountInv'
  <2>1. UNCHANGED <<mw, vm>> /\ (Current' => Current)
    BY <1>7, OwnerShape DEF Current
  <2>2. \A n \in Migs : /\ mig'[n].running = mig[n].running /\ mig'[n].completed = mig[n].completed
                        /\ \/ mig'[n].phase = mig[n].phase
                           \/ mig[n].phase = "Absent" /\ mig'[n].phase = ""
                           \/ mig'[n].phase = "Gone" /\ ~mig[n].fin
    BY <1>7, OwnerShape
  <2>. QED BY <1>5, <2>1, <2>2, AccountLeft
<1>8. CASE Crash \/ Restart
  <2>1. UNCHANGED <<mig, vm>> /\ mw'.pc \in {"idle", "down"}
    BY <1>8 DEF Crash, Restart, clusterVars, IdleWorker
  <2>. QED BY <2>1 DEF AccountInv, Accounted, Excused, Current, SwapPCs
<1>9. LoopStep => mw.pc \in SwapPCs \/ mw.pc = "Canceling"
  BY DEF LoopStep
<1>. QED BY <1>1, <1>2, <1>3, <1>4, <1>6, <1>7, <1>8, <1>9, StepKinds, ReadAccount

\* In an initial state every VM is fit and names its source.
LEMMA InitialVMs == Init => mw = IdleWorker /\ \A v \in VMs : vm[v].fit /\ vm[v].spec = "src"
<1>. SUFFICES ASSUME Init PROVE mw = IdleWorker /\ \A v \in VMs : vm[v].fit /\ vm[v].spec = "src"
  OBVIOUS
<1>1. PICK on \in SUBSET VMs :
        vm = [v \in VMs |-> [spec |-> "src", strategy |-> FALSE,
                             disk |-> IF v \in on THEN "src" ELSE "none", fit |-> TRUE]]
  BY DEF Init, ClusterInit
<1>2. mw = IdleWorker
  BY DEF Init, MigInit
<1>. QED BY <1>1, <1>2

\* And the plan has no status.
LEMMA RecordInvInit == Init => RecordInv
<1>. SUFFICES ASSUME Init PROVE RecordInv
  OBVIOUS
<1>1. AllFit /\ \A v \in VMs : ~AtStake(v)
  BY InitialVMs, IdleCopy DEF AllFit, AtStake, SwapPCs
<1>2. SameLists(plan, NoPlan) /\ pw.obj = NoPlan /\ ~PlanCurrent
  BY DEF Init, PlanInit, NoPlan, IdlePlanWorker, SameLists, PlanCurrent
<1>3. Sound(plan) /\ Sound(pw.obj) /\ Intact(plan) /\ Intact(pw.obj)
  BY <1>2, EmptyRecord DEF SameLists, Sound, Intact, SourcesListed
<1>. QED BY <1>1, <1>2, <1>3 DEF RecordInv

\* No VM is to be accounted for.
LEMMA AccountInvInit == Init => AccountInv
<1>. SUFFICES ASSUME Init PROVE AccountInv
  OBVIOUS
<1>1. mw.pc = "idle" /\ \A v \in VMs : vm[v].spec = "src"
  BY InitialVMs, IdleCopy
<1>. QED BY <1>1 DEF AccountInv, Accounted, Current, SwapPCs

\* Only a migration swaps volumes.
Untouched == Migs = {} => \A v \in VMs : vm[v].spec = "src"

LEMMA UntouchedNext ==
  ASSUME TypeInv, CopyInv, Untouched, [Next]_vars
  PROVE  Untouched'
<1>. SUFFICES ASSUME Migs = {} PROVE \A v \in VMs : vm'[v].spec = vm[v].spec
  BY DEF Untouched
<1>1. mw.pc \in {"idle", "down"}
  BY DEF TypeInv
<1>2. ~(PersistMeta \/ PersistStatus) /\ ~TaskEnds /\ ~LoopStep
  BY <1>1 DEF PersistMeta, PersistStatus, TaskEnds, LoopStep, TaskPhases, Phases, SwapPCs
<1>. QED BY <1>2, StepKinds, PlanSteps, ClusterSpecs DEF DeletePlan, Crash, Restart, clusterVars

-----------------------------------------------------------------------------
(* The theorems *)

\* What all steps of the system keep, for one migration that is not disturbed.
SwapInv ==
  /\ TypeInv /\ CopyInv /\ PlanInv /\ FinalizerInv
  /\ NoDelete => NoCancelInv
  /\ RecordInv /\ AccountInv /\ Untouched

LEMMA SwapInvInit == Init => SwapInv
BY TypeInvInit, CopyInvInit, PlanInvInit, FinalizerInvInit, NoCancelInvInit, RecordInvInit,
   AccountInvInit, InitialVMs DEF SwapInv, Untouched

LEMMA SwapInvNext ==
  ASSUME Undisturbed, SwapInv, [Next]_vars
  PROVE  SwapInv'
BY TypeInvNext, CopyInvNext, PlanInvNext, FinalizerInvNext, NoCancelInvNext, RecordInvNext,
   AccountInvNext, UntouchedNext, Zenon DEF SwapInv

(***************************************************************************)
(* With one migration, VMs that stay fit and no failing API call in the    *)
(* plan controller, the plan status keeps the source of a swapped VM, for  *)
(* every set of VMs: validateStorageMigrationPossible finds it in one of   *)
(* its lists again, and healCompletedMigrations hides none, whatever is    *)
(* deleted, stopped, restarted or lost.                                    *)
(***************************************************************************)
THEOREM SourcesStayRecorded ==
  ASSUME Undisturbed
  PROVE  Spec => SourcesNotWiped
<1>. DEFINE Keeps == \A v \in VMs : vm[v].spec = "tgt" /\ KnowsSource(plan, v) /\ plan'.exists
                                      => KnowsSource(plan', v)
<1>1. SwapInv /\ [Next]_vars => SwapInv'
  BY SwapInvNext
<1>2. SwapInv /\ SwapInv' /\ [Next]_vars => [Keeps]_vars
  <2>. SUFFICES ASSUME SwapInv, SwapInv', [Next]_vars, NEW v \in VMs, vm[v].spec = "tgt",
                       KnowsSource(plan, v), plan'.exists
                PROVE  KnowsSource(plan', v)
    OBVIOUS
  <2>1. TypeInv /\ CopyInv
    BY DEF SwapInv
  <2>2. CASE plan' = plan
    BY <2>2
  <2>3. CASE UNCHANGED vm
    <3>1. Recorded(plan', v)
      BY <2>3 DEF SwapInv, RecordInv, AtStake
    <3>. QED BY <3>1 DEF Recorded, KnowsSource
  <2>. QED BY <2>1, <2>2, <2>3, StepKinds, ReadShape, WriteShape, PlanSteps, OwnerShape
           DEF TaskEnds, LoopStep, ClusterMoves, DeletePlan, Crash, Restart, clusterVars
<1>. QED BY <1>1, <1>2, SwapInvInit, PTL DEF Spec, SourcesNotWiped

(***************************************************************************)
(* And without a delete call by the user no swapped VM is forgotten: the   *)
(* loop of handleBeginLiveMigrationPhase may stop anywhere, its writes may *)
(* be lost and the process may die, the migration lists the VM or meets it *)
(* again.                                                                  *)
(***************************************************************************)
THEOREM SwapsStayAccounted ==
  ASSUME Undisturbed, NoDelete
  PROVE  Spec => []SwapAccounted
<1>1. SwapInv /\ [Next]_vars => SwapInv'
  BY SwapInvNext
<1>2. SwapInv => SwapAccounted
  <2>. SUFFICES ASSUME SwapInv, NEW v \in VMs, vm[v].spec = "tgt"
                PROVE  \E m \in Migs : \/ v \in mig[m].running \cup mig[m].completed
                                       \/ mig[m].phase = "BeginLiveMigration"
    BY DEF SwapAccounted
  <2>1. PICK m \in Migs : TRUE
    BY DEF SwapInv, Untouched
  <2>2. Accounted(mig[m])
    BY DEF SwapInv, AccountInv
  <2>. QED BY <2>2 DEF Accounted, Excused, NoDelete
<1>. QED BY <1>1, <1>2, SwapInvInit, PTL DEF Spec
=============================================================================
