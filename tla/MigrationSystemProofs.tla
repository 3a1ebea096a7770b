------------------------ MODULE MigrationSystemProofs ------------------------
(***************************************************************************)
(* Proofs about MigrationSystem, for every set of VMs and migrations, each *)
(* retention policy and every environment.                                 *)
(***************************************************************************)
EXTENDS MigrationSystem, TLAPS

-----------------------------------------------------------------------------
(* Types of the objects the controllers build *)

\* An empty migration object and an idle worker have their types.
LEMMA IdleTypes == NoMig \in MigObj /\ IdleWorker \in Worker /\ NoPlan \in PlanObj
                   /\ IdlePlanWorker \in PlanWorker
<1>1. NoMig \in MigObj
  BY DEF NoMig, MigObj, Phases
<1>2. IdleWorker \in Worker
  BY <1>1 DEF IdleWorker, Worker, Sources
<1>3. NoPlan \in PlanObj
  BY DEF NoPlan, PlanObj, Sources
<1>4. IdlePlanWorker \in PlanWorker
  BY <1>3 DEF IdlePlanWorker, PlanWorker
<1>. QED BY <1>1, <1>2, <1>3, <1>4

\* What persistMigration still has to write is a worker state.
LEMMA ToPersistType ==
  ASSUME NEW m \in Migs, NEW o \in MigObj
  PROVE  /\ ToPersist(m, o) \in Worker
         /\ ToPersist(m, o).pc \in {"idle", "meta", "status"}
         /\ ToPersist(m, o).pc # "idle" => ToPersist(m, o).m = m /\ ToPersist(m, o).obj = o
         /\ ToPersist(m, o).pc = "idle" => ToPersist(m, o) = IdleWorker
<1>1. IdleWorker \in Worker
  BY IdleTypes
<1>2. [IdleWorker EXCEPT !.pc = "meta", !.m = m, !.obj = o] \in Worker
  BY <1>1 DEF Worker
<1>3. [IdleWorker EXCEPT !.pc = "status", !.m = m, !.obj = o] \in Worker
  BY <1>1 DEF Worker
<1>. QED BY <1>1, <1>2, <1>3 DEF ToPersist, IdleWorker

-----------------------------------------------------------------------------
(* The cluster *)

\* Deleting claims keeps the types of claim and data.
LEMMA DeleteClaimsType ==
  ASSUME ClusterTypeOK, NEW D, DeleteClaims(D)
  PROVE  /\ claim' \in [VMs -> [Claims -> ClaimStates]]
         /\ data' \in [VMs -> SUBSET Claims]
BY DEF ClusterTypeOK, DeleteClaims, ClaimStates

\* Releasing claims keeps the types of claim and data.
LEMMA ReleaseType ==
  ASSUME ClusterTypeOK, NEW v \in VMs, NEW d, NEW a, NEW latest \in SUBSET Claims,
         Release(v, d, a, latest)
  PROVE  /\ claim' \in [VMs -> [Claims -> ClaimStates]]
         /\ data' \in [VMs -> SUBSET Claims]
BY DEF ClusterTypeOK, Release, ClaimStates

\* A VMIM that starts keeps the type of vmim.
LEMMA VMIMChangeType ==
  ASSUME vmim \in [VMs -> VMIMType], NEW v \in VMs
  PROVE  \A a \in Claims \cup {"none", "evacuate"} : \A since \in SUBSET Migs :
           [vmim EXCEPT ![v] = [@ EXCEPT !.act = a, !.since = since]] \in [VMs -> VMIMType]
<1>. TAKE a \in Claims \cup {"none", "evacuate"}
<1>. TAKE since \in SUBSET Migs
<1>1. [vmim[v] EXCEPT !.act = a, !.since = since] \in VMIMType
  BY DEF VMIMType
<1>. QED BY <1>1

\* So does one that ends.
LEMMA VMIMEndType ==
  ASSUME vmim \in [VMs -> VMIMType], NEW v \in VMs
  PROVE  [vmim EXCEPT ![v] = [@ EXCEPT !.act = "none", !.since = {}]] \in [VMs -> VMIMType]
<1>1. [vmim[v] EXCEPT !.act = "none", !.since = {}] \in VMIMType
  BY DEF VMIMType
<1>. QED BY <1>1

\* Every step of KubeVirt and CDI keeps the types of the cluster's state.
LEMMA ClusterStepType ==
  ASSUME ClusterTypeOK, NEW v \in VMs, NEW existing \in SUBSET Migs, ClusterStep(v, existing)
  PROVE  ClusterTypeOK'
<1>. USE DEF ClusterTypeOK
<1>1. CASE CreateVMIM(v, existing)
  <2>1. vm[v].spec \in Claims
    BY DEF VMType
  <2>2. vmim' \in [VMs -> VMIMType]
    BY <1>1, <2>1, VMIMChangeType DEF CreateVMIM
  <2>. QED BY <1>1, <2>2 DEF CreateVMIM
<1>2. CASE VMIMSucceeds(v)
  <2>. DEFINE to == IF vmim[v].act = "evacuate" THEN vm[v].disk ELSE vmim[v].act
              latest == IF vm[v].disk \in data[v] THEN {to} ELSE data[v]
  <2>1. latest \in SUBSET Claims
    BY <1>2 DEF VMIMSucceeds, VMType, VMIMType, Claims
  <2>2. claim' \in [VMs -> [Claims -> ClaimStates]] /\ data' \in [VMs -> SUBSET Claims]
    <3>1. Release(v, to, "none", latest)
      BY <1>2 DEF VMIMSucceeds
    <3>. HIDE DEF to, latest
    <3>. QED BY <3>1, <2>1, ReleaseType
  <2>3. vm' \in [VMs -> VMType]
    <3>1. to \in Claims \cup {"none"}
      BY DEF VMType, VMIMType
    <3>2. vm' = [vm EXCEPT ![v].disk = to]
      BY <1>2 DEF VMIMSucceeds
    <3>. HIDE DEF to
    <3>. QED BY <3>1, <3>2 DEF VMType
  <2>4. vmim' \in [VMs -> VMIMType]
    BY <1>2 DEF VMIMSucceeds, VMIMType
  <2>. QED BY <2>2, <2>3, <2>4
<1>3. CASE CloneSucceeds(v)
  BY <1>3 DEF CloneSucceeds, ClaimStates, Claims
<1>4. CASE Evacuate(v, existing)
  <2>1. vmim' \in [VMs -> VMIMType]
    BY <1>4, VMIMChangeType DEF Evacuate
  <2>. QED BY <1>4, <2>1 DEF Evacuate
<1>5. CASE VMIMFails(v)
  <2>1. vm' \in [VMs -> VMType] /\ vmim' \in [VMs -> VMIMType]
    <3>1. vmim' = [vmim EXCEPT ![v] = [@ EXCEPT !.act = "none", !.since = {}]]
      BY <1>5 DEF VMIMFails
    <3>2. vmim' \in [VMs -> VMIMType]
      BY <3>1, VMIMEndType
    <3>. QED BY <1>5, <3>2 DEF VMIMFails
  <2>2. data[v] \in SUBSET Claims
    OBVIOUS
  <2>3. claim' \in [VMs -> [Claims -> ClaimStates]] /\ data' \in [VMs -> SUBSET Claims]
    BY <1>5, <2>2, ReleaseType DEF VMIMFails
  <2>. QED BY <2>1, <2>3
<1>6. CASE StopVM(v)
  <2>0. vm' = [vm EXCEPT ![v].disk = "none"]
    BY <1>6 DEF StopVM
  <2>1. vm' \in [VMs -> VMType] /\ vmim' \in [VMs -> VMIMType]
    <3>1. vm' \in [VMs -> VMType]
      BY <2>0 DEF VMType
    <3>2. vmim' = [vmim EXCEPT ![v] = [@ EXCEPT !.act = "none", !.since = {}]]
      BY <1>6 DEF StopVM
    <3>3. vmim' \in [VMs -> VMIMType]
      BY <3>2, VMIMEndType
    <3>. QED BY <3>1, <3>3
  <2>2. data[v] \in SUBSET Claims
    OBVIOUS
  <2>3. claim' \in [VMs -> [Claims -> ClaimStates]] /\ data' \in [VMs -> SUBSET Claims]
    BY <1>6, <2>2, ReleaseType DEF StopVM
  <2>. QED BY <2>1, <2>3
<1>7. CASE StartVM(v)
  BY <1>7 DEF StartVM, VMType, Claims
<1>8. CASE FitnessChanges(v)
  <2>1. [vm[v] EXCEPT !.fit = ~@] \in VMType
    BY DEF VMType
  <2>2. vm' = [vm EXCEPT ![v] = [vm[v] EXCEPT !.fit = ~@]]
    BY <1>8 DEF FitnessChanges
  <2>3. vm' \in [VMs -> VMType]
    BY <2>1, <2>2
  <2>. QED BY <1>8, <2>3 DEF FitnessChanges
<1>. QED
  BY <1>1, <1>2, <1>3, <1>4, <1>5, <1>6, <1>7, <1>8 DEF ClusterStep, ClusterProgress

-----------------------------------------------------------------------------
(* The migration controller *)

\* TypeOK is not inductive: a worker that is busy works on a migration, and
\* one in the middle of a swap on a VM.
TypeInv ==
  /\ TypeOK
  /\ mw.pc \notin {"idle", "down"} => mw.m \in Migs
  /\ mw.pc \in {"liveMigrateVM", "offlineMigrateVM"} => mw.at \in VMs

\* A step that ends a task with a well-typed copy keeps the worker's type.
LEMMA ReturnType ==
  ASSUME TypeInv, mw.pc \notin {"idle", "down"}, NEW o \in MigObj, Return(o)
  PROVE  /\ mw' \in Worker
         /\ mw'.pc # "idle" => mw'.m \in Migs
         /\ mw'.pc \notin {"liveMigrateVM", "offlineMigrateVM"}
<1>1. mw.m \in Migs
  BY DEF TypeInv
<1>. QED BY <1>1, ToPersistType DEF Return

\* Reading a migration and picking its task.
LEMMA ReconcileType ==
  ASSUME TypeInv, NEW m \in Migs, Reconcile(m), UNCHANGED pw
  PROVE  TypeInv'
<1>. DEFINE owned == [mig[m] EXCEPT !.owned = @ \/ plan.exists]
            o == [owned EXCEPT !.phase = TaskPhase(owned)]
            fresh == [IdleWorker EXCEPT !.pc = o.phase, !.m = m, !.obj = o,
                        !.sources = ReadSources, !.sourcesDone = ReadCompleted,
                        !.todo = LoopOver(o, ReadSources)]
<1>1. /\ mig[m] \in MigObj /\ plan \in PlanObj
      /\ owned \in MigObj /\ owned.phase = mig[m].phase
  BY DEF TypeInv, TypeOK, MigObj, PlanObj
<1>2. [mig[m] EXCEPT !.fin = FALSE] \in MigObj
  BY <1>1 DEF MigObj
<1>3. ASSUME Exists(m), mig[m].phase \notin OverPhases
      PROVE  o.phase \in TaskPhases /\ o \in MigObj
  <2>. HIDE DEF owned
  <2>1. TaskPhase(owned) \in TaskPhases
    BY <1>1, <1>3 DEF Exists, OverPhases, TaskPhase, TaskPhases, Phases, MigObj
  <2>2. TaskPhase(owned) \in Phases
    BY <2>1 DEF TaskPhases
  <2>. QED BY <1>1, <2>1, <2>2 DEF MigObj
<1>4. ReadSources \in [VMs -> Sources] /\ ReadCompleted \in SUBSET (VMs \X Sources)
  BY <1>1 DEF ReadSources, ReadCompleted, PlanObj, Sources
<1>5. ASSUME o \in MigObj
      PROVE  LoopOver(o, ReadSources) \in SUBSET VMs
  BY <1>5 DEF LoopOver, MigObj
<1>6. ASSUME Exists(m), mig[m].phase \notin OverPhases
      PROVE  fresh \in Worker /\ fresh.m = m /\ fresh.pc \in TaskPhases
  <2>. HIDE DEF o
  <2>. QED BY <1>3, <1>4, <1>5, <1>6, IdleTypes DEF Worker, TaskPhases
<1>7. /\ mw' \in Worker
      /\ mw'.pc # "idle" => mw'.m \in Migs
      /\ mw'.pc \notin {"liveMigrateVM", "offlineMigrateVM"}
  <2>1. CASE mw' = ToPersist(m, [mig[m] EXCEPT !.fin = FALSE])
    BY <2>1, <1>2, ToPersistType
  <2>2. CASE mw' = ToPersist(m, owned)
    BY <2>2, <1>1, ToPersistType
  <2>3. CASE Exists(m) /\ mig[m].phase \notin OverPhases /\ mw' = fresh
    <3>. HIDE DEF fresh
    <3>. QED BY <2>3, <1>6 DEF TaskPhases, Phases
  <2>. QED BY <2>1, <2>2, <2>3 DEF Reconcile
<1>8. stale' \subseteq Migs \cup {PlanKey}
  BY DEF TypeInv, TypeOK, Reconcile
<1>. QED BY <1>7, <1>8 DEF TypeInv, TypeOK, Reconcile, clusterVars, ClusterTypeOK

\* The loop of BeginLiveMigration.
LEMMA RunBeginType ==
  ASSUME TypeInv, RunBegin, UNCHANGED pw
  PROVE  TypeInv'
<1>1. /\ mw \in Worker /\ mw.obj \in MigObj
      /\ claim \in [VMs -> [Claims -> ClaimStates]]
      /\ vm \in [VMs -> VMType]
  BY DEF TypeInv, TypeOK, ClusterTypeOK, Worker
<1>2. ASSUME NEW v \in VMs
      PROVE  Swapped(v) \in Worker /\ Swapped(v).m = mw.m /\ Swapped(v).pc = "BeginLiveMigration"
  <2>1. [mw.obj EXCEPT !.running = @ \cup {v}] \in MigObj
    BY <1>1 DEF MigObj
  <2>2. "BeginLiveMigration" \in TaskPhases
    BY DEF TaskPhases, Phases
  <2>. QED BY <1>1, <2>1, <2>2 DEF Swapped, Worker
<1>3. ASSUME NEW v \in VMs, NEW state \in {"bound", "pending"}, NEW c, CreateTargetDV(v, state, c)
      PROVE  claim' \in [VMs -> [Claims -> ClaimStates]]
  BY <1>1, <1>3 DEF CreateTargetDV, Claims, ClaimStates
<1>4. ASSUME NEW v \in VMs, NEW strategy \in BOOLEAN, PatchVM(v, "tgt", strategy)
      PROVE  vm' \in [VMs -> VMType]
  <2>1. vm[v] \in VMType
    BY <1>1
  <2>2. [vm[v] EXCEPT !.spec = "tgt", !.strategy = @ \/ strategy] \in VMType
    BY <2>1 DEF VMType, Claims
  <2>. QED BY <1>1, <1>4, <2>2 DEF PatchVM
<1>5. ASSUME NEW v \in VMs, BeginSkipVM(v)
      PROVE  TypeInv'
  <2>1. mw' \in Worker /\ mw'.m = mw.m /\ mw'.pc = mw.pc
    BY <1>1, <1>5 DEF BeginSkipVM, Worker
  <2>. QED BY <1>5, <2>1 DEF BeginSkipVM, TypeInv, TypeOK, clusterVars, ClusterTypeOK
<1>6. ASSUME NEW v \in VMs, LiveMigrateCreateDV(v)
      PROVE  TypeInv'
  <2>1. mw' \in Worker /\ mw'.m = mw.m /\ mw'.at = v
    BY <1>1, <1>6 DEF LiveMigrateCreateDV, Worker
  <2>2. claim' \in [VMs -> [Claims -> ClaimStates]]
    BY <1>3, <1>6 DEF LiveMigrateCreateDV
  <2>. QED BY <1>6, <2>1, <2>2 DEF LiveMigrateCreateDV, TypeInv, TypeOK, ClusterTypeOK
<1>7. ASSUME NEW v \in VMs, OfflineMigrateSwap(v)
      PROVE  TypeInv'
  <2>1. mw' \in Worker /\ mw'.m = mw.m /\ mw'.at = v
    BY <1>1, <1>7 DEF OfflineMigrateSwap, Worker
  <2>2. vm' \in [VMs -> VMType]
    BY <1>4, <1>7 DEF OfflineMigrateSwap
  <2>. QED BY <1>7, <2>1, <2>2 DEF OfflineMigrateSwap, TypeInv, TypeOK, ClusterTypeOK
<1>8. CASE LiveMigrateSwap
  <2>1. mw.at \in VMs /\ mw.m \in Migs
    BY <1>8 DEF LiveMigrateSwap, TypeInv
  <2>2. vm' \in [VMs -> VMType]
    BY <1>4, <1>8, <2>1 DEF LiveMigrateSwap
  <2>. QED BY <1>2, <1>8, <2>1, <2>2 DEF LiveMigrateSwap, TypeInv, TypeOK, ClusterTypeOK
<1>9. CASE OfflineMigrateCreateDV
  <2>1. mw.at \in VMs /\ mw.m \in Migs
    BY <1>9 DEF OfflineMigrateCreateDV, TypeInv
  <2>2. claim' \in [VMs -> [Claims -> ClaimStates]]
    BY <1>3, <1>9, <2>1 DEF OfflineMigrateCreateDV
  <2>. QED BY <1>2, <1>9, <2>1, <2>2 DEF OfflineMigrateCreateDV, TypeInv, TypeOK, ClusterTypeOK
<1>10. CASE BeginFails
  <2>1. mw.pc \notin {"idle", "down"}
    BY <1>10 DEF BeginFails, SwapPCs
  <2>. QED BY <1>1, <1>10, <2>1, ReturnType DEF BeginFails, TypeInv, TypeOK, clusterVars, ClusterTypeOK
<1>11. CASE BeginDone
  <2>1. [mw.obj EXCEPT !.phase = "WaitForLiveMigrationToComplete"] \in MigObj
    BY <1>1 DEF MigObj, Phases
  <2>. QED BY <1>11, <2>1, ReturnType DEF BeginDone, TypeInv, TypeOK, clusterVars, ClusterTypeOK
<1>. QED BY <1>5, <1>6, <1>7, <1>8, <1>9, <1>10, <1>11 DEF RunBegin

\* The loop of Canceling.
LEMMA RunCancelingType ==
  ASSUME TypeInv, RunCanceling, UNCHANGED pw
  PROVE  TypeInv'
<1>1. /\ mw \in Worker /\ mw.obj \in MigObj /\ vm \in [VMs -> VMType]
  BY DEF TypeInv, TypeOK, ClusterTypeOK, Worker
<1>2. ASSUME NEW v \in VMs, CancelVM(v)
      PROVE  TypeInv'
  <2>. DEFINE waits == [mw EXCEPT !.todo = @ \ {v}, !.kept = @ \cup {v}]
              cancelled == [mw EXCEPT !.todo = @ \ {v}]
  <2>1. mw' \in Worker /\ mw'.m = mw.m /\ mw'.pc = mw.pc /\ mw'.at = mw.at
    <3>1. waits \in Worker /\ waits.m = mw.m /\ waits.pc = mw.pc /\ waits.at = mw.at
      BY <1>1 DEF Worker
    <3>2. cancelled \in Worker /\ cancelled.m = mw.m /\ cancelled.pc = mw.pc /\ cancelled.at = mw.at
      BY <1>1 DEF Worker
    <3>3. mw' = waits \/ mw' = cancelled
      BY <1>2 DEF CancelVM
    <3>. QED BY <3>1, <3>2, <3>3
  <2>2. vm' \in [VMs -> VMType]
    <3>1. CASE PatchVM(v, "src", TRUE)
      <4>1. vm[v] \in VMType
        BY <1>1
      <4>2. [vm[v] EXCEPT !.spec = "src", !.strategy = @ \/ TRUE] \in VMType
        BY <4>1 DEF VMType, Claims
      <4>. QED BY <1>1, <3>1, <4>2 DEF PatchVM
    <3>. QED BY <1>1, <1>2, <3>1 DEF CancelVM
  <2>. QED BY <1>2, <2>1, <2>2 DEF CancelVM, TypeInv, TypeOK, ClusterTypeOK
<1>3. CASE CancelFails
  BY <1>1, <1>3, ReturnType DEF CancelFails, TypeInv, TypeOK, clusterVars, ClusterTypeOK
<1>4. CASE CancelDone
  <2>. DEFINE o == [mw.obj EXCEPT !.running = mw.kept, !.cancelled = mw.obj.running \ mw.kept,
                      !.phase = IF mw.kept = {} THEN "CleanupCancelledMigrations" ELSE @]
  <2>1. o \in MigObj
    <3>1. mw.kept \in SUBSET VMs /\ mw.obj.running \ mw.kept \in SUBSET VMs
      BY <1>1 DEF Worker, MigObj
    <3>2. "CleanupCancelledMigrations" \in Phases
      BY DEF Phases
    <3>. QED BY <1>1, <3>1, <3>2 DEF MigObj
  <2>2. Return(o)
    BY <1>4 DEF CancelDone
  <2>. HIDE DEF o
  <2>. QED BY <1>4, <2>1, <2>2, ReturnType DEF CancelDone, TypeInv, TypeOK, clusterVars, ClusterTypeOK
<1>. QED BY <1>2, <1>3, <1>4 DEF RunCanceling

\* The phases that are a single step, and the two writes of persistMigration.
LEMMA MigWorkerStepType ==
  ASSUME TypeInv, MigWorkerStep, UNCHANGED pw
  PROVE  TypeInv'
<1>1. /\ mw \in Worker /\ mw.obj \in MigObj /\ ClusterTypeOK
      /\ mig \in [Migs -> MigObj] /\ plan \in PlanObj
      /\ mw.pc \notin {"idle", "down"} => mw.m \in Migs
  BY DEF TypeInv, TypeOK, Worker
<1>2. ASSUME NEW p \in Phases
      PROVE  [mw.obj EXCEPT !.phase = p] \in MigObj
  BY <1>1 DEF MigObj
<1>3. CASE RunStarted
  <2>1. [mw.obj EXCEPT !.fin = TRUE, !.phase = "RefreshStorageMigrationPlan"] \in MigObj
    BY <1>1 DEF MigObj, Phases
  <2>. QED BY <1>3, <2>1, ReturnType DEF RunStarted, TypeInv, TypeOK, clusterVars, ClusterTypeOK
<1>4. CASE RunRefresh
  <2>1. mw.pc \notin {"idle", "down"}
    BY <1>4 DEF RunRefresh
  <2>2. "WaitForStorageMigrationPlanRefreshCompletion" \in Phases
    BY DEF Phases
  <2>3. plan' \in PlanObj /\ stale' \subseteq Migs \cup {PlanKey}
    BY <1>1, <1>4 DEF RunRefresh, PlanObj, TypeInv, TypeOK
  <2>4. \E o \in MigObj : Return(o)
    BY <1>1, <1>2, <1>4, <2>2 DEF RunRefresh
  <2>. QED BY <1>4, <2>1, <2>3, <2>4, ReturnType DEF RunRefresh, TypeInv, TypeOK, clusterVars, ClusterTypeOK
<1>5. CASE RunWaitForRefresh
  <2>1. mw.pc \notin {"idle", "down"}
    BY <1>5 DEF RunWaitForRefresh
  <2>2. "BeginLiveMigration" \in Phases
    BY DEF Phases
  <2>3. \E o \in MigObj : Return(o)
    BY <1>1, <1>2, <1>5, <2>2 DEF RunWaitForRefresh
  <2>. QED BY <1>5, <2>1, <2>3, ReturnType DEF RunWaitForRefresh, TypeInv, TypeOK, clusterVars, ClusterTypeOK
<1>6. CASE RunWaitForLiveMigration
  <2>1. mw.pc \notin {"idle", "down"}
    BY <1>6 DEF RunWaitForLiveMigration
  <2>2. ASSUME NEW done \in SUBSET mw.obj.running
        PROVE  /\ [mw.obj EXCEPT !.completed = @ \cup done] \in MigObj
               /\ [[mw.obj EXCEPT !.completed = @ \cup done] EXCEPT !.running = mw.obj.running \ done,
                     !.phase = IF mw.obj.running \ done = {} THEN "CleanupMigrationResources" ELSE @]
                   \in MigObj
    <3>1. "CleanupMigrationResources" \in Phases
      BY DEF Phases
    <3>2. mw.obj.running \ done \in SUBSET VMs /\ mw.obj.completed \cup done \in SUBSET VMs
      BY <1>1 DEF MigObj
    <3>. QED BY <1>1, <3>1, <3>2 DEF MigObj
  <2>3. \E o \in MigObj : Return(o)
    BY <1>6, <2>2 DEF RunWaitForLiveMigration
  <2>. QED BY <1>6, <2>1, <2>3, ReturnType DEF RunWaitForLiveMigration, TypeInv, TypeOK, clusterVars, ClusterTypeOK
<1>7. ASSUME NEW vms, CleanupCompletedVMIMs(vms)
      PROVE  vmim' \in [VMs -> VMIMType]
  BY <1>1, <1>7 DEF CleanupCompletedVMIMs, ClusterTypeOK, VMIMType
<1>8. CASE RunCleanupWaits
  <2>1. vmim' \in [VMs -> VMIMType]
    BY <1>1, <1>7, <1>8 DEF RunCleanupWaits, ClusterTypeOK
  <2>. QED BY <1>1, <1>8, <2>1, ReturnType DEF RunCleanupWaits, TypeInv, TypeOK, ClusterTypeOK
<1>9. CASE RunCleanupFails
  <2>1. vmim' \in [VMs -> VMIMType]
    BY <1>7, <1>9 DEF RunCleanupFails
  <2>2. claim' \in [VMs -> [Claims -> ClaimStates]] /\ data' \in [VMs -> SUBSET Claims]
    BY <1>1, <1>9, DeleteClaimsType DEF RunCleanupFails, ClusterTypeOK
  <2>. QED BY <1>1, <1>9, <2>1, <2>2, ReturnType DEF RunCleanupFails, TypeInv, TypeOK, ClusterTypeOK
<1>10. CASE RunCleanup
  <2>1. vmim' \in [VMs -> VMIMType]
    BY <1>7, <1>10 DEF RunCleanup
  <2>2. claim' \in [VMs -> [Claims -> ClaimStates]] /\ data' \in [VMs -> SUBSET Claims]
    BY <1>1, <1>10, DeleteClaimsType DEF RunCleanup, ClusterTypeOK
  <2>3. [mw.obj EXCEPT !.fin = FALSE, !.phase = "Completed"] \in MigObj
    BY <1>1 DEF MigObj, Phases
  <2>. QED BY <1>10, <2>1, <2>2, <2>3, ReturnType DEF RunCleanup, TypeInv, TypeOK, ClusterTypeOK
<1>11. CASE RunCleanupCancelled
  <2>1. vmim' \in [VMs -> VMIMType]
    BY <1>1, <1>7, <1>11 DEF RunCleanupCancelled, ClusterTypeOK
  <2>2. claim' \in [VMs -> [Claims -> ClaimStates]] /\ data' \in [VMs -> SUBSET Claims]
    BY <1>1, <1>11, DeleteClaimsType DEF RunCleanupCancelled, ClusterTypeOK
  <2>3. [mw.obj EXCEPT !.phase = IF PodsCleaned(mw.obj.completed) THEN "Canceled" ELSE @] \in MigObj
    <3>1. "Canceled" \in Phases
      BY DEF Phases
    <3>. QED BY <1>1, <3>1 DEF MigObj
  <2>4. mw.pc \notin {"idle", "down"} /\ \E o \in MigObj : Return(o)
    BY <1>1, <1>11, <2>3 DEF RunCleanupCancelled
  <2>. QED BY <1>11, <2>1, <2>2, <2>4, ReturnType DEF RunCleanupCancelled, TypeInv, TypeOK, ClusterTypeOK
<1>12. CASE PersistMeta
  <2>. DEFINE o == [mig[mw.m] EXCEPT !.fin = mw.obj.fin, !.owned = mw.obj.owned]
  <2>1. mw.m \in Migs /\ mig[mw.m] \in MigObj
    BY <1>1, <1>12 DEF PersistMeta
  <2>2. o \in MigObj /\ [o EXCEPT !.phase = "Gone"] \in MigObj
    BY <1>1, <2>1 DEF MigObj, Phases
  <2>3. mig' \in [Migs -> MigObj]
    <3>1. \/ mig' = mig
          \/ mig' = [mig EXCEPT ![mw.m] = o]
          \/ mig' = [mig EXCEPT ![mw.m] = [o EXCEPT !.phase = "Gone"]]
      BY <1>12, Zenon DEF PersistMeta
    <3>. HIDE DEF o
    <3>. QED BY <1>1, <2>2, <3>1
  <2>4. [mw EXCEPT !.pc = "status"] \in Worker
    BY <1>1 DEF Worker
  <2>5. mw' = IdleWorker \/ mw' = [mw EXCEPT !.pc = "status"]
    BY <1>12, Zenon DEF PersistMeta
  <2>6. mw' \in Worker /\ (mw'.pc # "idle" => mw'.m \in Migs) /\ mw'.pc \in {"idle", "status"}
    BY <1>1, <2>1, <2>4, <2>5, IdleTypes DEF IdleWorker, Worker
  <2>. QED BY <1>12, <2>3, <2>6 DEF PersistMeta, TypeInv, TypeOK, clusterVars, ClusterTypeOK
<1>13. CASE PersistStatus
  <2>1. mig' \in [Migs -> MigObj]
    <3>1. mig' = mig \/ mig' = [mig EXCEPT ![mw.m] = mw.obj]
      BY <1>13 DEF PersistStatus
    <3>. QED BY <1>1, <3>1
  <2>2. mw' \in Worker /\ mw'.pc = "idle"
    BY <1>13, IdleTypes DEF PersistStatus, IdleWorker
  <2>. QED BY <1>13, <2>1, <2>2 DEF PersistStatus, TypeInv, TypeOK, clusterVars, ClusterTypeOK
<1>. QED BY <1>3, <1>4, <1>5, <1>6, <1>8, <1>9, <1>10, <1>11, <1>12, <1>13,
            RunBeginType, RunCancelingType DEF MigWorkerStep

-----------------------------------------------------------------------------
(* The plan controller *)

\* The source an existing status entry records is a source.
LEMMA ExistingStatusType ==
  ASSUME NEW p \in PlanObj, NEW v \in VMs
  PROVE  ExistingStatus(p, v) \in Sources
<1>. DEFINE comp == {e[2] : e \in {f \in p.completed : f[1] = v}}
<1>1. comp \subseteq Sources
  BY DEF PlanObj
<1>2. p.rec[v] \in Sources /\ "none" \in Sources
  BY DEF PlanObj, Sources
<1>3. ASSUME comp # {}, comp # {"none"}
      PROVE  (CHOOSE s \in comp : s # "none") \in Sources
  <2>1. PICK s \in comp : s # "none"
    <3>. HIDE DEF comp
    <3>. QED BY <1>3
  <2>2. (CHOOSE t \in comp : t # "none") \in comp
    <3>. HIDE DEF comp
    <3>. QED BY <2>1
  <2>. QED BY <1>1, <2>2
<1>4. ExistingStatus(p, v) =
        CASE p.list[v] = "invalid" -> p.rec[v]
          [] p.list[v] # "invalid" /\ comp # {} ->
               IF comp = {"none"} THEN "none" ELSE CHOOSE s \in comp : s # "none"
          [] OTHER -> p.rec[v]
  BY DEF ExistingStatus
<1>. HIDE DEF comp
<1>5. CASE p.list[v] = "invalid"
  BY <1>2, <1>4, <1>5
<1>6. CASE p.list[v] # "invalid" /\ comp # {}
  BY <1>2, <1>3, <1>4, <1>6
<1>7. CASE p.list[v] # "invalid" /\ comp = {}
  BY <1>2, <1>4, <1>7
<1>. QED BY <1>5, <1>6, <1>7

\* The sources the validation computes and records are sources.
LEMMA SourceTypes ==
  ASSUME TypeInv, NEW v \in VMs
  PROVE  /\ \A st, k : CreateStatusVM(v, st, k) \in Sources
         /\ \A p \in PlanObj, c \in Sources : RecordedSource(p, v, c) \in Sources
<1>1. vm[v].spec \in Claims
  BY DEF TypeInv, TypeOK, ClusterTypeOK, VMType
<1>2. \A st, k : CreateStatusVM(v, st, k) \in Sources
  BY <1>1 DEF CreateStatusVM, Sources, Claims
<1>3. \A p \in PlanObj, c \in Sources : RecordedSource(p, v, c) \in Sources
  BY ExistingStatusType DEF RecordedSource, Sources
<1>. QED BY <1>2, <1>3

\* The validation loop builds a plan.
LEMMA ValidatedType ==
  ASSUME TypeInv, NEW p \in PlanObj, NEW st, NEW seen, NEW source \in [VMs -> Sources]
  PROVE  Validated(p, st, seen, source) \in PlanObj
<1>. DEFINE fits(v) == v \in seen /\ CanVMStorageMigrate(v)
            kept(v) == fits(v) /\ (source[v] # "none" \/ ExistingStatus(p, v) # "none")
            newList == [v \in VMs |-> IF kept(v) THEN ListFor(st) ELSE "none"]
            newRec == [v \in VMs |-> IF kept(v) THEN RecordedSource(p, v, source[v]) ELSE "none"]
            newCrit == p.crit \ (IF \A v \in seen : fits(v) THEN {} ELSE {"NotAllVirtualMachinesReady"})
<1>1. newList \in [VMs -> {"none", "ready", "inProgress", "invalid"}]
  <2>. HIDE DEF kept
  <2>. QED BY DEF ListFor
<1>2. newRec \in [VMs -> Sources]
  <2>1. \A v \in VMs : RecordedSource(p, v, source[v]) \in Sources
    BY SourceTypes
  <2>2. "none" \in Sources
    BY DEF Sources
  <2>. HIDE DEF kept
  <2>. QED BY <2>1, <2>2
<1>3. newCrit \in SUBSET CriticalTypes
  BY DEF PlanObj
<1>4. Validated(p, st, seen, source) =
        [p EXCEPT !.completed = {}, !.list = newList, !.rec = newRec, !.crit = newCrit]
  BY Zenon DEF Validated
<1>. HIDE DEF newList, newRec, newCrit
<1>. QED BY <1>1, <1>2, <1>3, <1>4 DEF PlanObj

\* The rest of the reconcile builds a plan.
LEMMA PlanStepTypes ==
  ASSUME TypeInv, NEW p \in PlanObj
  PROVE  /\ \A now : Checked(p, now) \in PlanObj
         /\ ProcessMigrations(p) \in PlanObj
         /\ Refreshed(p) \in PlanObj
         /\ Heal(p) \in PlanObj
<1>1. ASSUME NEW now PROVE Checked(p, now) \in PlanObj
  <2>. DEFINE bad == ConflictingPVCs(p, now)
              invalid == [p EXCEPT !.list = [v \in VMs |-> IF v \in bad THEN "invalid" ELSE @[v]],
                            !.crit = (@ \ {"ReconcileFailed"}) \cup {"InvalidPVCs"}]
              valid == [p EXCEPT !.crit = IF \A v \in VMs : p.list[v] = "none"
                                           THEN {"NotAllVirtualMachinesReady"} ELSE {}]
  <2>1. invalid \in PlanObj
    <3>. HIDE DEF bad
    <3>1. [v \in VMs |-> IF v \in bad THEN "invalid" ELSE p.list[v]]
             \in [VMs -> {"none", "ready", "inProgress", "invalid"}]
      BY DEF PlanObj
    <3>2. (p.crit \ {"ReconcileFailed"}) \cup {"InvalidPVCs"} \in SUBSET CriticalTypes
      BY DEF PlanObj, CriticalTypes
    <3>. QED BY <3>1, <3>2 DEF PlanObj
  <2>2. valid \in PlanObj
    BY DEF PlanObj, CriticalTypes
  <2>3. Checked(p, now) = IF bad # {} THEN invalid ELSE valid
    BY Zenon DEF Checked
  <2>. QED BY <2>1, <2>2, <2>3
<1>2. ProcessMigrations(p) \in PlanObj
  <2>. DEFINE moved == IF Existing = {} THEN {}
                       ELSE {v \in VMs : v \in mig[LastMigration].completed
                                           /\ p.list[v] \in {"ready", "inProgress"}}
              newDone == p.completed \cup {<<v, p.rec[v]>> : v \in moved}
              newList == [v \in VMs |-> IF v \in moved THEN "none" ELSE p.list[v]]
              newRec == [v \in VMs |-> IF v \in moved THEN "none" ELSE p.rec[v]]
  <2>1. moved \in SUBSET VMs
    OBVIOUS
  <2>2. ProcessMigrations(p) = [p EXCEPT !.completed = newDone, !.list = newList, !.rec = newRec]
    BY DEF ProcessMigrations
  <2>. HIDE DEF moved
  <2>3. newDone \in SUBSET (VMs \X Sources)
    BY <2>1 DEF PlanObj
  <2>4. newList \in [VMs -> {"none", "ready", "inProgress", "invalid"}]
    BY DEF PlanObj
  <2>5. newRec \in [VMs -> Sources]
    BY DEF PlanObj, Sources
  <2>. HIDE DEF newDone, newList, newRec
  <2>. QED BY <2>2, <2>3, <2>4, <2>5 DEF PlanObj
<1>3. Refreshed(p) \in PlanObj
  BY DEF Refreshed, PlanObj
<1>4. Heal(p) \in PlanObj
  <2>1. VMs \X {"none"} \in SUBSET (VMs \X Sources)
    BY DEF Sources
  <2>. QED BY <2>1 DEF Heal, PlanObj
<1>. QED BY <1>1, <1>2, <1>3, <1>4

\* What persistPlan still has to write is a plan worker state.
LEMMA PlanToPersistType ==
  ASSUME NEW p \in PlanObj
  PROVE  PlanToPersist(p) \in PlanWorker
BY IdleTypes DEF PlanToPersist, PlanWorker

\* The end of a plan reconcile builds a plan worker state.
LEMMA AfterValidationType ==
  ASSUME TypeInv, NEW p \in PlanObj, AfterValidation(p)
  PROVE  pw' \in PlanWorker
<1>1. PICK q \in Processed(p) : pw' = PlanToPersist(Refreshed(q))
  BY DEF AfterValidation
<1>2. q \in PlanObj
  BY PlanStepTypes DEF Processed
<1>. QED BY <1>1, <1>2, PlanStepTypes, PlanToPersistType

\* Every reconcile of the plan.
LEMMA PlanReconcileType ==
  ASSUME TypeInv, PlanReconcile
  PROVE  TypeInv'
<1>1. plan \in PlanObj
  BY DEF TypeInv, TypeOK
<1>2. ASSUME PlanReconcileStarts, pw' \in PlanWorker
      PROVE  TypeInv'
  BY <1>2 DEF PlanReconcileStarts, TypeInv, TypeOK, clusterVars, ClusterTypeOK
<1>3. CASE PlanReconcileDeleting
  <2>1. [plan EXCEPT !.fin = FALSE] \in PlanObj
    BY <1>1 DEF PlanObj
  <2>. QED BY <1>2, <1>3, <2>1, PlanToPersistType, IdleTypes DEF PlanReconcileDeleting
<1>4. CASE PlanReconcileCompleted
  <2>. DEFINE read == [plan EXCEPT !.fin = TRUE, !.crit = @ \ {"ReconcileFailed"}]
  <2>1. read \in PlanObj
    BY <1>1 DEF PlanObj
  <2>2. Heal(read) \in PlanObj
    <3>. HIDE DEF read
    <3>. QED BY <2>1, PlanStepTypes
  <2>3. AfterValidation(Heal(read))
    BY <1>4 DEF PlanReconcileCompleted
  <2>4. pw' \in PlanWorker
    <3>. HIDE DEF read
    <3>. QED BY <2>2, <2>3, AfterValidationType
  <2>. QED BY <1>2, <1>4, <2>4 DEF PlanReconcileCompleted
<1>5. CASE PlanReconcileOpen
  <2>. DEFINE read == [plan EXCEPT !.fin = TRUE]
              source(st, knows) == [v \in VMs |-> CreateStatusVM(v, st, knows[v])]
              p(st, knows) == Validated(read, st, VMs, source(st, knows))
  <2>1. read \in PlanObj
    BY <1>1 DEF PlanObj
  <2>2. PICK st, now, knows : AfterValidation(Checked(p(st, knows), now))
    BY <1>5, Zenon DEF PlanReconcileOpen
  <2>3. source(st, knows) \in [VMs -> Sources]
    BY SourceTypes
  <2>4. p(st, knows) \in PlanObj
    <3>. HIDE DEF read, source
    <3>. QED BY <2>1, <2>3, ValidatedType
  <2>5. pw' \in PlanWorker
    <3>. HIDE DEF p
    <3>. QED BY <2>2, <2>4, PlanStepTypes, AfterValidationType
  <2>. QED BY <1>2, <1>5, <2>5 DEF PlanReconcileOpen
<1>6. CASE PlanReconcileFails
  <2>. DEFINE read == [plan EXCEPT !.fin = TRUE]
              source(st, knows) == [v \in VMs |-> CreateStatusVM(v, st, knows[v])]
              written(p) == AfterValidation(SetReconcileFailed(p))
  <2>1. read \in PlanObj
    BY <1>1 DEF PlanObj
  <2>2. ASSUME NEW p \in PlanObj, written(p)
        PROVE  pw' \in PlanWorker
    <3>1. SetReconcileFailed(p) \in PlanObj
      BY DEF PlanObj, CriticalTypes, SetReconcileFailed
    <3>. QED BY <2>2, <3>1, AfterValidationType
  <2>3. PICK st, seen, knows :
           \/ written(read)
           \/ written(Validated(read, st, seen, source(st, knows)))
    BY <1>6, Zenon DEF PlanReconcileFails
  <2>4. Validated(read, st, seen, source(st, knows)) \in PlanObj
    <3>1. source(st, knows) \in [VMs -> Sources]
      BY SourceTypes
    <3>. HIDE DEF read, source
    <3>. QED BY <2>1, <3>1, ValidatedType
  <2>5. pw' \in PlanWorker
    <3>. HIDE DEF read, source, written
    <3>. QED BY <2>1, <2>2, <2>3, <2>4
  <2>. QED BY <1>2, <1>6, <2>5 DEF PlanReconcileFails
<1>. QED BY <1>3, <1>4, <1>5, <1>6 DEF PlanReconcile

\* The two writes of persistPlan.
LEMMA PlanWorkerStepType ==
  ASSUME TypeInv, PlanWorkerStep
  PROVE  TypeInv'
<1>1. plan \in PlanObj /\ pw \in PlanWorker /\ pw.obj \in PlanObj
  BY DEF TypeInv, TypeOK, PlanWorker
<1>2. CASE PersistPlanMeta
  <2>. DEFINE p == [plan EXCEPT !.fin = pw.obj.fin, !.refresh = pw.obj.refresh]
  <2>1. p \in PlanObj
    BY <1>1 DEF PlanObj
  <2>2. plan' = plan \/ plan' = NoPlan \/ plan' = p
    BY <1>2, Zenon DEF PersistPlanMeta
  <2>3. pw' = IdlePlanWorker \/ pw' = [pw EXCEPT !.pc = "status"]
    BY <1>2, Zenon DEF PersistPlanMeta
  <2>4. pw' \in PlanWorker
    BY <1>1, <2>3, IdleTypes DEF PlanWorker
  <2>5. plan' \in PlanObj
    BY <1>1, <2>1, <2>2, IdleTypes
  <2>. QED BY <1>2, <2>4, <2>5 DEF PersistPlanMeta, TypeInv, TypeOK, clusterVars, ClusterTypeOK
<1>3. CASE PersistPlanStatus
  BY <1>1, <1>3, IdleTypes DEF PersistPlanStatus, TypeInv, TypeOK, clusterVars, ClusterTypeOK
<1>. QED BY <1>2, <1>3 DEF PlanWorkerStep

-----------------------------------------------------------------------------
(* The system *)

\* A delete call keeps the types of the migrations.
LEMMA MarkDeletedType ==
  ASSUME TypeInv, NEW m \in Migs, MarkDeleted(m), UNCHANGED <<plan, mw, pw, clusterVars>>
  PROVE  TypeInv'
<1>1. mig \in [Migs -> MigObj] /\ mig[m] \in MigObj
  BY DEF TypeInv, TypeOK
<1>2. [mig[m] EXCEPT !.deleting = TRUE] \in MigObj /\ [mig[m] EXCEPT !.phase = "Gone"] \in MigObj
  BY <1>1 DEF MigObj, Phases
<1>3. mig' \in [Migs -> MigObj]
  BY <1>1, <1>2 DEF MarkDeleted
<1>. QED BY <1>3 DEF MarkDeleted, TypeInv, TypeOK, clusterVars, ClusterTypeOK

\* The initial states are well typed.
LEMMA TypeInvInit == Init => TypeInv
<1>. SUFFICES ASSUME Init PROVE TypeInv
  OBVIOUS
<1>1. ClusterTypeOK
  BY DEF Init, ClusterInit, ClusterTypeOK, VMType, VMIMType, ClaimStates, Claims
<1>2. mig \in [Migs -> MigObj]
  <2>1. [NoMig EXCEPT !.phase = ""] \in MigObj
    BY IdleTypes DEF MigObj, Phases
  <2>. QED BY <2>1, IdleTypes DEF Init, MigInit
<1>3. plan \in PlanObj
  BY IdleTypes DEF Init, PlanInit, PlanObj
<1>4. mw = IdleWorker /\ mw \in Worker /\ pw \in PlanWorker /\ stale = {}
  BY IdleTypes DEF Init, MigInit, PlanInit
<1>. QED BY <1>1, <1>2, <1>3, <1>4 DEF TypeInv, TypeOK, IdleWorker

\* Every step keeps the inductive form of the type invariant.
LEMMA TypeInvNext == TypeInv /\ [Next]_vars => TypeInv'
<1>. SUFFICES ASSUME TypeInv, [Next]_vars PROVE TypeInv'
  OBVIOUS
<1>1. ASSUME NEW m \in Migs, Reconcile(m), UNCHANGED pw
      PROVE  TypeInv'
  BY <1>1, ReconcileType
<1>2. CASE MigWorkerStep /\ UNCHANGED pw
  BY <1>2, MigWorkerStepType
<1>3. CASE PlanReconcile
  BY <1>3, PlanReconcileType
<1>4. CASE PlanWorkerStep
  BY <1>4, PlanWorkerStepType
<1>5. ASSUME NEW v \in VMs, ClusterStep(v, Existing), UNCHANGED <<mig, plan, stale, mw, pw>>
      PROVE  TypeInv'
  <2>1. Existing \in SUBSET Migs
    BY DEF Existing
  <2>2. ClusterTypeOK'
    BY <1>5, <2>1, ClusterStepType DEF TypeInv, TypeOK
  <2>. QED BY <1>5, <2>2 DEF TypeInv, TypeOK
<1>6. ASSUME NEW m \in Migs, CreateMigration(m)
      PROVE  TypeInv'
  <2>1. [mig[m] EXCEPT !.phase = ""] \in MigObj
    <3>1. mig[m] \in MigObj
      BY DEF TypeInv, TypeOK
    <3>. QED BY <3>1 DEF MigObj, Phases
  <2>2. mig' \in [Migs -> MigObj]
    BY <1>6, <2>1 DEF CreateMigration, TypeInv, TypeOK
  <2>. QED BY <1>6, <2>2 DEF CreateMigration, TypeInv, TypeOK, clusterVars, ClusterTypeOK
<1>7. ASSUME NEW m \in Migs, DeleteMigration(m) \/ CollectGarbage(m)
      PROVE  TypeInv'
  BY <1>7, MarkDeletedType DEF DeleteMigration, CollectGarbage
<1>8. CASE DeletePlan
  <2>1. plan' \in PlanObj
    BY <1>8, IdleTypes DEF DeletePlan, TypeInv, TypeOK, PlanObj
  <2>. QED BY <1>8, <2>1 DEF DeletePlan, TypeInv, TypeOK, clusterVars, ClusterTypeOK
<1>9. CASE Crash \/ Restart
  <2>1. /\ mw' \in Worker /\ mw'.pc \in {"idle", "down"}
        /\ pw' \in PlanWorker
    BY <1>9, IdleTypes DEF Crash, Restart, IdleWorker, Worker, IdlePlanWorker, PlanWorker
  <2>. QED BY <1>9, <2>1 DEF Crash, Restart, TypeInv, TypeOK, clusterVars, ClusterTypeOK
<1>10. CASE UNCHANGED vars
  BY <1>10 DEF vars, TypeInv, TypeOK, ClusterTypeOK
<1>. QED BY <1>1, <1>2, <1>3, <1>4, <1>5, <1>6, <1>7, <1>8, <1>9, <1>10 DEF Next

(***************************************************************************)
(* Every reachable state is well typed, for all VMs, migrations and        *)
(* environments: no reconcile writes a phase, list entry or worker copy    *)
(* the API does not have.                                                  *)
(***************************************************************************)
THEOREM TypeCorrect == Spec => []TypeOK
<1>1. TypeInv => TypeOK
  BY DEF TypeInv
<1>. QED BY <1>1, TypeInvInit, TypeInvNext, PTL DEF Spec

-----------------------------------------------------------------------------
(* Source claims *)

\* Releasing claims of a VM leaves a claim that is not terminating alone.
LEMMA ReleaseKeeps ==
  ASSUME ClusterTypeOK, NEW w \in VMs, NEW d, NEW a, NEW latest, Release(w, d, a, latest),
         NEW v \in VMs, NEW c \in Claims, claim[v][c] # "terminating"
  PROVE  claim'[v][c] = claim[v][c]
BY DEF Release, ClusterTypeOK

\* With keepSource a worker step deletes none but cancelled targets.
LEMMA WorkerClaims ==
  ASSUME TypeInv, MigWorkerStep, ~DeleteSource
  PROVE  \/ claim' = claim
         \/ \E w \in VMs, state \in {"bound", "pending"} : \E c : CreateTargetDV(w, state, c)
         \/ /\ mw.pc = "CleanupCancelledMigrations"
            /\ \E D \in SUBSET CancelledTargets : DeleteClaims(D)
<1>1. CASE RunBegin
  <2>1. CASE \E w \in VMs : BeginSkipVM(w) \/ OfflineMigrateSwap(w)
    BY <2>1 DEF BeginSkipVM, OfflineMigrateSwap, clusterVars
  <2>2. CASE \E w \in VMs : LiveMigrateCreateDV(w)
    BY <2>2 DEF LiveMigrateCreateDV
  <2>3. CASE LiveMigrateSwap \/ BeginFails \/ BeginDone
    BY <2>3 DEF LiveMigrateSwap, BeginFails, BeginDone, clusterVars
  <2>4. CASE OfflineMigrateCreateDV
    BY <2>4 DEF OfflineMigrateCreateDV, TypeInv
  <2>. QED BY <1>1, <2>1, <2>2, <2>3, <2>4 DEF RunBegin
<1>2. CASE RunCanceling
  BY <1>2 DEF RunCanceling, CancelVM, CancelFails, CancelDone, clusterVars
<1>3. CASE RunCleanupCancelled
  BY <1>3 DEF RunCleanupCancelled
<1>4. CASE RunCleanup \/ RunCleanupFails
  BY <1>4 DEF RunCleanup, RunCleanupFails
<1>5. CASE RunStarted \/ RunRefresh \/ RunWaitForRefresh \/ RunWaitForLiveMigration
           \/ RunCleanupWaits \/ PersistMeta \/ PersistStatus
  BY <1>5 DEF RunStarted, RunRefresh, RunWaitForRefresh, RunWaitForLiveMigration,
              RunCleanupWaits, PersistMeta, PersistStatus, clusterVars
<1>. QED BY <1>1, <1>2, <1>3, <1>4, <1>5 DEF MigWorkerStep

\* A step of the cluster deletes no claim that is not terminating already.
LEMMA ClusterClaims ==
  ASSUME ClusterTypeOK, NEW w \in VMs, NEW existing, ClusterStep(w, existing),
         NEW v \in VMs, NEW c \in Claims
  PROVE  \/ claim'[v][c] = claim[v][c]
         \/ claim[v][c] = "terminating"
         \/ c = "tgt" /\ claim[v][c] = "pending" /\ claim'[v][c] = "bound"
<1>1. CASE CreateVMIM(w, existing) \/ Evacuate(w, existing) \/ StartVM(w) \/ FitnessChanges(w)
  BY <1>1 DEF CreateVMIM, Evacuate, StartVM, FitnessChanges
<1>2. CASE VMIMSucceeds(w)
  <2>1. \E d, latest : Release(w, d, "none", latest)
    BY <1>2 DEF VMIMSucceeds
  <2>. QED BY <2>1, ReleaseKeeps
<1>3. CASE VMIMFails(w)
  BY <1>3, ReleaseKeeps DEF VMIMFails
<1>4. CASE StopVM(w)
  BY <1>4, ReleaseKeeps DEF StopVM
<1>5. CASE CloneSucceeds(w)
  BY <1>5 DEF CloneSucceeds, ClusterTypeOK, Claims
<1>. QED BY <1>1, <1>2, <1>3, <1>4, <1>5 DEF ClusterStep, ClusterProgress

\* No step but a worker's or the cluster's touches a claim.
LEMMA OtherSteps ==
  ASSUME [Next]_vars
  PROVE  \/ MigWorkerStep /\ UNCHANGED pw
         \/ \E v \in VMs : ClusterStep(v, Existing) /\ UNCHANGED <<mig, plan, stale, mw, pw>>
         \/ UNCHANGED <<vm, claim>>
<1>1. CASE \E m \in Migs : Reconcile(m)
  BY <1>1 DEF Reconcile, clusterVars
<1>2. CASE PlanReconcile
  BY <1>2 DEF PlanReconcile, PlanReconcileDeleting, PlanReconcileCompleted, PlanReconcileOpen,
              PlanReconcileFails, PlanReconcileStarts, clusterVars
<1>3. CASE PlanWorkerStep
  BY <1>3 DEF PlanWorkerStep, PersistPlanMeta, PersistPlanStatus, clusterVars
<1>4. CASE \E m \in Migs : CreateMigration(m) \/ DeleteMigration(m) \/ CollectGarbage(m)
  BY <1>4 DEF CreateMigration, DeleteMigration, CollectGarbage, clusterVars
<1>5. CASE DeletePlan \/ Crash \/ Restart \/ UNCHANGED vars
  BY <1>5 DEF DeletePlan, Crash, Restart, vars, clusterVars
<1>. QED BY <1>1, <1>2, <1>3, <1>4, <1>5 DEF Next

\* With keepSource no step deletes a source claim.
LEMMA SourceKeptNext == TypeInv /\ SourceKept /\ [Next]_vars => SourceKept'
<1>. SUFFICES ASSUME TypeInv, SourceKept, [Next]_vars, ~DeleteSource, NEW v \in VMs
              PROVE  claim'[v]["src"] = "bound"
  BY DEF SourceKept
<1>1. claim[v]["src"] = "bound" /\ ClusterTypeOK /\ "src" \in Claims
  BY DEF SourceKept, TypeInv, TypeOK, Claims
<1>2. CASE MigWorkerStep
  <2>1. CASE \E w \in VMs, state \in {"bound", "pending"} : \E c : CreateTargetDV(w, state, c)
    BY <1>1, <2>1 DEF CreateTargetDV, ClusterTypeOK, Claims
  <2>2. CASE \E D \in SUBSET CancelledTargets : DeleteClaims(D)
    <3>1. <<v, "src">> \notin CancelledTargets
      BY DEF CancelledTargets
    <3>. QED BY <1>1, <2>2, <3>1 DEF DeleteClaims
  <2>. QED BY <1>1, <1>2, <2>1, <2>2, WorkerClaims
<1>3. CASE \E w \in VMs : ClusterStep(w, Existing)
  BY <1>1, <1>3, ClusterClaims
<1>. QED BY <1>1, <1>2, <1>3, OtherSteps

(***************************************************************************)
(* With keepSource the source claims survive every migration and cancel,   *)
(* whatever the plan status recorded, for any number of migrations.        *)
(***************************************************************************)
THEOREM SourcesSurvive == Spec => []SourceKept
<1>1. Init => SourceKept
  BY DEF Init, ClusterInit, SourceKept, Claims
<1>. QED BY <1>1, TypeInvInit, TypeInvNext, SourceKeptNext, PTL DEF Spec

-----------------------------------------------------------------------------
(* Cancelled VMs are on their sources *)

\* Nobody else swaps the volumes of the plan's VMs: two migrations of one
\* plan may overlap, and then a VM one of them cancelled can be swapped by
\* the other.
OneMigration == \A m, n \in Migs : m = n

CancelPhases == {"CleanupCancelledMigrations", "Canceled"}

\* The end of a task whose copy is in a cancel phase only with its cancelled
\* VMs on their sources keeps the invariant.
LEMMA ReturnCancel ==
  ASSUME TypeInv, CancelInv, mw.pc \notin {"idle", "down"}, NEW o \in MigObj, Return(o), UNCHANGED <<mig, vm>>,
         o.phase \in CancelPhases => \A v \in o.cancelled : vm[v].spec = "src"
  PROVE  CancelInv'
<1>1. mw.m \in Migs
  BY DEF TypeInv
<1>2. /\ mw'.pc \in {"idle", "meta", "status"}
      /\ mw'.pc # "idle" => mw'.m \in Migs /\ mw'.obj = o
      /\ mw'.pc = "idle" => mw' = IdleWorker
  BY <1>1, ToPersistType DEF Return
<1>3. mw'.obj.phase \in CancelPhases => \A v \in mw'.obj.cancelled : vm[v].spec = "src"
  BY <1>2 DEF IdleWorker, NoMig
<1>4. CancelledOnSource'
  BY DEF CancelInv, CancelledOnSource
<1>. QED BY <1>2, <1>3, <1>4 DEF CancelInv, CancelPhases, TaskPhases, Phases, SwapPCs

\* Picking a task.
LEMMA ReconcileCancel ==
  ASSUME TypeInv, CancelInv, NEW m \in Migs, Reconcile(m)
  PROVE  CancelInv'
<1>. DEFINE owned == [mig[m] EXCEPT !.owned = @ \/ plan.exists]
            o == [owned EXCEPT !.phase = TaskPhase(owned)]
            fresh == [IdleWorker EXCEPT !.pc = o.phase, !.m = m, !.obj = o,
                        !.sources = ReadSources, !.sourcesDone = ReadCompleted,
                        !.todo = LoopOver(o, ReadSources)]
<1>1. mig[m] \in MigObj /\ UNCHANGED <<mig, vm>> /\ CancelledOnSource /\ CancelledOnSource'
  BY DEF TypeInv, TypeOK, Reconcile, clusterVars, CancelInv, CancelledOnSource
<1>2. ASSUME NEW p \in MigObj, mw' = ToPersist(m, p),
             p.phase = mig[m].phase, p.cancelled = mig[m].cancelled
      PROVE  CancelInv'
  <2>1. /\ mw'.pc \in {"idle", "meta", "status"}
        /\ mw'.pc # "idle" => mw'.m \in Migs /\ mw'.obj = p
        /\ mw'.pc = "idle" => mw' = IdleWorker
    BY <1>2, ToPersistType
  <2>2. mw'.obj.phase \in CancelPhases => \A v \in mw'.obj.cancelled : vm[v].spec = "src"
    BY <1>1, <1>2, <2>1 DEF CancelledOnSource, CancelPhases, IdleWorker, NoMig
  <2>. QED BY <1>1, <2>1, <2>2 DEF CancelInv, CancelPhases, TaskPhases, Phases, SwapPCs
<1>3. CASE mw' = ToPersist(m, [mig[m] EXCEPT !.fin = FALSE])
  <2>1. [mig[m] EXCEPT !.fin = FALSE] \in MigObj
    BY <1>1 DEF MigObj
  <2>. QED BY <1>1, <1>2, <1>3, <2>1 DEF MigObj
<1>4. /\ owned \in MigObj /\ owned.phase = mig[m].phase
      /\ owned.cancelled = mig[m].cancelled /\ owned.running = mig[m].running
  BY <1>1 DEF MigObj, TypeInv, TypeOK, PlanObj
<1>5. CASE mw' = ToPersist(m, owned)
  <2>. HIDE DEF owned
  <2>. QED BY <1>2, <1>4, <1>5
<1>6. CASE mig[m].phase \notin OverPhases /\ mw' = fresh
  <2>. HIDE DEF owned
  <2>1. o.cancelled = mig[m].cancelled /\ o.phase = TaskPhase(owned) /\ o.running = mig[m].running
    BY <1>4 DEF MigObj
  <2>2. /\ o.phase \in CancelPhases => mig[m].phase = o.phase
        /\ o.phase \notin {"liveMigrateVM", "offlineMigrateVM"}
        /\ o.phase = "BeginLiveMigration" => mig[m].phase = "BeginLiveMigration"
    BY <1>4, <1>6, <2>1 DEF TaskPhase, CancelPhases, MigObj, Phases
  <2>3. o.phase = "Canceling" => LoopOver(o, ReadSources) = o.running
    BY DEF LoopOver
  <2>. HIDE DEF o
  <2>4. /\ mw'.pc = o.phase /\ mw'.m = m /\ mw'.obj = o
        /\ mw'.todo = LoopOver(o, ReadSources)
    BY <1>6 DEF IdleWorker
  <2>5. o.phase \in CancelPhases => \A v \in o.cancelled : vm[v].spec = "src"
    BY <1>1, <2>1, <2>2 DEF CancelledOnSource, CancelPhases
  <2>. QED BY <1>1, <2>2, <2>3, <2>4, <2>5 DEF CancelInv, CancelPhases, SwapPCs
<1>. QED BY <1>3, <1>5, <1>6 DEF Reconcile

\* The loop that swaps volumes runs while the only migration is not in a
\* cancel phase.
LEMMA BeginCancel ==
  ASSUME OneMigration, TypeInv, CancelInv, RunBegin
  PROVE  CancelInv'
<1>1. mw \in Worker /\ mw.obj \in MigObj /\ mig \in [Migs -> MigObj] /\ vm \in [VMs -> VMType]
  BY DEF TypeInv, TypeOK, ClusterTypeOK, Worker
<1>2. /\ mw.pc \in SwapPCs /\ mw.m \in Migs /\ mw.obj.phase = "BeginLiveMigration"
      /\ \A m \in Migs : mig[m].phase \in {"BeginLiveMigration", "Gone"}
  <2>1. mw.pc \in SwapPCs
    BY DEF RunBegin, BeginSkipVM, LiveMigrateCreateDV, OfflineMigrateSwap, LiveMigrateSwap,
           OfflineMigrateCreateDV, BeginFails, BeginDone, SwapPCs
  <2>2. mw.m \in Migs
    BY <2>1 DEF CancelInv, SwapPCs
  <2>. QED BY <2>1, <2>2 DEF CancelInv, OneMigration
<1>3. ASSUME mw'.pc \in SwapPCs, mw'.m = mw.m, mw'.obj.phase = mw.obj.phase, UNCHANGED mig
      PROVE  CancelInv'
  BY <1>2, <1>3 DEF CancelInv, CancelledOnSource, SwapPCs, TaskPhases, Phases
<1>4. ASSUME NEW v \in VMs, BeginSkipVM(v) \/ LiveMigrateCreateDV(v) \/ OfflineMigrateSwap(v)
      PROVE  CancelInv'
  BY <1>1, <1>2, <1>3, <1>4 DEF BeginSkipVM, LiveMigrateCreateDV, OfflineMigrateSwap, SwapPCs, Worker
<1>5. CASE LiveMigrateSwap \/ OfflineMigrateCreateDV
  <2>1. mw' = Swapped(mw.at) /\ UNCHANGED mig
    BY <1>5 DEF LiveMigrateSwap, OfflineMigrateCreateDV
  <2>2. /\ Swapped(mw.at).pc = "BeginLiveMigration" /\ Swapped(mw.at).m = mw.m
        /\ Swapped(mw.at).obj.phase = mw.obj.phase
    BY <1>1 DEF Swapped, Worker, MigObj
  <2>. QED BY <1>3, <2>1, <2>2 DEF SwapPCs
<1>6. CASE BeginFails
  BY <1>1, <1>2, <1>6, ReturnCancel DEF BeginFails, SwapPCs, CancelPhases, clusterVars
<1>7. CASE BeginDone
  <2>. DEFINE o == [mw.obj EXCEPT !.phase = "WaitForLiveMigrationToComplete"]
  <2>1. o \in MigObj /\ o.phase \notin CancelPhases
    BY <1>1 DEF MigObj, Phases, CancelPhases
  <2>2. Return(o) /\ mw.pc \notin {"idle", "down"} /\ UNCHANGED <<mig, vm>>
    BY <1>7 DEF BeginDone, clusterVars
  <2>. HIDE DEF o
  <2>. QED BY <2>1, <2>2, ReturnCancel
<1>. QED BY <1>4, <1>5, <1>6, <1>7 DEF RunBegin

\* The cancel loop leaves behind it VMs on their sources or kept running.
LEMMA CancelingCancel ==
  ASSUME TypeInv, CancelInv, RunCanceling
  PROVE  CancelInv'
<1>1. /\ mw \in Worker /\ mw.obj \in MigObj /\ vm \in [VMs -> VMType]
      /\ mw.pc = "Canceling" /\ mw.m \in Migs
      /\ mw.obj.phase = "Canceling" /\ mw.obj.running \subseteq VMs
  <2>1. mw.pc = "Canceling"
    BY DEF RunCanceling, CancelVM, CancelFails, CancelDone
  <2>. QED BY <2>1 DEF TypeInv, TypeOK, ClusterTypeOK, Worker, MigObj, CancelInv, TaskPhases, Phases
<1>2. ASSUME NEW v \in VMs, CancelVM(v)
      PROVE  CancelInv'
  <2>1. /\ mw'.pc = mw.pc /\ mw'.m = mw.m /\ mw'.obj = mw.obj
        /\ mw'.todo = mw.todo \ {v}
        /\ \/ mw'.kept = mw.kept \cup {v}
           \/ mw'.kept = mw.kept /\ vm'[v].spec = "src"
    <3>1. \/ mw' = [mw EXCEPT !.todo = @ \ {v}, !.kept = @ \cup {v}]
          \/ /\ mw' = [mw EXCEPT !.todo = @ \ {v}]
             /\ PatchVM(v, "src", TRUE) \/ (IsVMOnSourceVolumes(v) /\ UNCHANGED vm)
      BY <1>2, Zenon DEF CancelVM
    <3>2. PatchVM(v, "src", TRUE) => vm'[v].spec = "src"
      BY <1>1 DEF PatchVM, VMType
    <3>. QED BY <1>1, <3>1, <3>2 DEF IsVMOnSourceVolumes, Worker
  <2>2. \A w \in VMs : vm'[w].spec = vm[w].spec \/ vm'[w].spec = "src"
    <3>1. PatchVM(v, "src", TRUE) \/ UNCHANGED vm
      BY <1>2 DEF CancelVM
    <3>. QED BY <1>1, <3>1 DEF PatchVM, VMType
  <2>3. UNCHANGED mig
    BY <1>2 DEF CancelVM
  <2>4. CancelledOnSource'
    <3>1. \A m \in Migs : mig[m].cancelled \subseteq VMs
      BY DEF TypeInv, TypeOK, MigObj
    <3>. QED BY <2>2, <2>3, <3>1 DEF CancelInv, CancelledOnSource
  <2>5. \A w \in mw.obj.running \ (mw'.todo \cup mw'.kept) : vm'[w].spec = "src"
    BY <1>1, <2>1, <2>2 DEF CancelInv
  <2>. QED BY <1>1, <2>1, <2>4, <2>5 DEF CancelInv, SwapPCs, TaskPhases
<1>3. CASE CancelFails
  BY <1>1, <1>3, ReturnCancel DEF CancelFails, CancelPhases, clusterVars
<1>4. CASE CancelDone
  <2>. DEFINE o == [mw.obj EXCEPT !.running = mw.kept, !.cancelled = mw.obj.running \ mw.kept,
                      !.phase = IF mw.kept = {} THEN "CleanupCancelledMigrations" ELSE @]
  <2>1. o \in MigObj
    <3>1. mw.kept \in SUBSET VMs /\ mw.obj.running \ mw.kept \in SUBSET VMs
      BY <1>1 DEF Worker
    <3>2. "CleanupCancelledMigrations" \in Phases
      BY DEF Phases
    <3>. QED BY <1>1, <3>1, <3>2 DEF MigObj
  <2>2. \A v \in o.cancelled : vm[v].spec = "src"
    <3>1. o.cancelled = mw.obj.running \ mw.kept /\ mw.todo = {}
      BY <1>1, <1>4 DEF MigObj, CancelDone
    <3>. QED BY <1>1, <3>1 DEF CancelInv
  <2>3. Return(o) /\ UNCHANGED <<mig, vm>>
    BY <1>4 DEF CancelDone, clusterVars
  <2>. HIDE DEF o
  <2>. QED BY <1>1, <2>1, <2>2, <2>3, ReturnCancel
<1>. QED BY <1>2, <1>3, <1>4 DEF RunCanceling

\* The phases that are a single step.
LEMMA RunCancelInv ==
  ASSUME TypeInv, CancelInv,
         RunStarted \/ RunRefresh \/ RunWaitForRefresh \/ RunWaitForLiveMigration
           \/ RunCleanupWaits \/ RunCleanupFails \/ RunCleanup \/ RunCleanupCancelled
  PROVE  CancelInv'
<1>1. mw \in Worker /\ mw.obj \in MigObj
  BY DEF TypeInv, TypeOK, Worker
<1>2. mw.pc \in TaskPhases /\ mw.obj.phase = mw.pc /\ UNCHANGED <<mig, vm>>
  <2>1. mw.pc \in TaskPhases /\ UNCHANGED <<mig, vm>>
    BY DEF RunStarted, RunRefresh, RunWaitForRefresh, RunWaitForLiveMigration, RunCleanupWaits,
           RunCleanupFails, RunCleanup, RunCleanupCancelled, clusterVars, TaskPhases, Phases
  <2>. QED BY <2>1 DEF CancelInv
<1>3. ASSUME NEW o \in MigObj, Return(o), o.phase \notin CancelPhases
      PROVE  CancelInv'
  BY <1>2, <1>3, ReturnCancel DEF TaskPhases, Phases
<1>4. ASSUME Return(mw.obj) PROVE CancelInv'
  BY <1>1, <1>2, <1>4, ReturnCancel DEF CancelInv, CancelPhases, TaskPhases, Phases
<1>5. CASE RunStarted
  <2>. DEFINE o == [mw.obj EXCEPT !.fin = TRUE, !.phase = "RefreshStorageMigrationPlan"]
  <2>1. o \in MigObj /\ o.phase \notin CancelPhases
    BY <1>1 DEF MigObj, Phases, CancelPhases
  <2>. QED BY <1>3, <1>5, <2>1 DEF RunStarted
<1>6. CASE RunRefresh
  <2>. DEFINE o == [mw.obj EXCEPT !.phase = "WaitForStorageMigrationPlanRefreshCompletion"]
  <2>1. o \in MigObj /\ o.phase \notin CancelPhases
    BY <1>1 DEF MigObj, Phases, CancelPhases
  <2>. QED BY <1>3, <1>4, <1>6, <2>1 DEF RunRefresh
<1>7. CASE RunWaitForRefresh
  <2>. DEFINE o == [mw.obj EXCEPT !.phase = "BeginLiveMigration"]
  <2>1. o \in MigObj /\ o.phase \notin CancelPhases
    BY <1>1 DEF MigObj, Phases, CancelPhases
  <2>. QED BY <1>3, <1>4, <1>7, <2>1 DEF RunWaitForRefresh
<1>8. CASE RunWaitForLiveMigration
  <2>. DEFINE o(done) == [mw.obj EXCEPT !.completed = @ \cup done]
              next(done) == [o(done) EXCEPT !.running = mw.obj.running \ done,
                !.phase = IF mw.obj.running \ done = {} THEN "CleanupMigrationResources" ELSE @]
  <2>1. PICK done \in SUBSET mw.obj.running : Return(o(done)) \/ Return(next(done))
    BY <1>8, Zenon DEF RunWaitForLiveMigration
  <2>2. mw.obj.phase \notin CancelPhases
    BY <1>2, <1>8 DEF RunWaitForLiveMigration, CancelPhases
  <2>3. o(done) \in MigObj /\ o(done).phase \notin CancelPhases
    BY <1>1, <2>2 DEF MigObj
  <2>4. next(done) \in MigObj /\ next(done).phase \notin CancelPhases
    <3>1. mw.obj.running \ done \in SUBSET VMs /\ mw.obj.completed \cup done \in SUBSET VMs
      BY <1>1 DEF MigObj
    <3>2. "CleanupMigrationResources" \in Phases \ CancelPhases
      BY DEF Phases, CancelPhases
    <3>. QED BY <1>1, <2>2, <3>1, <3>2 DEF MigObj
  <2>. HIDE DEF o, next
  <2>. QED BY <1>3, <2>1, <2>3, <2>4
<1>9. CASE RunCleanupWaits \/ RunCleanupFails
  BY <1>4, <1>9 DEF RunCleanupWaits, RunCleanupFails
<1>10. CASE RunCleanup
  <2>. DEFINE o == [mw.obj EXCEPT !.fin = FALSE, !.phase = "Completed"]
  <2>1. o \in MigObj /\ o.phase \notin CancelPhases
    BY <1>1 DEF MigObj, Phases, CancelPhases
  <2>. QED BY <1>3, <1>10, <2>1 DEF RunCleanup
<1>11. CASE RunCleanupCancelled
  <2>. DEFINE o == [mw.obj EXCEPT !.phase = IF PodsCleaned(mw.obj.completed) THEN "Canceled" ELSE @]
  <2>1. o \in MigObj /\ o.cancelled = mw.obj.cancelled
    <3>1. "Canceled" \in Phases
      BY DEF Phases
    <3>. QED BY <1>1, <3>1 DEF MigObj
  <2>2. \A v \in mw.obj.cancelled : vm[v].spec = "src"
    BY <1>2, <1>11 DEF RunCleanupCancelled, CancelInv
  <2>3. Return(o) \/ Return(mw.obj)
    BY <1>11, Zenon DEF RunCleanupCancelled
  <2>. HIDE DEF o
  <2>. QED BY <1>2, <1>4, <2>1, <2>2, <2>3, ReturnCancel DEF TaskPhases, Phases
<1>. QED BY <1>5, <1>6, <1>7, <1>8, <1>9, <1>10, <1>11

\* The two writes of persistMigration.
LEMMA PersistCancel ==
  ASSUME OneMigration, TypeInv, CancelInv, PersistMeta \/ PersistStatus
  PROVE  CancelInv'
<1>1. /\ mw \in Worker /\ mw.obj \in MigObj /\ mig \in [Migs -> MigObj]
      /\ mw.m \in Migs /\ mig[mw.m] \in MigObj /\ UNCHANGED vm
  BY DEF TypeInv, TypeOK, Worker, PersistMeta, PersistStatus, clusterVars
<1>2. ASSUME mw' = IdleWorker \/ mw' = [mw EXCEPT !.pc = "status"], CancelledOnSource'
      PROVE  CancelInv'
  <2>1. mw'.pc \in {"idle", "status"} /\ (mw'.pc = "status" => mw'.m = mw.m)
    BY <1>1, <1>2 DEF IdleWorker, Worker
  <2>2. mw'.obj.phase \in CancelPhases => \A v \in mw'.obj.cancelled : vm[v].spec = "src"
    <3>1. CASE mw' = IdleWorker
      BY <3>1 DEF IdleWorker, NoMig
    <3>2. CASE mw' = [mw EXCEPT !.pc = "status"]
      <4>1. mw'.obj = mw.obj
        BY <1>1, <3>2 DEF Worker
      <4>. QED BY <4>1 DEF CancelInv, CancelPhases
    <3>. QED BY <1>2, <3>1, <3>2
  <2>. QED BY <1>1, <1>2, <2>1, <2>2 DEF CancelInv, CancelPhases, TaskPhases, Phases, SwapPCs
<1>3. CASE PersistMeta
  <2>. DEFINE o == [mig[mw.m] EXCEPT !.fin = mw.obj.fin, !.owned = mw.obj.owned]
  <2>1. o.phase = mig[mw.m].phase /\ o.cancelled = mig[mw.m].cancelled
    BY <1>1 DEF MigObj
  <2>2. [o EXCEPT !.phase = "Gone"].phase = "Gone"
    BY <1>1 DEF MigObj
  <2>3. /\ \/ mig' = mig
           \/ mig' = [mig EXCEPT ![mw.m] = o]
           \/ mig' = [mig EXCEPT ![mw.m] = [o EXCEPT !.phase = "Gone"]]
        /\ mw' = IdleWorker \/ mw' = [mw EXCEPT !.pc = "status"]
    BY <1>3, Zenon DEF PersistMeta
  <2>. HIDE DEF o
  <2>4. CancelledOnSource'
    <3>1. \A m \in Migs : \/ mig'[m].phase = mig[m].phase /\ mig'[m].cancelled = mig[m].cancelled
                          \/ mig'[m].phase = "Gone"
      BY <1>1, <2>1, <2>2, <2>3
    <3>. QED BY <1>1, <3>1 DEF CancelInv, CancelledOnSource
  <2>. QED BY <1>2, <2>3, <2>4
<1>4. CASE PersistStatus
  <2>1. mig' = mig \/ mig' = [mig EXCEPT ![mw.m] = mw.obj]
    BY <1>4 DEF PersistStatus
  <2>2. CancelledOnSource'
    BY <1>1, <2>1 DEF CancelInv, CancelledOnSource
  <2>. QED BY <1>2, <1>4, <2>2 DEF PersistStatus
<1>. QED BY <1>3, <1>4

\* A step that leaves the worker and the VM specs alone, and moves migrations
\* only to phases outside a cancel.
LEMMA BystanderCancel ==
  ASSUME TypeInv, CancelInv, UNCHANGED mw,
         \A v \in VMs : vm'[v].spec = vm[v].spec,
         \A m \in Migs : \/ mig'[m].phase = mig[m].phase /\ mig'[m].cancelled = mig[m].cancelled
                         \/ mig[m].phase = "Absent" /\ mig'[m].phase = ""
                         \/ mig'[m].phase = "Gone"
  PROVE  CancelInv'
<1>1. /\ mw.obj.running \subseteq VMs /\ mw.obj.cancelled \subseteq VMs
      /\ \A m \in Migs : mig[m].cancelled \subseteq VMs
  BY DEF TypeInv, TypeOK, Worker, MigObj
<1>2. CancelledOnSource'
  BY <1>1 DEF CancelInv, CancelledOnSource
<1>3. mw.pc \in SwapPCs => mig'[mw.m].phase \in {"BeginLiveMigration", "Gone"}
  BY DEF CancelInv, SwapPCs
<1>4. mw.pc = "Canceling" => \A v \in mw.obj.running \ (mw.todo \cup mw.kept) : vm'[v].spec = "src"
  BY <1>1 DEF CancelInv
<1>5. mw.obj.phase \in CancelPhases => \A v \in mw.obj.cancelled : vm'[v].spec = "src"
  <2>1. mw.obj.phase \in CancelPhases => \A v \in mw.obj.cancelled : vm[v].spec = "src"
    BY DEF CancelInv, CancelPhases
  <2>. QED BY <1>1, <2>1
<1>. QED BY <1>2, <1>3, <1>4, <1>5 DEF CancelInv, CancelPhases

\* Nothing is cancelled in an initial state.
LEMMA CancelInvInit == Init => CancelInv
<1>. SUFFICES ASSUME Init PROVE CancelInv
  OBVIOUS
<1>1. mw.pc = "idle" /\ mw.obj.phase = "Absent"
  BY DEF Init, MigInit, IdleWorker, NoMig
<1>2. CancelledOnSource
  <2>1. \A m \in Migs : mig[m].phase \in {"Absent", ""}
    BY DEF Init, MigInit, NoMig
  <2>. QED BY <2>1 DEF CancelledOnSource
<1>. QED BY <1>1, <1>2 DEF CancelInv, TaskPhases, Phases, SwapPCs

\* With one migration every step keeps the inductive form of CancelledOnSource.
LEMMA CancelInvNext ==
  ASSUME OneMigration, TypeInv, CancelInv, [Next]_vars
  PROVE  CancelInv'
<1>1. mig \in [Migs -> MigObj] /\ vm \in [VMs -> VMType]
  BY DEF TypeInv, TypeOK, ClusterTypeOK
<1>2. CASE \E m \in Migs : Reconcile(m)
  BY <1>2, ReconcileCancel
<1>3. CASE MigWorkerStep
  BY <1>3, BeginCancel, CancelingCancel, RunCancelInv, PersistCancel DEF MigWorkerStep
<1>4. CASE PlanReconcile
  BY <1>4, BystanderCancel DEF PlanReconcile, PlanReconcileDeleting, PlanReconcileCompleted,
     PlanReconcileOpen, PlanReconcileFails, PlanReconcileStarts, clusterVars
<1>5. CASE PlanWorkerStep
  BY <1>5, BystanderCancel DEF PlanWorkerStep, PersistPlanMeta, PersistPlanStatus, clusterVars
<1>6. CASE \E v \in VMs : ClusterStep(v, Existing) /\ UNCHANGED <<mig, plan, stale, mw, pw>>
  <2>1. \A v \in VMs : vm'[v].spec = vm[v].spec
    BY <1>1, <1>6 DEF ClusterStep, ClusterProgress, CreateVMIM, VMIMSucceeds, CloneSucceeds,
       Evacuate, VMIMFails, StopVM, StartVM, FitnessChanges, VMType
  <2>. QED BY <1>6, <2>1, BystanderCancel
<1>7. ASSUME NEW m \in Migs, CreateMigration(m)
      PROVE  CancelInv'
  <2>1. \A n \in Migs : \/ mig'[n] = mig[n]
                        \/ mig[n].phase = "Absent" /\ mig'[n].phase = ""
    BY <1>1, <1>7 DEF CreateMigration, MigObj
  <2>. QED BY <1>7, <2>1, BystanderCancel DEF CreateMigration, clusterVars
<1>8. ASSUME NEW m \in Migs, DeleteMigration(m) \/ CollectGarbage(m)
      PROVE  CancelInv'
  <2>1. MarkDeleted(m) /\ UNCHANGED <<mw, vm>>
    BY <1>8 DEF DeleteMigration, CollectGarbage, clusterVars
  <2>2. \A n \in Migs :
           \/ mig'[n].phase = mig[n].phase /\ mig'[n].cancelled = mig[n].cancelled
           \/ mig'[n].phase = "Gone"
    BY <1>1, <2>1 DEF MarkDeleted, MigObj
  <2>. QED BY <2>1, <2>2, BystanderCancel
<1>9. CASE DeletePlan
  BY <1>9, BystanderCancel DEF DeletePlan, clusterVars
<1>10. CASE Crash \/ Restart
  <2>1. mw'.pc \in {"idle", "down"} /\ mw'.obj = NoMig /\ UNCHANGED <<mig, vm>>
    BY <1>10 DEF Crash, Restart, IdleWorker, clusterVars
  <2>2. CancelledOnSource'
    BY <2>1 DEF CancelInv, CancelledOnSource
  <2>3. mw'.obj.phase = "Absent"
    BY <2>1 DEF NoMig
  <2>. QED BY <2>1, <2>2, <2>3 DEF CancelInv, TaskPhases, Phases, SwapPCs
<1>11. CASE UNCHANGED vars
  BY <1>11, BystanderCancel DEF vars
<1>. QED BY <1>2, <1>3, <1>4, <1>5, <1>6, <1>7, <1>8, <1>9, <1>10, <1>11 DEF Next

(***************************************************************************)
(* Under a single migration a VM that handleCancelingPhase recorded as     *)
(* cancelled names its source volumes when its targets are cleaned up,     *)
(* whatever fails, restarts or is stopped in between.                      *)
(***************************************************************************)
THEOREM CancelReverts ==
  ASSUME OneMigration
  PROVE  Spec => []CancelledOnSource
<1>1. Init => CancelInv
  BY CancelInvInit
<1>2. TypeInv /\ CancelInv /\ [Next]_vars => CancelInv'
  BY CancelInvNext
<1>3. CancelInv => CancelledOnSource
  BY DEF CancelInv
<1>. QED BY <1>1, <1>2, <1>3, TypeInvInit, TypeInvNext, PTL DEF Spec

(***************************************************************************)
(* And the reason it holds, at every moment: from the revert of a VM until *)
(* its object is written, and afterwards, the copy the reconcile works on  *)
(* tells the truth about it.                                               *)
(***************************************************************************)
THEOREM CancelCopyHolds ==
  ASSUME OneMigration
  PROVE  Spec => []CancelInv
<1>1. Init => CancelInv
  BY CancelInvInit
<1>2. TypeInv /\ CancelInv /\ [Next]_vars => CancelInv'
  BY CancelInvNext
<1>. QED BY <1>1, <1>2, TypeInvInit, TypeInvNext, PTL DEF Spec

(***************************************************************************)
(* Under a single migration that keeps its sources, a target claim is      *)
(* deleted only while its VM names the source: no step of the cleanup can  *)
(* take a disk away from a VM that was not reverted.                       *)
(***************************************************************************)
THEOREM TargetsDeletedAfterRevert ==
  ASSUME OneMigration, ~DeleteSource
  PROVE  Spec => TargetDeletedAfterRevert
<1>. DEFINE Safe == \A v \in VMs : TargetDeleted(v) => vm[v].spec = "src"
<1>1. Init => CancelInv
  BY CancelInvInit
<1>2. TypeInv /\ CancelInv /\ [Next]_vars => CancelInv'
  BY CancelInvNext
<1>3. TypeInv /\ CancelInv /\ [Next]_vars => [Safe]_vars
  <2>. SUFFICES ASSUME TypeInv, CancelInv, [Next]_vars, NEW v \in VMs, TargetDeleted(v)
                PROVE  vm[v].spec = "src"
    OBVIOUS
  <2>1. ClusterTypeOK /\ claim'[v]["tgt"] # claim[v]["tgt"] /\ "tgt" \in Claims
    BY DEF TypeInv, TypeOK, TargetDeleted, Claims
  <2>2. CASE MigWorkerStep
    <3>1. CASE \E w \in VMs, state \in {"bound", "pending"} : \E c : CreateTargetDV(w, state, c)
      BY <2>1, <3>1 DEF CreateTargetDV, ClusterTypeOK, TargetDeleted
    <3>2. CASE /\ mw.pc = "CleanupCancelledMigrations"
               /\ \E D \in SUBSET CancelledTargets : DeleteClaims(D)
      <4>1. <<v, "tgt">> \in CancelledTargets
        BY <2>1, <3>2 DEF DeleteClaims
      <4>2. v \in mw.obj.cancelled
        BY <4>1 DEF CancelledTargets
      <4>3. mw.obj.phase = "CleanupCancelledMigrations"
        BY <3>2 DEF CancelInv, TaskPhases, Phases
      <4>. QED BY <4>2, <4>3 DEF CancelInv
    <3>. QED BY <2>1, <2>2, <3>1, <3>2, WorkerClaims
  <2>3. CASE \E w \in VMs : ClusterStep(w, Existing)
    <3>1. PICK w \in VMs : ClusterStep(w, Existing)
      BY <2>3
    <3>. QED BY <2>1, <3>1, ClusterClaims DEF TargetDeleted
  <2>. QED BY <2>1, <2>2, <2>3, OtherSteps
<1>. QED BY <1>1, <1>2, <1>3, TypeInvInit, TypeInvNext, PTL DEF Spec, TargetDeletedAfterRevert
=============================================================================
