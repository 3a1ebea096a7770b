------------------------------ MODULE StorageMig ------------------------------
(***************************************************************************)
(* The VirtualMachineStorageMigration controller                           *)
(* (internal/controller/storagemig).  One worker reconciles migrations one *)
(* at a time: it copies the migration and its plan from the API server,    *)
(* runs the task of the current phase on the copy (patching VMs, creating  *)
(* and deleting claims on the way), and writes the copy back, metadata     *)
(* first and status second.  A write fails when somebody else changed the  *)
(* object after it was read.                                               *)
(***************************************************************************)
EXTENDS Cluster

CONSTANTS
  DeleteSource,  \* the plan's retention policy is deleteSource
  NoVM           \* not a VM

ASSUME StorageMigAssumption == DeleteSource \in BOOLEAN /\ NoVM \notin VMs

VARIABLES
  mig,    \* mig[m]: the migration objects
  plan,   \* the plan object
  stale,  \* objects another client changed since their reconciler read them
  mw      \* the migration controller's worker

migVars == <<mig, mw>>

-----------------------------------------------------------------------------
(* API objects *)

\* "Absent" is a migration not created yet, "Gone" one that was removed.
Phases == {"Absent", "Gone", "", "Started", "RefreshStorageMigrationPlan",
           "WaitForStorageMigrationPlanRefreshCompletion", "BeginLiveMigration",
           "WaitForLiveMigrationToComplete", "CleanupMigrationResources", "Completed",
           "Canceling", "CleanupCancelledMigrations", "Canceled"}

MigObj == [phase: Phases, running: SUBSET VMs, completed: SUBSET VMs, cancelled: SUBSET VMs,
           fin: BOOLEAN, owned: BOOLEAN, deleting: BOOLEAN]

\* A source recorded in a plan status entry; "tgt" is a corrupted record.
Sources == Claims \cup {"none"}

CriticalTypes == {"InvalidPVCs", "NotAllVirtualMachinesReady", "ReconcileFailed"}

(***************************************************************************)
(* list[v] and rec[v]: the ready, in-progress or invalid entry of v and    *)
(* the source it records.  completed: the completed entries, a VM may have *)
(* two of them.  crit: the critical conditions.  refresh: "started" has a  *)
(* start annotation and no later end annotation, "done" has both.          *)
(***************************************************************************)
PlanObj == [exists: BOOLEAN, deleting: BOOLEAN, fin: BOOLEAN,
            refresh: {"none", "started", "done"},
            list: [VMs -> {"none", "ready", "inProgress", "invalid"}],
            rec: [VMs -> Sources], completed: SUBSET (VMs \X Sources),
            crit: SUBSET CriticalTypes]

\* The plan in stale, where a migration is its number.
PlanKey == 0

Exists(m) == mig[m].phase \notin {"Absent", "Gone"}

Existing == {m \in Migs : Exists(m)}

-----------------------------------------------------------------------------
(* The worker *)

TaskPhases == Phases \ {"Absent", "Gone", "", "Completed", "Canceled"}

\* pc "down": the controller process is not running.
\* sources[v]: the source of v's ready or in-progress entry in the plan read.
\* sourcesDone: the completed entries read.  todo: VMs the loop has not
\* reached.  kept: VMs the cancel loop leaves running.  at: the VM whose swap
\* is half done.
Worker == [pc: {"idle", "down", "liveMigrateVM", "offlineMigrateVM", "meta", "status"} \cup TaskPhases,
           m: Migs \cup {0}, obj: MigObj, sources: [VMs -> Sources],
           sourcesDone: SUBSET (VMs \X Sources), todo: SUBSET VMs, kept: SUBSET VMs,
           at: VMs \cup {NoVM}]

\* Where the loop of handleBeginLiveMigrationPhase can be.
SwapPCs == {"BeginLiveMigration", "liveMigrateVM", "offlineMigrateVM"}

NoMig == [phase |-> "Absent", running |-> {}, completed |-> {}, cancelled |-> {},
          fin |-> FALSE, owned |-> FALSE, deleting |-> FALSE]

IdleWorker == [pc |-> "idle", m |-> 0, obj |-> NoMig, sources |-> [v \in VMs |-> "none"],
               sourcesDone |-> {}, todo |-> {}, kept |-> {}, at |-> NoVM]

meta(o) == <<o.fin, o.owned>>
status(o) == <<o.phase, o.running, o.completed, o.cancelled>>

\* persistMigration: what is left to write of the copy o of m.
ToPersist(m, o) ==
  IF meta(o) # meta(mig[m]) THEN [IdleWorker EXCEPT !.pc = "meta", !.m = m, !.obj = o]
  ELSE IF status(o) # status(mig[m]) THEN [IdleWorker EXCEPT !.pc = "status", !.m = m, !.obj = o]
  ELSE IdleWorker

\* The task returns, with or without an error: the copy is written either way.
Return(o) == mw' = ToPersist(mw.m, o)

PersistMeta ==
  LET m == mw.m
      o == [mig[m] EXCEPT !.fin = mw.obj.fin, !.owned = mw.obj.owned]
  IN  /\ mw.pc = "meta"
      /\ \/ /\ m \in stale
            /\ mw' = IdleWorker
            /\ UNCHANGED mig
         \/ /\ m \notin stale
            /\ ~o.fin /\ o.deleting
            /\ mig' = [mig EXCEPT ![m] = [o EXCEPT !.phase = "Gone"]]
            /\ mw' = IdleWorker
         \/ /\ m \notin stale
            /\ o.fin \/ ~o.deleting
            /\ mig' = [mig EXCEPT ![m] = o]
            /\ mw' = IF status(mw.obj) # status(o) THEN [mw EXCEPT !.pc = "status"] ELSE IdleWorker
      /\ UNCHANGED <<plan, stale, clusterVars>>

PersistStatus ==
  /\ mw.pc = "status"
  /\ mig' = IF mw.m \in stale THEN mig ELSE [mig EXCEPT ![mw.m] = mw.obj]
  /\ mw' = IdleWorker
  /\ UNCHANGED <<plan, stale, clusterVars>>

-----------------------------------------------------------------------------
(* Reconcile: read the objects and pick the task *)

\* A plan with a critical condition blocks its migrations.
Blocked == ~plan.exists \/ plan.crit # {}

\* Mutant: the cleanup phase of a cancel is not exempt.
TaskPhaseAlwaysCancels(o) ==
  IF o.deleting /\ ~(plan.exists /\ plan.deleting /\ plan.fin) THEN "Canceling"
  ELSE IF o.phase = "" THEN "Started" ELSE o.phase

\* maybeTransitionToCanceling, after init
TaskPhase(o) ==
  IF /\ o.deleting
     /\ o.phase # "CleanupCancelledMigrations"
     /\ ~(plan.exists /\ plan.deleting /\ plan.fin)
  THEN "Canceling"
  ELSE IF o.phase = "" THEN "Started" ELSE o.phase

ReadSources ==
  [v \in VMs |-> IF plan.exists /\ plan.list[v] \in {"ready", "inProgress"} THEN plan.rec[v] ELSE "none"]

ReadCompleted == IF plan.exists THEN plan.completed ELSE {}

\* Mutant: the cancel loop passes over VMs the plan status has lost.
LoopOverKnown(o, sources) ==
  {v \in VMs : /\ sources[v] # "none"
               /\ \/ o.phase = "BeginLiveMigration"
                  \/ o.phase = "Canceling" /\ v \in o.running}

LoopOver(o, sources) ==
  CASE o.phase = "BeginLiveMigration" -> {v \in VMs : sources[v] # "none"}
    [] o.phase = "Canceling" -> o.running
    [] OTHER -> {}

\* Mutant: a canceled migration is reconciled like any other.
OverPhasesCompleted == {"Completed"}

\* Only the finalizer is left to do.
OverPhases == {"Canceled", "Completed"}

Reconcile(m) ==
  LET owned == [mig[m] EXCEPT !.owned = @ \/ plan.exists]
      o == [owned EXCEPT !.phase = TaskPhase(owned)]
  IN  /\ mw.pc = "idle"
      /\ Exists(m)
      /\ stale' = stale \ {m}
      /\ \/ /\ mig[m].deleting /\ mig[m].phase \in OverPhases
            /\ mw' = ToPersist(m, [mig[m] EXCEPT !.fin = FALSE])
         \/ /\ mig[m].phase \notin OverPhases
            /\ Blocked /\ ~mig[m].deleting
            /\ mw' = ToPersist(m, owned)
         \/ /\ mig[m].phase \notin OverPhases
            /\ ~Blocked \/ mig[m].deleting
            /\ mw' = [IdleWorker EXCEPT !.pc = o.phase, !.m = m, !.obj = o,
                        !.sources = ReadSources, !.sourcesDone = ReadCompleted,
                        !.todo = LoopOver(o, ReadSources)]
      /\ UNCHANGED <<mig, plan, clusterVars>>

-----------------------------------------------------------------------------
(* Started, RefreshStorageMigrationPlan and the wait for the refresh *)

RunStarted ==
  /\ mw.pc = "Started"
  /\ Return([mw.obj EXCEPT !.fin = TRUE, !.phase = "RefreshStorageMigrationPlan"])
  /\ UNCHANGED <<mig, plan, stale, clusterVars>>

\* refreshReadyVirtualMachines patches the plan's annotations, whoever else
\* is writing the plan.
RunRefresh ==
  /\ mw.pc = "RefreshStorageMigrationPlan"
  /\ \/ /\ plan.exists
        /\ plan' = [plan EXCEPT !.refresh = "started"]
        /\ stale' = stale \cup {PlanKey}
        /\ Return([mw.obj EXCEPT !.phase = "WaitForStorageMigrationPlanRefreshCompletion"])
     \/ /\ ~plan.exists \/ "error" \in Env
        /\ Return(mw.obj)
        /\ UNCHANGED <<plan, stale>>
  /\ UNCHANGED <<mig, clusterVars>>

\* A plan that is missing by now is a nil pointer; the panic ends the reconcile
\* without a write, as a return does here: the copy has not been changed.
RunWaitForRefresh ==
  /\ mw.pc = "WaitForStorageMigrationPlanRefreshCompletion"
  /\ \/ /\ plan.exists /\ plan.refresh = "done"
        /\ Return([mw.obj EXCEPT !.phase = "BeginLiveMigration"])
     \/ /\ ~plan.exists \/ plan.refresh # "done" \/ "error" \in Env
        /\ Return(mw.obj)
  /\ UNCHANGED <<mig, plan, stale, clusterVars>>

-----------------------------------------------------------------------------
(* BeginLiveMigration *)

CanVMStorageMigrate(v) == VMIExists(v) => vm[v].fit

\* createTargetDV; a DataVolume that is already there is accepted.
CreateTargetDV(v, state, sourceClaim) ==
  /\ claim[v][sourceClaim] # "none"
  /\ claim' = [claim EXCEPT ![v]["tgt"] = IF @ = "none" THEN state ELSE @]

\* The VM's volumes now name claim c; merge patches do not conflict.
PatchVM(v, c, strategy) ==
  vm' = [vm EXCEPT ![v].spec = c, ![v].strategy = @ \/ strategy]

BeginSkipVM(v) ==
  /\ mw.pc = "BeginLiveMigration" /\ v \in mw.todo
  /\ ~CanVMStorageMigrate(v)
  /\ mw' = [mw EXCEPT !.todo = @ \ {v}]
  /\ UNCHANGED <<mig, plan, stale, clusterVars>>

\* liveMigrateVM creates blank target DataVolumes, then swaps the volumes.
LiveMigrateCreateDV(v) ==
  /\ mw.pc = "BeginLiveMigration" /\ v \in mw.todo
  /\ VMIExists(v) /\ CanVMStorageMigrate(v)
  /\ CreateTargetDV(v, "bound", mw.sources[v])
  /\ mw' = [mw EXCEPT !.pc = "liveMigrateVM", !.at = v]
  /\ UNCHANGED <<mig, plan, stale, vm, vmim, data>>

\* Mutant: the VM is not appended to RunningMigrations.
SwappedUnlisted(v) == [mw EXCEPT !.pc = "BeginLiveMigration", !.at = NoVM, !.todo = @ \ {v}]

Swapped(v) == [mw EXCEPT !.pc = "BeginLiveMigration", !.at = NoVM, !.todo = @ \ {v},
                         !.obj.running = @ \cup {v}]

LiveMigrateSwap ==
  /\ mw.pc = "liveMigrateVM"
  /\ PatchVM(mw.at, "tgt", TRUE)
  /\ mw' = Swapped(mw.at)
  /\ UNCHANGED <<mig, plan, stale, vmim, claim, data>>

\* offlineMigrateVM swaps the volumes first, then creates clone DataVolumes.
OfflineMigrateSwap(v) ==
  /\ mw.pc = "BeginLiveMigration" /\ v \in mw.todo
  /\ ~VMIExists(v)
  /\ PatchVM(v, "tgt", FALSE)
  /\ mw' = [mw EXCEPT !.pc = "offlineMigrateVM", !.at = v]
  /\ UNCHANGED <<mig, plan, stale, vmim, claim, data>>

OfflineMigrateCreateDV ==
  /\ mw.pc = "offlineMigrateVM"
  /\ CreateTargetDV(mw.at, "pending", mw.sources[mw.at])
  /\ mw' = Swapped(mw.at)
  /\ UNCHANGED <<mig, plan, stale, vm, vmim, data>>

\* An API call of the loop fails, or the recorded source claim is not found:
\* the VMs handled so far stay in RunningMigrations, the phase stays.
BeginFails ==
  /\ \/ mw.pc \in SwapPCs /\ "error" \in Env
     \/ /\ mw.pc = "BeginLiveMigration"
        /\ \E v \in mw.todo : VMIExists(v) /\ CanVMStorageMigrate(v) /\ claim[v][mw.sources[v]] = "none"
     \/ mw.pc = "offlineMigrateVM" /\ claim[mw.at][mw.sources[mw.at]] = "none"
  /\ Return(mw.obj)
  /\ UNCHANGED <<mig, plan, stale, clusterVars>>

\* Mutant: the next phase is misspelt.
BeginDoneMisspelt ==
  /\ mw.pc = "BeginLiveMigration" /\ mw.todo = {}
  /\ Return([mw.obj EXCEPT !.phase = "WaitForLiveMigration"])
  /\ UNCHANGED <<mig, plan, stale, clusterVars>>

BeginDone ==
  /\ mw.pc = "BeginLiveMigration" /\ mw.todo = {}
  /\ Return([mw.obj EXCEPT !.phase = "WaitForLiveMigrationToComplete"])
  /\ UNCHANGED <<mig, plan, stale, clusterVars>>

-----------------------------------------------------------------------------
(* WaitForLiveMigrationToComplete *)

\* Mutant: a VMIM that is still running counts.
IsLiveMigrationCreated(v) == {mw.m \in vmim[v].done \cup vmim[v].since}

\* The first VMIM of v that has not failed and is not older than the
\* migration decides; the list comes in any order.
IsLiveMigrationCompleted(v) ==
  (IF mw.m \in vmim[v].done THEN {TRUE} ELSE {})
    \cup (IF mw.m \notin vmim[v].done \/ (vmim[v].act # "none" /\ mw.m \in vmim[v].since)
          THEN {FALSE} ELSE {})

\* Mutant: the phase of the target DataVolume is not looked at.
IsOfflineMigrationBegun(v) == mw.sources[v] # "none" /\ claim[v]["tgt"] # "none"

\* The target DataVolume has phase Succeeded or WaitForFirstConsumer.
IsOfflineMigrationCompleted(v) ==
  /\ mw.sources[v] # "none"
  /\ \/ claim[v]["tgt"] = "bound"
     \/ claim[v]["tgt"] = "pending" /\ "waitForFirstConsumer" \in Env

MigrationCompleted(v) ==
  IF VMIExists(v) THEN IsLiveMigrationCompleted(v) ELSE {IsOfflineMigrationCompleted(v)}

RunWaitForLiveMigration ==
  /\ mw.pc = "WaitForLiveMigrationToComplete"
  /\ \E done \in SUBSET mw.obj.running :
       LET left == mw.obj.running \ done
           o == [mw.obj EXCEPT !.completed = @ \cup done]
       IN  \/ /\ \A v \in done : TRUE \in MigrationCompleted(v)
              /\ \A v \in left : FALSE \in MigrationCompleted(v)
              /\ Return([o EXCEPT !.running = left,
                                  !.phase = IF left = {} THEN "CleanupMigrationResources" ELSE @])
           \* The loop stops with an error half way: RunningMigrations stays.
           \/ /\ "error" \in Env /\ mw.obj.running # {}
              /\ \A v \in done : TRUE \in MigrationCompleted(v)
              /\ Return(o)
  /\ UNCHANGED <<mig, plan, stale, clusterVars>>

-----------------------------------------------------------------------------
(* CleanupMigrationResources *)

\* cleanupCompletedPods: an instance being migrated has two active pods.
PodsCleaned(vms) == \A v \in vms : VMIExists(v) => vmim[v].act = "none"

\* cleanupCompletedVMIMs deletes the succeeded VMIMs of the completed VMs.
CleanupCompletedVMIMs(vms) == vmim' = [v \in VMs |-> IF v \in vms THEN [vmim[v] EXCEPT !.done = {}] ELSE vmim[v]]

\* The claims getSourcePVCsForCompletedMigrations finds in the plan status.
SourcePVCs(vms) == {e \in mw.sourcesDone : e[1] \in vms /\ e[2] # "none"}

\* Active pods are left, or a call fails, before or after some VMIMs are gone.
RunCleanupWaits ==
  /\ mw.pc = "CleanupMigrationResources"
  /\ \/ ~PodsCleaned(mw.obj.completed) /\ UNCHANGED vmim
     \/ "error" \in Env /\ \E vms \in SUBSET mw.obj.completed : CleanupCompletedVMIMs(vms)
  /\ Return(mw.obj)
  /\ UNCHANGED <<mig, plan, stale, vm, claim, data>>

\* The plan status does not list the sources yet, or a delete call fails.
RunCleanupFails ==
  /\ mw.pc = "CleanupMigrationResources"
  /\ PodsCleaned(mw.obj.completed)
  /\ DeleteSource
  /\ CleanupCompletedVMIMs(mw.obj.completed)
  /\ \/ /\ mw.obj.completed # {} /\ SourcePVCs(mw.obj.completed) = {}
        /\ UNCHANGED <<claim, data>>
     \/ /\ "error" \in Env
        /\ \E D \in SUBSET SourcePVCs(mw.obj.completed) : DeleteClaims(D)
  /\ Return(mw.obj)
  /\ UNCHANGED <<mig, plan, stale, vm>>

RunCleanup ==
  LET vms == mw.obj.completed
  IN  /\ mw.pc = "CleanupMigrationResources"
      /\ PodsCleaned(vms)
      /\ CleanupCompletedVMIMs(vms)
      /\ \/ /\ ~DeleteSource
            /\ UNCHANGED <<claim, data>>
         \/ /\ DeleteSource
            /\ vms = {} \/ SourcePVCs(vms) # {}
            /\ DeleteClaims(SourcePVCs(vms))
      /\ Return([mw.obj EXCEPT !.fin = FALSE, !.phase = "Completed"])
      /\ UNCHANGED <<mig, plan, stale, vm>>

-----------------------------------------------------------------------------
(* Canceling *)

\* Mutant: the record is looked at and the VM is not.
IsVMSourceRecorded(v) == mw.sources[v] = "src"

\* The running VM names its source and no target (needs an intact record).
IsVMOnSourceVolumes(v) == mw.sources[v] = "src" /\ vm[v].spec = "src"

HasActiveVMIM(v) == vmim[v].act # "none" /\ mw.m \in vmim[v].since

\* VolumeUpdateState names the original source while KubeVirt moves the disk.
VolumeUpdateState(v) == IF vm[v].spec = "tgt" /\ vm[v].disk = "src" THEN BOOLEAN ELSE {FALSE}

\* cancelLiveMigration needs a plan entry whose source is intact or recovered.
CanRevert(v) ==
  IF mw.sources[v] = "tgt" THEN VolumeUpdateState(v)
  ELSE {mw.sources[v] = "src"}

CancelVM(v) ==
  LET waits == mw' = [mw EXCEPT !.todo = @ \ {v}, !.kept = @ \cup {v}]
      cancelled == mw' = [mw EXCEPT !.todo = @ \ {v}]
      onSource == VMIExists(v) /\ IsVMOnSourceVolumes(v)
  IN  /\ mw.pc = "Canceling" /\ v \in mw.todo
      /\ \/ ~VMIExists(v) /\ TRUE \in CanRevert(v) /\ PatchVM(v, "src", TRUE) /\ cancelled
         \/ onSource /\ HasActiveVMIM(v) /\ waits /\ UNCHANGED vm
         \/ onSource /\ ~HasActiveVMIM(v) /\ cancelled /\ UNCHANGED vm
         \/ VMIExists(v) /\ ~onSource /\ TRUE \in CanRevert(v) /\ PatchVM(v, "src", TRUE) /\ waits
      /\ UNCHANGED <<mig, plan, stale, vmim, claim, data>>

CancelFails ==
  /\ mw.pc = "Canceling"
  /\ \E v \in mw.todo :
       \/ "error" \in Env
       \/ ~(VMIExists(v) /\ IsVMOnSourceVolumes(v)) /\ FALSE \in CanRevert(v)
  /\ Return(mw.obj)
  /\ UNCHANGED <<mig, plan, stale, clusterVars>>

\* CancelledMigrations becomes what this pass cancelled.
CancelDone ==
  /\ mw.pc = "Canceling" /\ mw.todo = {}
  /\ Return([mw.obj EXCEPT !.running = mw.kept, !.cancelled = mw.obj.running \ mw.kept,
                           !.phase = IF mw.kept = {} THEN "CleanupCancelledMigrations" ELSE @])
  /\ UNCHANGED <<mig, plan, stale, clusterVars>>

-----------------------------------------------------------------------------
(* CleanupCancelledMigrations *)

\* Mutant: the claims of the source list are deleted.
CancelledSources == {<<v, mw.sources[v]>> : v \in {w \in mw.obj.cancelled : mw.sources[w] # "none"}}

\* Mutant: the targets of all VMs of the plan are deleted.
AllTargets == {<<v, "tgt">> : v \in {w \in VMs : mw.sources[w] # "none"}}

\* Target DataVolumes of the cancelled VMs that still have a plan entry.
CancelledTargets == {<<v, "tgt">> : v \in {w \in mw.obj.cancelled : mw.sources[w] # "none"}}

\* The targets go even while the pods of completed VMs are not cleaned up.
RunCleanupCancelled ==
  LET cleaned == PodsCleaned(mw.obj.completed)
  IN  /\ mw.pc = "CleanupCancelledMigrations"
      /\ \/ /\ IF cleaned THEN CleanupCompletedVMIMs(mw.obj.completed) ELSE UNCHANGED vmim
            /\ DeleteClaims(CancelledTargets)
            /\ Return([mw.obj EXCEPT !.phase = IF cleaned THEN "Canceled" ELSE @])
         \/ /\ "error" \in Env
            /\ \E vms \in SUBSET mw.obj.completed : CleanupCompletedVMIMs(vms)
            /\ \E D \in SUBSET CancelledTargets : DeleteClaims(D)
            /\ Return(mw.obj)
      /\ UNCHANGED <<mig, plan, stale, vm>>

-----------------------------------------------------------------------------

RunBegin ==
  \/ \E v \in VMs : BeginSkipVM(v) \/ LiveMigrateCreateDV(v) \/ OfflineMigrateSwap(v)
  \/ LiveMigrateSwap
  \/ OfflineMigrateCreateDV
  \/ BeginFails
  \/ BeginDone

RunCanceling ==
  \/ \E v \in VMs : CancelVM(v)
  \/ CancelFails
  \/ CancelDone

\* One step of Task.Run and persistMigration.
MigWorkerStep ==
  \/ RunStarted
  \/ RunRefresh
  \/ RunWaitForRefresh
  \/ RunBegin
  \/ RunWaitForLiveMigration
  \/ RunCleanupWaits
  \/ RunCleanupFails
  \/ RunCleanup
  \/ RunCanceling
  \/ RunCleanupCancelled
  \/ PersistMeta
  \/ PersistStatus

MigInit ==
  /\ mig = [m \in Migs |-> IF "create" \in Env THEN NoMig ELSE [NoMig EXCEPT !.phase = ""]]
  /\ mw = IdleWorker
=============================================================================
