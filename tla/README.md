# Verification of kubevirt-migration-controller

The controller moves the disks of KubeVirt virtual machines to other storage. A
user writes a *plan* (which VMs, which target claims) and then a *migration* that
executes it. This directory models the four controllers of the repository, checks
them with TLC together with the cluster they act on, and proves the central safety
properties with TLAPS. Paths below are relative to the repository.

## 1. The system

| Component | State it keeps | Operations |
|---|---|---|
| migration controller, `internal/controller/storagemig` | `VirtualMachineStorageMigration`: phase, RunningMigrations, CompletedMigrations, CancelledMigrations, finalizer, owner reference | `Reconcile` runs one phase of `Task`: Started, RefreshStorageMigrationPlan, WaitForStorageMigrationPlanRefreshCompletion, BeginLiveMigration, WaitForLiveMigrationToComplete, CleanupMigrationResources, and after a delete Canceling, CleanupCancelledMigrations, Canceled |
| plan controller, `internal/controller/storagemigplan` | `VirtualMachineStorageMigrationPlan`: ready, in-progress, invalid and completed entries with the recorded source claims and target names, conditions, refresh annotations, finalizer | `Reconcile`: check KubeVirt, the VMs, storage classes and claims, record sources, name targets, move completed entries, answer a refresh, hold a deletion while migrations are active |
| VM helpers, `pkg/component-helpers` | none | is the VM running, can it be migrated, fetch the plan |
| API types, `api/migrationcontroller/v1alpha1` | phases, status lists, conditions | finalizers, conditions, `AllSpecVMsCompleted` |
| multi-namespace migration controller, `internal/controller/multinamespacestoragemig` | `MultiNamespaceVirtualMachineStorageMigration`: a status per namespace, conditions, finalizer | `Reconcile`: one child migration per namespace of the plan, replace stale ones, report conflicts, copy the status; `runFinalizer`: delete the children, then go |
| multi-namespace plan controller, `internal/controller/multinamespacestoragemigplan` | `MultiNamespaceVirtualMachineStorageMigrationPlan`: a status per namespace, conditions, finalizer | `Reconcile`: check each namespace of the spec, one child plan in each, replace stale ones, skip a completed parent, copy the status; `runFinalizer`: delete the children, then go |
| progress, TLS watcher, `cmd/main.go` | none that matters here | not modelled |
| cluster (external) | VMs, instances (VMI), instance migrations (VMIM), DataVolumes and PVCs | KubeVirt creates a VMIM when the volumes of a running VM change; CDI clones; the API server checks resource versions and finalizers; the garbage collector follows owner references |

They interact through objects only. The migration controller patches the refresh
annotation of the plan; the plan controller answers with an end annotation and a
new status; the migration controller reads the sources from that status, creates
target claims and patches the VMs; KubeVirt moves the disks; the plan controller
reads the phases and completed VMs of the migrations. The multi-namespace
controllers create and delete plans and migrations and copy their status. Each
controller reads a copy, works on it and writes it back in two calls, metadata and
status, either of which may conflict with somebody else's write.

What is hard: the side effects of a phase (VM patches, deletions) happen before its
record is written; the record can be lost to a conflict, an error or a crash; the
two controllers read each other between two writes; the plan's record is computed
again and again from VMs that are being swapped meanwhile; VMs stop, start, move
and fail while this goes on; a delete may come at any time. The dangers are the
loss of the only copy of a disk, a VM left on the wrong claim, a target deleted
under a VM, a source forgotten so that a cancel cannot revert, children that nobody
deletes, and everyone waiting for everyone. `PROJECT.json` lists these hazards by
line.

## 2. The modules

| Module | Models |
|---|---|
| `Cluster` | external: VMs, VMIMs, claims, and where the latest data of a VM is (`data[v]`, a ghost variable) |
| `StorageMig` | the migration controller: objects, worker, one action per phase or API call of a phase |
| `StorageMigPlan` | the plan controller: validation as operators from plan to plan, one action per path through `Reconcile` |
| `MigrationSystem` | both controllers, the cluster, user, garbage collector, process crashes; the specification and the properties |
| `Conditions` | the condition list of a status and its operations (`conditions.go`) |
| `VolumeSwap` | claim names, entries, and the volumes and DataVolumeTemplates of a VM through swap and revert |
| `PlanRecords` | what the plan records of its VMs, in full: the plan controller's validation with lists, names and conditions, and the migration controller reduced to one step per VM |
| `MultiNamespaceMig` | the multi-namespace migration controller, its children and users |
| `MultiNamespacePlan` | the multi-namespace plan controller, its children, users and namespaces |
| `CascadingOwnership` | abstract: what both multi-namespace controllers promise about parents and children |
| `MigrationLifecycle` | abstract: what the migration controller promises about VMs, claims and status lists, without workers, copies or VMIMs |
| `MCMigrationSystem`, `MCPlanRecords`, `MCMultiNamespaceMig`, `MCMultiNamespacePlan` | instances for TLC |
| `MigrationSystemProofs`, `MigrationOrderProofs`, `MigrationRecordProofs`, `MigrationLifecycleProofs`, `MigrationDataProofs` | theorems about `MigrationSystem`, each on top of the one before |
| `PlanRecordsProofs`, `MultiNamespaceMigProofs`, `MultiNamespacePlanProofs` | theorems about the module of that name |

### MigrationSystem

**State.** `mig[m]` and `plan` are the API objects. `mw` and `pw` are the two
workers: where the reconcile is (`pc`), the copy it works on (`obj`) and, for `mw`,
what it read of the plan (`sources`, `sourcesDone`) and its loop over VMs (`todo`,
`kept`, `at`). controller-runtime runs one reconcile at a time per controller by
default, which is why each has one worker. `stale` holds the objects that another
client changed since their reconciler read them; it stands for the resource version: a
write of a stale object conflicts and what was computed is dropped.

**Atomicity.** `Reconcile(m)` reads the migration and its plan. Each VM of the
BeginLiveMigration and Canceling loops is a step; `liveMigrateVM` and
`offlineMigrateVM` are two, creation of the target and swap of the volumes, in the
order of the code. The two writes of `persistMigration` and `persistPlan` are two
steps. Everything else interleaves between these. The remaining phases read the
cluster in one step.

**Errors.** With `"error"` (`"planError"`) in `Env` every phase (validation) may
fail at any API call; the actions give the state that results, with partial
effects. A failed List in `getMigrationStatus` counts as "no migration" and one in
`processMigrations` is ignored, as in the code.

**Environment.** `Env` names what may happen besides normal operation: `create`
(migrations appear later), `delete`, `deletePlan`, `foreground` (foreground
deletion marks owned migrations first), `stop`, `start`, `evacuate`, `vmimFail`,
`waitForFirstConsumer`, `unfit` (the VM is temporarily not migratable), `error`,
`planError`, `restart`.

**Abstractions.** One disk per VM, with claims `src` and `tgt`; names, sizes,
storage classes and DataVolumeTemplates are the subject of `PlanRecords`. A
recorded source `tgt` is the corrupted record the code talks about. Status lists
are sets, so duplicate entries of one list disappear; the completed list of the
plan keeps one entry per source. Conditions are kept as far as they are critical,
because only those block a migration. Status writes that change only other
conditions are left out. Reads return the latest object (the informer cache does
not lag). A reconcile of the plan reads migrations and VMs at one instant. KubeVirt
does not start a VM from a target that holds no data of it. A step in which the
code would panic (`validatePVCs` indexing an entry without sources) is excluded by
a guard. KubeVirt is installed and supports storage migration. The phase Canceled
of `Task.Run` is never executed: a deleting migration in that phase takes the
earlier branch.

**MigrationLifecycle** is what remains when all of this is hidden: each migration has a
stage (the refresh of the plan is one stage, waiting), a mark of deletion and its three
lists; a VM is on its target or not; a claim is there or deleted. It says when a
migration may point a VM at its target (in the swapping stage, while the plan exists)
or back (deleted, and listing the VM), what a list may say at the moment it is written
(the VMs added to the running list are on their targets, those taken off as cancelled
are on their sources), which claims may be deleted when, from which stages a migration
may leave and when the plan may go. The mapping (`Lifecycle` in `MigrationSystem`) reads
the API objects only, never a worker or its copy; so a step that writes a status maps to
a step of the abstract specification only if what the copy says is true when the write
succeeds.

### PlanRecords

The question here is what the record of the plan is worth, so the interleaving is
coarser and the data are kept. `vm[v]` has its volumes in order, the names of their
DataVolumeTemplates, and the claims its instance uses; `status` has the four
lists of entries and the conditions, all in their order, because the controller
compares the whole status before it writes it. A claim name is the sequence of its
parts, so that `trimSuffix` and `targetPVCName` can be modelled by what they do.
`Filtered`, a recursive function, keeps the members of a set in their order. A
reconcile of the plan is one step (`PlanReconcile`), with variants in which a List
of migrations fails and is taken for "none" (`PlanReconcileMisled`) or an API call
fails (`PlanReconcileFails`, which gives the statuses that are left at each place).
The migration controller reads the entries (`ReadPlan`) and handles one VM per step
with what it read, while plan and cluster go on. `RecordEnv` names the disturbances
(`stopped` VMs, `unfit` VMs, a changing `kubevirt`, missing `storageClass`es,
`error`, `listError`, `addVM` to the spec); `MaxChanges` bounds them and `MaxMigs`
the successive migrations. The retention policy is keepSource, the migration
controller is never behind, and one migration exists at a time. Where the code
panics (`Panics`), the reconcile leaves no successor status and is retried.

### The fan-outs

**MultiNamespaceMig.** `parent[p]` are the parents of one plan, `child[n]` the
object with the child's name in namespace `n` and whose it is (label), `queue` the
work queue, `w` the single worker with the status it builds, `behind` the parents
changed since it read them. Unlike in `MigrationSystem` nothing polls here: a parent
is reconciled only when an event or an error queued it, so the queue is modelled and
each API call of `Reconcile`, `createNamespacedMigration` and `runFinalizer` is a
step. A child is a migration of `MigrationSystem` reduced to new, running (it has a
finalizer, so that a delete is a cancel first) and completed. The loop takes the
namespaces in any order. Every parent refers to the plan; the plan may be missing,
appear and disappear. A child is deleted by the controller only. Mapping an event
to a parent does not fail.

**MultiNamespacePlan** has the same layout. The name of a child plan depends on the
name of its parent only, so `parent[p]` are the parents of one name in different
namespaces, which share `child[n]`; at most `LiveParents` of them are not being
deleted. A parent has the namespaces of its spec, `ns[n]` says whether a namespace
can take a new child. `PlanEnv` has `delete`, `userCreate` and `userDelete` of
child plans, `edit` of the spec and `namespace` (a namespace is deleted with what it
holds and comes back). A child plan is new, open or completed; deleted, it waits for its
migrations, as `PlanOutlivesSwaps` of the plan controller says. The VMs and the
retention policy of the spec are copied at the creation of the child only and left out.

**CascadingOwnership** has neither queues nor finalizers, labels or workers: each
slot has a holder, a parent takes free slots, leaves only when it holds none, and
gives up a slot while it lives only if others interfere. Both modules instantiate
it with `life` (a parent absent, live, deleting or gone) and `holder` (the label of
the child in the slot).

## 3. The runs

Deadlock is not checked because a system whose migrations are over has nothing left
to do.

Passing:

* **Migrate** (`MCMigrationSystem`): two VMs, running or not, deleteSource; failing
  VMIMs, API errors, crashes, VMs started, the plan deleted at any step.
  `DataSafe`: the only copy of a disk is never deleted. `CompletedOnTarget`: a VM
  listed as completed has its data on the target. `SwapAccounted`: a swapped VM is
  always listed or will be handled again. `PlanOutlivesSwaps`: the plan outlives
  the work of its migrations. `SourcesNotWiped`: the plan does not forget the
  source of a swapped VM. `KeepsLifecycle`: the system implements
  `MigrationLifecycle`, here on the way forward. `TypeOK`.
* **AnyEnvironment** (`MCMigrationSystem`): one VM and every disturbance of `Env`
  that does not delete the plan or stop the process, keepSource. `SourceKept`,
  `TargetDeletedAfterRevert`, and the inductive invariant `CancelInv`.
* **Progress** (`MCMigrationSystem`): two VMs under fairness, with deletes, failing
  VMIMs and crashes. `CancelledOnSource`: during the cleanup of a cancel the VMs
  listed as cancelled name their sources. `CancelMovesOn`: a cancel never turns
  back. `KeepsLifecycle`, on the way back too. `EventuallyOver`: a migration completes
  or is deleted. `DeletedGoesAway`.
* **PlanRecords** (`MCPlanRecords`): two VMs, one with two templated disks of which
  one was migrated before, one with a given target name; every disturbance of
  `RecordEnv`. `DisksTogether`: a VM has all its own disks or all their targets, and
  templates to match. `TargetsFixed`: a target name does not change although it is
  computed anew from a VM that names the target. `SwapsItsSources`: a VM is swapped
  away from the very claims its entry records. `Settles`: in an unchanged world the
  third reconcile in a row writes nothing, so that the controller's own writes do
  not keep it busy.
* **FanOut** (`MCMultiNamespaceMig`): two parents, one after the other, two
  namespaces; deletes, migrations made by hand, and two of: failing call, restart,
  plan appears or goes. `NoOrphansInv`: a child exists only while its parent does
  and has its finalizer. `LiveChildKept`: a child is deleted only when its parent
  is being deleted. `FanOutOwnership`: the controller implements
  `CascadingOwnership`. `FanOutTypeOK`.
* **FanOutProgress** (`MCMultiNamespaceMig`): the same parents and namespaces under
  fairness with deletes. `FanOutEnds`: a parent reports every namespace completed,
  or a condition, or is deleted. `DeletedParentGoes`.
* **PlanFanOut** (`MCMultiNamespacePlan`): two parents of one name, one after the other,
  two namespaces; deletes, edits of the spec, plans made by hand, failing calls and
  restarts. Nobody but the controller deletes children, so that in `PlanOwnership` a
  slot is given up by a deleting owner only. `NoOrphanPlansInv`, `LiveChildPlanKept`,
  `PlanOwnership` as in FanOut. `PlanFanTypeOK`.
* **PlanFanOutProgress** (`MCMultiNamespacePlan`): one parent, two namespaces, under
  fairness, with every disturbance of `PlanEnv`, failing calls and restarts.
  `QuiescentSynced`: when nothing is queued, every namespace of a live parent has
  its child and the parent shows its state, so no event was lost.
  `PlanFanOutEnds`: every namespace is reported completed in the end.
  `DeletedPlanGoes`: a deleted parent goes away, unless a child plan that it has
  deleted stays for ever.

Where the code and what it says of itself disagree; each run ends in a
counterexample:

* **RefreshRace** (`CompletesWork`): `persistPlan` publishes the end of the refresh
  before the status; a migration that reads in between finds no ready VM and
  completes having done nothing.
* **CancelAtBegin** (`CancelRestores`): a delete during BeginLiveMigration makes the
  status write conflict, RunningMigrations is lost and the cancel reverts nothing.
* **StoppedVM** (`DataSafe`): a VM stopped during its live migration is judged by the
  offline rule, its blank target passes, and deleteSource deletes the data.
* **PlanDeletionStuck** (`PlanDeletionEnds`): a deleting plan answers no refresh; a
  migration waiting for one blocks the deletion for ever.

### What the passing runs leave out

The passing runs leave out the disturbances with which their properties fail. That
is a statement about the code, not a convenience; changing a constant in a
configuration shows each.

*MigrationSystem.* `SourcesNotWiped` fails with `planError`: an error in validation
leaves the lists that were reset before it, and they are written, against
"Transient lookup failures mid-swap must not wipe previously recorded sources"
(storagemigplan/validation.go:142). `CompletedOnTarget` fails with `evacuate` (any
VMIM newer than the migration counts), `stop` and `waitForFirstConsumer`, and with
`delete` together with `error`: an error in the wait loop leaves a VM in the running
list that is in the completed list already, and the cancel reverts it. `DataSafe`
fails with deleteSource and `stop` or `waitForFirstConsumer`, and with `delete` and
`stop` even under keepSource: a VM that was live-migrated and then stopped is
reverted offline by the cancel, to a source that is behind, and the target is
deleted; `SwapAccounted` with `delete`, with `planError`, and with `unfit` and
`restart`; `TargetDeletedAfterRevert` with `unfit` and deleteSource (the entry is
dropped and later recomputed from the swapped VM), `EventuallyOver` with `start` (a
VM migrated offline and started early has no VMIM to wait for). With two
overlapping migrations of one plan, which nothing serializes, and `delete`,
`CancelledOnSource` and `TargetDeletedAfterRevert` fail, and with deleteSource also
`DataSafe`. Each pass of a cancel overwrites
CancelledMigrations, so that VMs cancelled in an earlier pass are forgotten and
their targets stay. The loops of `task.go` append to lists that a failed pass has
already filled; nothing counts these entries.

*PlanRecords.* `CompletedOutOf`, as one more INVARIANT of `PlanRecords.cfg`, fails
without any disturbance: a migration that completes between two reconciles of its
plan has its VMs listed as completed twice, by `healCompletedMigrations`
(validation.go:257) and by `updateReadyCompletedMigrations`. The plan shows 4/2,
against "completed out of the total number of virtual machines"
(virtualmachinestoragemigrationplan_types.go:121).

With two successive migrations and two `error`s `SwapsItsSources` and
`DisksTogether` fail: an error wipes the record in the middle of a swap, the next
reconcile records the targets as sources, and a later cancel reverts to them or a
later migration swaps with them and renames no template; such a record is never
healed. `Settles` fails with two claims in `Plain`, because the
message about them lists a map in random order and the status is rewritten for
ever. A record that is healed without sources (`healCompletedMigrations`) and read
back as ready makes `validatePVCs` panic (validation.go:518). A plan whose
migration object is completed never validates a VM that is added to its spec.
Generated target names of two claims collide when they trim to one base name.

*MultiNamespaceMig.* `LiveChildKept` and `FanOutOwnership` fail with
`LiveParents = 2`: a second parent of the plan takes the children of the first for
stale ("Such orphaned children are safe to replace",
multinamespacestoragemig/controller.go:264), the deletion queues the first, and
they replace each other's children in turn. Because `deleteChildMigration` deletes
by name and not by UID, a migration that a user makes between the reading of a
stale child and its deletion is deleted. Under a conflict with a migration made by hand
every reconcile sets ConflictingMigration again, with a new time, and compares the
statuses with their times (controller.go:121 and 184): unless it falls into the second
of the one before, the write changes the status and queues the parent once more, for
as long as the conflict lasts.

*MultiNamespacePlan.* The same holds of two parents of one name in different
namespaces. A child plan without the label is deleted as stale. A completed plan
that somebody made by hand passes for the child's, because `isMultiPlanCompleted`
does not look at the label; hence `byHand` in `QuiescentSynced`. One namespace that
cannot take its child holds up the ones after it, and for a missing namespace the
failing Create comes before the status with InvalidNamespace is written. A child plan
whose migration waits for a refresh stays for ever once it is deleted
(PlanDeletionStuck), and its parent with it.

### Bounds

Two VMs suffice to have one VM of a loop handled and another not, one kept and one
cancelled, one live and one offline; one VM where the property is per VM and the
environment large. One migration is the case the code handles; the properties that
hold for several are proved (section 4). No counter of `MigrationSystem` needs a
bound: the state space is finite and explored completely (1.5 million states for
AnyEnvironment). In `PlanRecords` `MaxChanges = 2` lets one disturbance remove a
record and the next bring it back or disturb the repair (72,000 states). In
the fan-outs two namespaces have one child created and the other not, and two
parents suffice for a replacement; `LiveParents` and `MaxFaults` are bounds of
TLC's instances only. Larger instances that pass as well: AnyEnvironment with
`restart` (2.3 million states), `KeepsLifecycle` for one VM
and deleteSource, with every disturbance (4.9 million states) and with two overlapping
migrations, `delete`, `deletePlan` and `error` (1.2 million states), FanOutProgress with two
parents and two faults over one namespace, PlanFanOutProgress with two parents and
two faults over one namespace (301,000 states), PlanRecords with three
disturbances (462,000 states), and with two migrations and one disturbance, or two
without `error`.

### Fairness

Weak fairness of both reconcilers and their steps: the work queue holds an object
until it is reconciled, errors are retried and the waiting phases requeue themselves
(`PollReQ`). Weak fairness of KubeVirt's and CDI's progress and of the garbage
collector; strong fairness of a VMIM's success, because KubeVirt retries a failing
one. No fairness of the user (but see the child plans below), of failures or of
crashes. The liveness properties assume that the process eventually stays up (`Calm`), and that API calls do not
fail for ever (`error` is not in `Env`). In the fan-outs: strong fairness for each
queued parent, because the work queue is served in order; weak fairness of the
steps of a reconcile. Children: weak fairness of the child migrations, which
`EventuallyOver` and `DeletedGoesAway` justify. Of a child plan, that it gets its
finalizer, which the plan controller does, and that it is completed: here, and only
here, somebody is assumed to act, who creates the migrations of the plan.
Nothing is assumed of a child plan that is being deleted, since PlanDeletionStuck shows
one that stays: `DeletedPlanGoes` names it as the one excuse, and `PlanFanOutEnds` has
the hypothesis that such a plan goes, and that each namespace is there again and again.

## 4. The proofs

`MigrationSystemProofs` and `MigrationOrderProofs` hold for all finite sets of VMs,
all sets of migrations and every `Env`:

* **TypeCorrect**, `Spec => []TypeOK`. Inductive form `TypeInv`: in addition a busy
  worker has a migration, and one in the middle of a swap a VM.
* **SourcesSurvive**, `Spec => []SourceKept`: with keepSource no source claim is
  deleted or even marked, however many migrations overlap. Claims are
  deleted at two places; one needs deleteSource, the other names targets only.
* **CancelCopyHolds**, `Spec => []CancelInv`, and **CancelReverts**,
  `Spec => []CancelledOnSource`, for a plan with one migration. `CancelledOnSource`
  is not inductive, because a reconcile works on a copy. `CancelInv` says of the copy
  what must hold when it is written: each VM the cancel loop has passed and not kept
  names its source, and a worker that may swap volumes works on a migration that is
  itself in BeginLiveMigration. The last fact needs one worker per controller and
  phases that never go back from a cancel.
* **TargetsDeletedAfterRevert**, for one migration and keepSource, from `CancelInv`.
* **CancelsMoveOn**, `Spec => CancelMovesOn`, for any number of overlapping
  migrations. The invariant `CopyInv`: a copy that can still be written is not
  behind its object, so a write never takes a phase back.
* **PlanGoesLast**, `Spec => []PlanOutlivesSwaps`, likewise. The invariant
  `PlanInv`: without the plan's finalizer no migration works; a worker about to
  remove the finalizer has seen that none does, and none can begin unnoticed,
  because it first has to ask for a refresh, and that makes the worker's plan stale.

`MigrationRecordProofs` and `MigrationDataProofs` go on from there, for any number of
VMs, through lost writes, errors of the migration controller and crashes:

* **SourcesStayRecorded**, `Spec => SourcesNotWiped`, and **SwapsStayAccounted**,
  `Spec => []SwapAccounted`. The two need each other: a swap can be repeated or
  reverted only with the recorded source, and the record survives because the plan
  sees the migration at work. The invariant `SwapInv` has four parts.
  `FinalizerInv`: a migration that works has its finalizer, also in the copy of its
  worker. `RecordInv`: the entry of a swapped VM has its source, in the plan and in
  the copy that the plan's worker may still write. `NoCancelInv`: without a delete
  nothing is cancelled. `AccountInv`: a swapped VM is listed in the migration and in
  every copy of it that can still be written, or the migration has not left
  BeginLiveMigration; and the VMs its loop has still to visit have a source among
  those the worker read.
* **CompletedIsOnTarget**,
  `Spec => []CompletedOnTarget`. The invariant `DataInv` ties the ghost variable
  `data` to what the controllers can see: a running VM has its data on its disk
  only, a VMIM runs or has succeeded only towards the target, a target that is
  missing or not yet cloned is not named by a VM that runs on it; and a VM in the
  completed list of a migration, or of a worker's copy, has its data on the target.
  That a source is deleted only after this uses `RecordInv`: the name that
  deleteSource takes from the record is never the target's.
* **KeptDataIsSafe**, `Spec => []DataSafe` for keepSource while no VM is stopped, with
  everything else: deleted and overlapping migrations, drains, clones that wait for
  a consumer, failing validations. Here the VM's side carries the argument
  (`HoldsData`): what an instance or its VMIM uses exists, because the protection of
  claims in use turns a deletion into a mark until the disk has moved, and the
  source of a VM that does not run has its data.
* **DataIsSafe**, `Spec => []DataSafe` with either retention policy, for one migration
  of any number of VMs that may be deleted at any step, while VMs are drained, calls
  fail, writes are lost and the process dies; no VM is stopped and no clone waits for a
  consumer. With deleteSource a source is not safe for ever, so the invariant
  `DroppedInv` has two parts. `HeldInv`: what a running VM uses exists, and one at rest
  has its data on its source or on a target that is bound; a VM in the completed list
  of a migration, or of a copy that will be written, and not taken back by a cancel,
  runs or has a cloned target. `SpentInv`: once a source has been deleted, the
  migration has nothing left to cancel, so a later delete of it removes no target. The
  proof that a cleanup finds the right VMs completed uses `LifecycleInv` (below) and
  `RecordInv`.

`MigrationLifecycleProofs` has one theorem, without hypotheses:

* **SystemKeepsLifecycle**, `Spec => KeepsLifecycle`: the system implements
  `MigrationLifecycle` for any number of VMs and overlapping migrations, both retention
  policies and every `Env`. The invariant `LifecycleInv` carries what is true of the API
  objects to the step that writes them. `MarkedInv`: a deleted migration keeps its
  finalizer until it is gone, and only deleted ones are cancelled. `TaskInv`, for a
  worker in the middle of a phase: the lists of the object are still the ones it read,
  the VMs its loop has added to the running list are on their targets, and those its
  cancel has passed and not kept are on their sources. `WriteInv`, for a worker whose
  write will not conflict: the copy follows from the object by one abstract step
  (`Follows`: refresh, swap, advance, end or cancel) and drops the finalizer of a
  deleted migration only at an end. The second half shows, action by action, that every step
  is an abstract step or none. It uses `CopyInv`, `PlanInv` (a swap finds the plan in
  place) and `FinalizerInv` (a migration that works does not vanish), and it needs that
  only the one worker of the migration controller changes the spec of a VM: what a
  loop has done stays done until the write.

`MultiNamespaceMigProofs` and `MultiNamespacePlanProofs` hold for all finite sets of
namespaces and parents and any number of faults; the theorems come in pairs:

* **FanOutTypes**, **PlanFanTypes**: type correctness.
* **ChildrenGoFirst**, `FanOutSpec => []NoOrphansInv`, and **ChildPlansGoFirst**, for
  any number of live parents. The worker acts on a parent it read earlier, so the
  invariant says that from the finalizer on the parent cannot be gone (a delete only
  marks it) and that a finalizer write after a delete conflicts.
* **LiveChildrenKept**, `FanOutSpec => LiveChildKept`, and **LiveChildPlansKept**, for
  `LiveParents = 1`. The strengthening: at most one parent is live; while the
  worker fans out for one, every other child has a deleting parent; the child it is
  about to replace is not its own; the finalizer has only its own children in hand.
  It survives the deletion of the worker's parent and the creation of the next in
  the middle of a reconcile, because only the worker creates labelled children.
* **FanOutImplementsOwnership**, **PlanImplementsOwnership**: the refinement of
  `CascadingOwnership`, for `LiveParents = 1`. Every step maps to a step or a
  stutter; that a slot is released only by a deleting parent, and that a parent leaves
  with no slot in hand, needs the invariants above and that a marked child and a
  finalizer being run belong to a deleting parent.
* **PlanFanOutSettles**, `PlanFanSpec => []QuiescentSynced`, for `LiveParents = 1`
  (for plans only): no event is lost. The invariant `SyncInv` says of every live
  parent that is not queued (again) that no write to it has been missed, and that it
  shows the state of all its children or is in the worker's hands; then it follows
  the loop: the namespaces already visited have the parent's child, and the copy of
  the status reports its state. A child that changes behind the loop queues the
  parent again, because it carries its label. The parts it needs: where a live
  parent has reported a child there is no other's, so that `isMultiPlanCompleted` is
  not fooled (`ReportsOwn`); the child the worker is about to create or replace is not
  its parent's (`CreatesMissing`); and a worker still busy for a deleted parent is
  done before the next has reported anything (`LateWorker`).

`PlanRecordsProofs` holds for every list of VMs with any number of volumes, any claim
names, any number and order of disturbances:

* **TargetsStayFixed**, `RecordSpec => []TargetsFixed`, for any number of migrations.
* **DisksStayTogether**, `RecordSpec => []DisksTogether`, and **VMsLeaveTheirSources**,
  `RecordSpec => SwapsItsSources`, for a plan with one migration.

The argument has three layers. Names: the target computed from a target is the target
itself (`TargetOfTarget`), because a suffix is cut off before one is put on. Entries:
whatever was remembered and whatever `VolumeUpdateState` says, an entry with sources
has for each volume its disk or its target, and the right targets (`StatusVMOpen`,
`Recovered`). Lists: a reconcile filters, joins and maps lists of such entries
(`FilteredType`, `LoopOverOK`). The invariant `RecordsInv` adds what one migration
makes true: until a VM is swapped every entry of it, in the status and among those the
migration controller has read, has its disks as sources (`Fresh`). That is why a swap
finds the templates, and it is lost in a second migration. Induction over a list is
an argument about the least index at which a statement fails: `LeastNatural` states it
of a set, so that no theorem with an operator for a parameter is needed.

Assumptions: `VMs` finite, migrations numbered from 1, `Env` a subset of
`EnvKinds`, `NoVM` not a VM; `Namespaces` and `Parents` finite, `User` and `Nobody`
different and not parents; in `PlanRecords` each VM has at least one volume, names have
at least one part and `NoName` is none. Hypotheses of single theorems; where section
3 does not say that the property fails without one, the proof needs it:

* `OneMigration` for CancelCopyHolds, CancelReverts, TargetsDeletedAfterRevert and,
  in `Undisturbed`, for SourcesStayRecorded and SwapsStayAccounted. A second
  migration that completes without work makes `healCompletedMigrations` replace the
  record, so that `SourcesNotWiped` fails and `RecordInv` with it; of `SwapAccounted`
  TLC knows no violation with two migrations. `Undisturbed` also excludes `unfit` and
  `planError`, with which the code drops entries; SwapsStayAccounted excludes
  `delete`.
* `Steady` for CompletedIsOnTarget: no `delete`, `stop`, `evacuate` or
  `waitForFirstConsumer`; `SourcesKnown`: `Undisturbed` if the plan has deleteSource.
  With keepSource it holds for overlapping migrations and failing validations.
* `Undisturbed`, no `stop` and no `waitForFirstConsumer` for DataIsSafe. `DataSafe`
  survives `unfit` and `planError`: TLC finds no violation for one VM and one migration
  with both and `delete`, but `DroppedInv` is not an invariant then. The run Migrate is
  an instance of the hypotheses of DataIsSafe and of CompletedIsOnTarget.
* keepSource and no `stop` for KeptDataIsSafe.
* `LiveParents = 1` where said.
* `DistinctNames` for `PlanRecordsProofs`: the claims of a VM, and their targets, differ,
  which the code does not check. `MaxMigs = 1` where said.

Only model-checked: `Settles`, a statement about three reconciles in a row, whose
proof would have to follow every condition through its position in the list; and all
liveness properties, which are out of the prover's reach.

## 5. Plan

Done: both controllers and their composition with the cluster; the records,
names and conditions of the plan; both multi-namespace controllers, their abstract
specification and the refinements; the abstract lifecycle of a migration, which the
composed system is proved to implement; proofs of every safety property of the runs but
`Settles`.

Left, in this order:

1. The composition of the two fan-outs; plans of one name in two namespaces, whose
   migrations `getMigrationStatus` tells apart and `processMigrations` does not.
2. Lag of the informer cache.

Not modelled: progress percentages (Prometheus queries that decide nothing), the TLS
watcher and `cmd/main.go` (wiring; the restart they cause is modelled), generated
code, test utilities, deployment manifests; the deletion of a VM during its migration.
