----------------------------- MODULE PlanRecords -----------------------------
(***************************************************************************)
(* What the plan controller records of the disks of its VMs, in full:      *)
(* several volumes per VM, their DataVolumeTemplates, claim names, the     *)
(* lists of entries in their order and the conditions.  MigrationSystem    *)
(* has one disk per VM, sets instead of lists, and the interleaving of     *)
(* single API calls; here a reconcile of the plan is one step, and so is   *)
(* what the migration controller does to one VM, with entries it read      *)
(* before.  The plan's retention policy is keepSource.                     *)
(***************************************************************************)
EXTENDS Conditions, VolumeSwap, FiniteSets

CONSTANTS
  Order,      \* the VMs, in the order of the plan's spec
  Disk,       \* Disk[v]: the claims of the volumes of v
  Given,      \* Given[v]: their destination names in the spec, or NoName
  Templated,  \* the VMs whose volumes have DataVolumeTemplates
  Plain,      \* claims with a file system and without the annotation of KubeVirt
  KubeVirts,  \* the lists of KubeVirt objects there may be; the first is there at first
  RecordEnv,  \* which disturbances may happen, a subset of RecordEnvKinds
  MaxMigs,    \* bound on migrations
  MaxChanges  \* bound on disturbances

Elements(seq) == {seq[i] : i \in DOMAIN seq}

VMs == Elements(Order)

\* A claim name has at least one part.
Names == Seq(STRING) \ {<<>>}

\* The elements of seq that are in S, in their order; SelectSeq by a set.
Filtered(seq, S) ==
  LET filtered[i \in 0..Len(seq)] ==
        IF i = 0 THEN <<>>
        ELSE IF seq[i] \in S THEN Append(filtered[i - 1], seq[i]) ELSE filtered[i - 1]
  IN  filtered[Len(seq)]

RecordEnvKinds == {"stopped", "unfit", "kubevirt", "storageClass", "error", "listError", "addVM"}

ASSUME RecordAssumption ==
  /\ RecordEnv \subseteq RecordEnvKinds
  /\ MaxMigs \in Nat /\ MaxChanges \in Nat
  /\ Order \in Seq(VMs) /\ Order # <<>>
  /\ Suffix \in STRING
  /\ \A v \in VMs : Disk[v] \in Seq(Names) /\ Disk[v] # <<>>
  /\ \A v \in VMs : Given[v] \in [DOMAIN Disk[v] -> Names \cup {NoName}]
  /\ NoName \notin Names

VARIABLES
  vm,        \* vm[v]: volumes, templates, the claims its instance uses, fitness
  claims,    \* the claims that exist
  kubevirt,  \* the KubeVirt objects of the cluster
  classes,   \* whether the storage classes the plan needs exist
  mig,       \* the migration of the plan
  task,      \* the migration controller's task
  spec,      \* the VMs of the plan
  status,    \* the status of the plan
  changes    \* what MaxChanges bounds, so far

recordVars == <<vm, claims, kubevirt, classes, mig, task, spec, status, changes>>

Entry(v, src, tgt) == [vm |-> v, src |-> src, tgt |-> tgt]

NoStatus == [ready |-> <<>>, invalid |-> <<>>, inProgress |-> <<>>, completed |-> <<>>, cond |-> <<>>]

NoMig(n) == [n |-> n, phase |-> "none", running |-> {}, completed |-> {}, cancelled |-> {}]

\* entries: of the plan, as read.  left, kept and reverted: the cancel loop.
IdleTask == [pc |-> "idle", entries |-> <<>>, left |-> {}, kept |-> {}, reverted |-> {}]

\* inst: the claims the instance uses, <<>> for a stopped VM.  vus: KubeVirt
\* has published VolumeUpdateState for the change of volumes.
VMInit(v) ==
  {[disk |-> Disk[v], dvt |-> [i \in DOMAIN Disk[v] |-> IF v \in Templated THEN Disk[v][i] ELSE NoName],
    inst |-> inst, vus |-> FALSE, fit |-> TRUE] :
     inst \in {Disk[v]} \cup (IF "stopped" \in RecordEnv THEN {<<>>} ELSE {})}

RecordInit ==
  /\ vm \in {f \in [VMs -> UNION {VMInit(v) : v \in VMs}] : \A v \in VMs : f[v] \in VMInit(v)}
  /\ claims = UNION {Elements(Disk[v]) : v \in VMs}
  /\ kubevirt = KubeVirts[1]
  /\ classes = TRUE
  /\ mig = NoMig(0)
  /\ task = IdleTask
  /\ spec = IF "addVM" \in RecordEnv THEN <<Order[1]>> ELSE Order
  /\ status = NoStatus
  /\ changes = 0

-----------------------------------------------------------------------------
(* Validation of the plan *)

\* getMigrationStatus
MigrationStatus ==
  CASE mig.phase \in {"wait", "canceling", "cleanupCancelled"} -> "inProgress"
    [] mig.phase = "completed" -> "completed"
    [] OTHER -> "notStarted"

AllSpecVMsCompleted(completed) ==
  /\ spec # <<>>
  /\ Len(completed) = Len(spec)
  /\ {e.vm : e \in Elements(completed)} = Elements(spec)

planCompletedByStatus(p) ==
  AllSpecVMsCompleted(p.completed) /\ p.ready = <<>> /\ p.inProgress = <<>> /\ p.invalid = <<>>

healCompletedMigrations(p) ==
  IF p.completed # <<>> THEN p
  ELSE [p EXCEPT !.completed = [i \in DOMAIN spec |-> Entry(spec[i], <<>>, Given[spec[i]])]]

\* getExistingStatusVMMap: of several entries the last.
Existing(p, v) ==
  LET all == p.ready \o p.inProgress \o p.completed \o p.invalid
      own == {i \in DOMAIN all : all[i].vm = v}
  IN  IF own = {} THEN {} ELSE {all[CHOOSE i \in own : \A j \in own : j <= i]}

\* The source claims by their targets, as far as KubeVirt has published them.
VolumeUpdateState(v) ==
  LET moved == {i \in DOMAIN vm[v].inst : vm[v].vus /\ vm[v].inst[i] # vm[v].disk[i]}
  IN  [name \in {vm[v].disk[i] : i \in moved} |-> vm[v].inst[CHOOSE i \in moved : vm[v].disk[i] = name]]

\* Mutant: the first volume, whatever its name.
SourcePVCOfFirst(v, i, missed) == vm[v].disk[1]

\* getSourcePVC; missed: the look at the migrations failed for this volume.
SourcePVC(v, i, missed) ==
  LET name == vm[v].disk[i]
      from == VolumeUpdateState(v)
  IN  IF MigrationStatus # "notStarted" /\ <<v, i>> \notin missed /\ name \in DOMAIN from THEN from[name] ELSE name

\* One claim that is missing makes an entry without sources.
createStatusVM(v, missed) ==
  LET src == [i \in DOMAIN Disk[v] |-> SourcePVC(v, i, missed)]
  IN  IF Elements(src) \subseteq claims
      THEN Entry(v, src, [i \in DOMAIN src |-> targetPVCName(Given[v][i], src[i])])
      ELSE Entry(v, <<>>, <<>>)

HasSources(p, v, missed) ==
  createStatusVM(v, missed).src # <<>> \/ \E old \in Existing(p, v) : old.src # <<>>

\* The entry in place of the old one: sources that differ from the recorded
\* ones are taken for a swap, and so are sources that equal the targets.
StatusVM(p, v, missed) ==
  LET new == createStatusVM(v, missed)
      Merge(old) ==
        LET a == IF new.src = <<>> THEN old ELSE new
            b == IF old.src # <<>> /\ hasVMBeenSwapped(old.src, a.src) THEN [a EXCEPT !.src = old.src] ELSE a
        IN  IF sourcesMatchTargets(b) /\ ~sourcesMatchTargets(old) THEN [b EXCEPT !.src = old.src] ELSE b
  IN  IF Existing(p, v) = {} THEN new ELSE Merge(CHOOSE old \in Existing(p, v) : TRUE)

\* A VM that does not run is migrated offline.
CanStorageMigrate(v) == vm[v].fit \/ vm[v].inst = <<>>

\* The loop over the VMs in seen; every list was reset before.
LoopOver(p, seen, st, missed) ==
  LET kept == Filtered(seen, {v \in VMs : CanStorageMigrate(v) /\ HasSources(p, v, missed)})
      entries == [i \in DOMAIN kept |-> StatusVM(p, kept[i], missed)]
      unfit == \E v \in Elements(seen) : ~CanStorageMigrate(v)
  IN  [NoStatus EXCEPT
         !.ready = IF st = "notStarted" THEN entries ELSE <<>>,
         !.inProgress = IF st = "inProgress" THEN entries ELSE <<>>,
         !.cond = IF unfit THEN SetCondition(p.cond, Condition("NotAllVirtualMachinesReady", TRUE, "Warn", <<"unfit">>))
                  ELSE p.cond]

\* validatePVCs indexes the sources of a ready entry by its targets.
Panics(p) == classes /\ \E i \in DOMAIN p.ready : p.ready[i].src = <<>>

validatePVCs(p, now) ==
  LET invalid == {e \in Elements(p.ready) : ~classes \/ (now = "notStarted" /\ \E i \in DOMAIN e.tgt : e.tgt[i] = e.src[i])}
  IN  [p EXCEPT !.ready = Filtered(p.ready, Elements(p.ready) \ invalid), !.invalid = Filtered(p.ready, invalid)]

\* getFilesystemPVCsWithoutKubeVirtContentType goes through a map: of several
\* claims any may be named first in the message.
ContentTypeChecked(p) ==
  LET offending == claims \cap Plain \cap
        UNION {Elements(e.src) : e \in Elements(p.ready \o p.inProgress \o p.completed)}
      type == "FilesystemPVCsWithoutKubeVirtContentType"
  IN  IF offending = {} THEN {[p EXCEPT !.cond = DeleteCondition(@, type)]}
      ELSE {[p EXCEPT !.cond = SetCondition(@, Condition(type, TRUE, "Warn", first))] : first \in offending}

\* The conditions at the end of validateStorageMigrationPossible.
CountsChecked(p) ==
  LET type == "NotAllVirtualMachinesReady"
      NotReady(category) == Condition(type, TRUE, category, <<"NotReady">>)
      listed == Len(p.ready) + Len(p.inProgress) + Len(p.completed)
      some == IF p.ready # <<>> /\ listed # Len(spec) THEN SetCondition(p.cond, NotReady("Warn"))
              ELSE DeleteCondition(p.cond, type)
  IN  [p EXCEPT !.cond = IF p.ready = <<>> /\ p.inProgress = <<>> THEN SetCondition(some, NotReady("Critical"))
                         ELSE some]

\* What follows the loop: a set of statuses because of the map above.
Checked(p, now) ==
  LET q == validatePVCs(p, now)
      ok == [q EXCEPT !.cond = DeleteCondition(@, "InvalidPVCs")]
  IN  IF q.invalid # <<>> THEN {[q EXCEPT !.cond = SetCondition(@, Condition("InvalidPVCs", TRUE, "Critical", <<"NotReady">>))]}
      ELSE {CountsChecked(c) : c \in ContentTypeChecked(ok)}

\* A gate counts up to 1.4; from 1.5 on they are all on.
isStorageLiveMigrationDisabled(kv) ==
  /\ ~(kv.major > 1 \/ (kv.major = 1 /\ kv.minor >= 5))
  /\ ~({"VolumesUpdateStrategy", "VolumeMigration", "VMLiveUpdateFeatures"} \subseteq kv.gates)

\* Why KubeVirt cannot migrate storage.  A version that cannot be parsed has
\* the major number 0.
KubeVirtProblem ==
  LET kv == kubevirt[1]
  IN  CASE Len(kubevirt) # 1 -> "NotInstalled"
        [] Len(kubevirt) = 1 /\ (kv.major < 1 \/ (kv.major = 1 /\ kv.minor < 3)) -> "VersionNotSupported"
        [] OTHER -> IF ~kv.liveUpdate \/ isStorageLiveMigrationDisabled(kv) THEN "NotEnabled" ELSE "none"

validateKubeVirtInstalled(p) ==
  LET cond == DeleteCondition(p.cond, "StorageMigrationNotPossible")
  IN  [p EXCEPT !.cond = IF KubeVirtProblem = "none" THEN cond
                         ELSE SetCondition(cond, Condition("StorageMigrationNotPossible", TRUE, "Critical", <<KubeVirtProblem>>))]

-----------------------------------------------------------------------------
(* Reconcile of the plan *)

readyCondition(b, why) == Condition("Ready", b, "Required", <<why>>)
progressCondition(b, why) == Condition("Progressing", b, "Required", <<why>>)

ReadySet(p) ==
  [p EXCEPT !.cond = SetCondition(@,
     IF HasCriticalCondition(@) THEN readyCondition(FALSE, "critical")
     ELSE IF p.ready # <<>> THEN readyCondition(TRUE, "ready")
     ELSE readyCondition(FALSE, "none"))]

updateReadyCompletedMigrations(p) ==
  LET all == Elements(p.ready \o p.inProgress)
      done == {e \in all : e.vm \in mig.completed}
  IN  [p EXCEPT !.completed = @ \o Filtered(p.ready, done) \o Filtered(p.inProgress, done),
                !.ready = Filtered(@, all \ done), !.inProgress = Filtered(@, all \ done)]

processMigrations(p) ==
  LET moved == updateReadyCompletedMigrations(p)
      open == SetCondition(p.cond, IF HasCondition(p.cond, "Ready") THEN progressCondition(TRUE, "found")
                                   ELSE progressCondition(FALSE, "not ready"))
      over == SetCondition(SetCondition(open, progressCondition(FALSE, "completed")), readyCondition(FALSE, "completed"))
  IN  IF mig.phase = "none" THEN [p EXCEPT !.cond = SetCondition(@, progressCondition(FALSE, "none"))]
      ELSE [moved EXCEPT !.cond = IF Len(moved.completed) = Len(spec) THEN over ELSE open]

\* The results of a validation without an error.
Validations(stored, missed, st, now) ==
  LET p == validateKubeVirtInstalled(stored)
  IN  IF HasCondition(p.cond, "StorageMigrationNotPossible") THEN {p}
      ELSE IF st = "completed" THEN {healCompletedMigrations(p)}
      ELSE Checked(LoopOver(p, spec, st, missed), now)

Succeeded(p) == [p EXCEPT !.cond = DeleteCondition(@, "ReconcileFailed")]

\* Reconcile: the statuses it may leave in place of the stored one.  One
\* that panics leaves none and is retried.
Reconciled(stored, missed, st, now) ==
  IF KubeVirtProblem = "none" /\ st # "completed" /\ Panics(LoopOver(stored, spec, st, missed)) THEN {}
  ELSE {ReadySet(Succeeded(p)) : p \in Validations(stored, missed, st, now)}

Undisturbed(stored) ==
  IF planCompletedByStatus(stored) THEN {stored}
  ELSE {processMigrations(p) : p \in Reconciled(stored, {}, MigrationStatus, MigrationStatus)}

\* Every reconcile, also one that fails to validate, ends a refresh.
Persisted ==
  /\ ~planCompletedByStatus(status)
  /\ mig' = IF mig.phase = "refresh" THEN [mig EXCEPT !.phase = "begin"] ELSE mig
  /\ UNCHANGED <<vm, claims, kubevirt, classes, task, spec>>

PlanReconcile ==
  /\ status' \in Undisturbed(status)
  /\ Persisted /\ UNCHANGED changes

Change(kind) ==
  /\ kind \in RecordEnv
  /\ changes < MaxChanges
  /\ changes' = changes + 1

\* Each List of the migrations may fail: getMigrationStatus takes that for no
\* migration, processMigrations passes it over.
PlanReconcileMisled ==
  /\ Change("listError")
  /\ \E missed \in {{}, {<<v, 1>> : v \in VMs}}, st, now \in {MigrationStatus, "notStarted"} :
       \E p \in Reconciled(status, missed, st, now) : status' \in {p, processMigrations(p)}
  /\ Persisted

\* An API call fails: in the check of KubeVirt, after k VMs of the loop, in
\* the look at the content types, or the last one, that writes the status.
PlanReconcileFails ==
  /\ Change("error")
  /\ LET p == [status EXCEPT !.cond = DeleteCondition(@, "StorageMigrationNotPossible")]
         all == LoopOver(p, spec, MigrationStatus, {})
         valid == validatePVCs(all, MigrationStatus)
         Failed(q) == processMigrations(ReadySet([q EXCEPT !.cond = SetReconcileFailed(@)]))
     IN  \/ status' \in {status, Failed(p)}
         \/ /\ KubeVirtProblem = "none" /\ MigrationStatus # "completed"
            /\ \/ \E k \in 0..Len(spec) : status' = Failed(LoopOver(p, SubSeq(spec, 1, k), MigrationStatus, {}))
               \/ /\ ~Panics(all) /\ valid.invalid = <<>>
                  /\ status' = Failed([valid EXCEPT !.cond = DeleteCondition(@, "InvalidPVCs")])
  /\ Persisted

-----------------------------------------------------------------------------
(* The migration controller, one step per VM *)

Elsewhere == UNCHANGED <<kubevirt, classes, spec, status, changes>>

CreateMigration ==
  /\ mig.phase = "none" /\ mig.n < MaxMigs
  /\ mig' = [NoMig(mig.n + 1) EXCEPT !.phase = "started"]
  /\ Elsewhere /\ UNCHANGED <<vm, claims, task>>

\* A plan with a critical condition holds up its migration, not a cancel.
Blocked == HasCriticalCondition(status.cond)

RefreshPlan ==
  /\ mig.phase = "started" /\ ~Blocked
  /\ mig' = [mig EXCEPT !.phase = "refresh"]
  /\ Elsewhere /\ UNCHANGED <<vm, claims, task>>

ReadPlan ==
  /\ task.pc = "idle"
  /\ \/ /\ mig.phase = "begin" /\ ~Blocked
        /\ task' = [IdleTask EXCEPT !.pc = "begin", !.entries = status.ready \o status.inProgress]
     \/ /\ mig.phase = "canceling"
        /\ task' = [IdleTask EXCEPT !.pc = "cancel", !.entries = status.ready \o status.inProgress, !.left = mig.running]
  /\ Elsewhere /\ UNCHANGED <<vm, claims, mig>>

\* The targets that are created before a source is found missing.
Targets(e) == {e.tgt[i] : i \in {j \in DOMAIN e.tgt : \A k \in 1..j : k \in DOMAIN e.src /\ e.src[k] \in claims}}

\* liveMigrateVM creates the targets and swaps the volumes, offlineMigrateVM
\* swaps first.
BeginVM ==
  LET e == Head(task.entries)
      v == e.vm
      ok == Targets(e) = Elements(e.tgt)
  IN  /\ task.pc = "begin" /\ task.entries # <<>>
      /\ \/ /\ ~CanStorageMigrate(v)
            /\ task' = [task EXCEPT !.entries = Tail(@)]
            /\ UNCHANGED <<vm, claims, mig>>
         \/ /\ CanStorageMigrate(v)
            /\ claims' = claims \cup Targets(e)
            /\ vm' = IF ok \/ vm[v].inst = <<>> THEN [vm EXCEPT ![v] = prepareVM(@, e)] ELSE vm
            /\ mig' = IF ok THEN [mig EXCEPT !.running = @ \cup {v}] ELSE mig
            /\ task' = IF ok THEN [task EXCEPT !.entries = Tail(@)] ELSE IdleTask
      /\ Elsewhere

BeginDone ==
  /\ task.pc = "begin" /\ task.entries = <<>>
  /\ mig' = [mig EXCEPT !.phase = "wait"]
  /\ task' = IdleTask
  /\ Elsewhere /\ UNCHANGED <<vm, claims>>

\* A live migration is over when the instance uses the targets, an offline
\* one when CDI has made the clones.
VMCompletes(v) ==
  /\ mig.phase = "wait" /\ v \in mig.running /\ ~Blocked
  /\ vm[v].inst \in {<<>>, vm[v].disk}
  /\ mig' = [mig EXCEPT !.running = @ \ {v}, !.completed = @ \cup {v}]
  /\ Elsewhere /\ UNCHANGED <<vm, claims, task>>

MigrationCompletes ==
  /\ mig.phase = "wait" /\ mig.running = {} /\ ~Blocked
  /\ mig' = [mig EXCEPT !.phase = "completed"]
  /\ Elsewhere /\ UNCHANGED <<vm, claims, task>>

\* A delete cancels, or removes a migration that is over.
DeleteMigration ==
  /\ task.pc = "idle"
  /\ \/ /\ mig.phase \in {"started", "refresh", "begin", "wait"}
        /\ mig' = [mig EXCEPT !.phase = "canceling"]
     \/ /\ mig.phase = "completed"
        /\ mig' = NoMig(mig.n)
  /\ Elsewhere /\ UNCHANGED <<vm, claims, task>>

\* The first entry of the VM; without one the cancel fails.
CancelEntry(v) ==
  LET own == {i \in DOMAIN task.entries : task.entries[i].vm = v}
  IN  IF own = {} THEN Entry(v, <<>>, <<NoName>>) ELSE task.entries[CHOOSE i \in own : \A j \in own : i <= j]

CancelVM(v) ==
  LET e == CancelEntry(v)
      offline == vm[v].inst = <<>>
      onSource == isVMOnSourceVolumes(vm[v], e)
      from == VolumeUpdateState(v)
      revert == [vm EXCEPT ![v] = prepareVM(@, revertPlanVolumes(e, from))]
      Loop(kept, reverted) == [task EXCEPT !.left = @ \ {v}, !.kept = @ \cup kept, !.reverted = @ \cup reverted]
  IN  /\ task.pc = "cancel" /\ v \in task.left
      /\ \/ ~offline /\ onSource /\ vm[v].inst = vm[v].disk /\ task' = Loop({}, {v}) /\ UNCHANGED vm
         \/ ~offline /\ onSource /\ vm[v].inst # vm[v].disk /\ task' = Loop({v}, {}) /\ UNCHANGED vm
         \/ ~offline /\ ~onSource /\ canRevert(e, from) /\ vm' = revert /\ task' = Loop({v}, {})
         \/ offline /\ canRevert(e, from) /\ vm' = revert /\ task' = Loop({}, {v})
         \/ (offline \/ ~onSource) /\ ~canRevert(e, from) /\ task' = IdleTask /\ UNCHANGED vm
      /\ Elsewhere /\ UNCHANGED <<claims, mig>>

CancelDone ==
  /\ task.pc = "cancel" /\ task.left = {}
  /\ mig' = [mig EXCEPT !.running = task.kept, !.cancelled = task.reverted,
                        !.phase = IF task.kept = {} THEN "cleanupCancelled" ELSE @]
  /\ task' = IdleTask
  /\ Elsewhere /\ UNCHANGED <<vm, claims>>

\* cleanupCancelledMigrationResources; the migration is gone after that.
CleanupCancelled ==
  /\ mig.phase = "cleanupCancelled"
  /\ claims' = claims \ UNION {Elements(e.tgt) : e \in {f \in Elements(status.ready \o status.inProgress) :
                                                           f.vm \in mig.cancelled}}
  /\ mig' = NoMig(mig.n)
  /\ Elsewhere /\ UNCHANGED <<vm, task>>

TaskFails ==
  /\ Change("error")
  /\ task.pc # "idle"
  /\ task' = IdleTask
  /\ UNCHANGED <<vm, claims, kubevirt, classes, mig, spec, status>>

-----------------------------------------------------------------------------
(* KubeVirt and the user *)

\* KubeVirt publishes the change of the volumes and moves the disks; after a
\* revert it moves them back.
KubeVirtMoves(v) ==
  /\ vm[v].inst \notin {<<>>, vm[v].disk}
  /\ \/ ~vm[v].vus /\ vm' = [vm EXCEPT ![v].vus = TRUE]
     \/ vm' = [vm EXCEPT ![v].inst = vm[v].disk, ![v].vus = FALSE]
  /\ Elsewhere /\ UNCHANGED <<claims, mig, task>>

FitnessChanges(v) ==
  /\ Change("unfit")
  /\ vm[v].inst # <<>>
  /\ vm' = [vm EXCEPT ![v].fit = ~@]
  /\ UNCHANGED <<claims, kubevirt, classes, mig, task, spec, status>>

KubeVirtChanges ==
  /\ Change("kubevirt")
  /\ kubevirt' \in Elements(KubeVirts) \ {kubevirt}
  /\ UNCHANGED <<vm, claims, classes, mig, task, spec, status>>

StorageClassChanges ==
  /\ Change("storageClass")
  /\ classes' = ~classes
  /\ UNCHANGED <<vm, claims, kubevirt, mig, task, spec, status>>

AddVM ==
  /\ Change("addVM")
  /\ Len(spec) < Len(Order)
  /\ spec' = SubSeq(Order, 1, Len(spec) + 1)
  /\ UNCHANGED <<vm, claims, kubevirt, classes, mig, task, status>>

RecordNext ==
  \/ PlanReconcile
  \/ PlanReconcileMisled
  \/ PlanReconcileFails
  \/ CreateMigration
  \/ RefreshPlan
  \/ ReadPlan
  \/ BeginVM
  \/ BeginDone
  \/ \E v \in VMs : VMCompletes(v) \/ CancelVM(v) \/ KubeVirtMoves(v) \/ FitnessChanges(v)
  \/ MigrationCompletes
  \/ DeleteMigration
  \/ CancelDone
  \/ CleanupCancelled
  \/ TaskFails
  \/ KubeVirtChanges
  \/ StorageClassChanges
  \/ AddVM

RecordSpec == RecordInit /\ [][RecordNext]_recordVars

-----------------------------------------------------------------------------
(* Properties *)

\* The target names of v, from the names its disks had at first.
TargetNames(v) == [i \in DOMAIN Disk[v] |-> targetPVCName(Given[v][i], Disk[v][i])]

(***************************************************************************)
(* A VM has all its own disks or all their targets, never some of each and *)
(* never others, and its DataVolumeTemplates name the same claims, however *)
(* the records were dropped and computed again (prepareVMForStorageMigration,*)
(* revertPlanVolumes).  A template with another name would make KubeVirt   *)
(* create an empty disk.                                                   *)
(***************************************************************************)
DisksTogether ==
  \A v \in VMs :
    /\ vm[v].disk \in {Disk[v], TargetNames(v)}
    /\ \A i \in DOMAIN vm[v].dvt : vm[v].dvt[i] \in {NoName, vm[v].disk[i]}

(***************************************************************************)
(* A target name once recorded does not change, although it is computed    *)
(* anew from the claim the VM names, which is the target itself after the  *)
(* swap: a cancel deletes, and a retry creates, the same claim.            *)
(***************************************************************************)
TargetsFixed ==
  \A e \in Elements(status.ready \o status.inProgress \o status.completed \o status.invalid \o task.entries) :
    e.src # <<>> => e.tgt = TargetNames(e.vm)

(***************************************************************************)
(* The controller settles: in an unchanged world the third reconcile in a  *)
(* row writes nothing, so that its own writes, which wake it, come to an   *)
(* end.  persistPlan writes "only when changed".                           *)
(***************************************************************************)
Settles ==
  LET Settled(Step(_), p) == \A q \in Step(p) : \A r \in Step(q) : Step(r) \subseteq {r}
  IN  Settled(Undisturbed, status)

(***************************************************************************)
(* A VM is swapped away from the very claims its entry records as sources: *)
(* the clone made of the sources is a clone of the VM's disks, and a       *)
(* cancel brings those back.  "Always compute status from current VM spec" *)
(* (validateStorageMigrationPossible).                                     *)
(***************************************************************************)
SwapsItsSources ==
  [][task.pc = "begin" => \A v \in VMs : vm'[v].disk # vm[v].disk => vm[v].disk = Head(task.entries).src]_recordVars

(***************************************************************************)
(* "The number of virtual machines that have been completed out of the     *)
(* total number of virtual machines" (CompletedOutOf): no more than all.   *)
(* The code does not keep it: healCompletedMigrations lists every VM, and  *)
(* updateReadyCompletedMigrations those in progress once more.             *)
(***************************************************************************)
CompletedOutOf == Len(status.completed) <= Len(spec)
==============================================================================
