------------------------- MODULE MigrationDataProofs -------------------------
(***************************************************************************)
(* The data of the VMs: the latest copy is never deleted, and a VM listed  *)
(* as completed has it on the target.                                      *)
(***************************************************************************)
EXTENDS MigrationLifecycleProofs

-----------------------------------------------------------------------------
(* Where the data of a VM is *)

\* The user neither deletes a migration nor stops or drains a VM, and clones do
\* not wait for a consumer.
Steady == NoDelete /\ {"stop", "evacuate", "waitForFirstConsumer"} \cap Env = {}

\* Sources may be deleted only where the plan status is known to be sound.
SourcesKnown == DeleteSource => Undisturbed

(***************************************************************************)
(* A VM with this spec, disk, running VMIM, succeeded VMIMs, state of its  *)
(* target claim and claims with its latest data.  A running VM has it on   *)
(* its disk only; a VMIM runs only towards the target and one has succeeded*)
(* only if the disk is there; a target without data is either missing, a   *)
(* clone not finished, or still unused by a VM that runs.                  *)
(***************************************************************************)
Placed(spec, disk, act, done, target, copies) ==
  /\ copies # {}
  /\ disk # "none" => copies = {disk}
  /\ disk = "tgt" => spec = "tgt"
  /\ act \in {"none", "tgt"}
  /\ act = "tgt" => disk = "src" /\ spec = "tgt"
  /\ done # {} => disk = "tgt"
  /\ target # "terminating"
  /\ target = "none" => "src" \in copies /\ (spec = "tgt" => disk = "none")
  /\ target = "pending" => disk = "none" /\ spec = "tgt" /\ "src" \in copies
  /\ disk = "none" /\ target = "bound" => "tgt" \in copies
  /\ "tgt" \in copies => target = "bound" /\ spec = "tgt"

DataPlaced(v) ==
  Placed(vm[v].spec, vm[v].disk, vmim[v].act, vmim[v].done, claim[v]["tgt"], data[v])

\* Nothing of it changes.
Still(v) ==
  /\ vm'[v].spec = vm[v].spec /\ vm'[v].disk = vm[v].disk
  /\ vmim'[v].act = vmim[v].act /\ vmim'[v].done = vmim[v].done
  /\ claim'[v]["tgt"] = claim[v]["tgt"] /\ data'[v] = data[v]

\* What a step never takes back.
Onward(v) ==
  /\ vm[v].spec = "tgt" => vm'[v].spec = "tgt"
  /\ vm[v].disk # "none" => vm'[v].disk # "none"
  /\ claim[v]["tgt"] = "bound" => claim'[v]["tgt"] = "bound"
  /\ "tgt" \in data[v] => "tgt" \in data'[v]

\* Nothing happens to the VM, or what happens keeps its data where it belongs.
Kind(v) == DataPlaced(v)' /\ Onward(v)

LEMMA StillKind ==
  ASSUME NEW v \in VMs, DataPlaced(v), Still(v)
  PROVE  Kind(v)
BY DEF Kind, DataPlaced, Still, Onward

-----------------------------------------------------------------------------
(* KubeVirt and CDI *)

\* The types of the cluster's state, for one VM.
LEMMA VMTypes ==
  ASSUME ClusterTypeOK, NEW v \in VMs
  PROVE  /\ vm[v] \in VMType /\ vm[v].spec \in {"src", "tgt"} /\ vm[v].disk \in {"src", "tgt", "none"}
         /\ vmim[v] \in VMIMType /\ claim[v]["tgt"] \in ClaimStates
         /\ data[v] \subseteq {"src", "tgt"}
BY DEF ClusterTypeOK, VMType, Claims

\* Releasing the claims of v touches no other VM, and its target if it is
\* terminating only.
LEMMA ReleaseShape ==
  ASSUME ClusterTypeOK, NEW v \in VMs, NEW d, NEW a, NEW latest, Release(v, d, a, latest)
  PROVE  /\ \A w \in VMs : w # v => claim'[w] = claim[w] /\ data'[w] = data[w]
         /\ claim[v]["tgt"] # "terminating" =>
              claim'[v]["tgt"] = claim[v]["tgt"] /\ \A c \in latest : c = d \/ c = "tgt" => c \in data'[v]
         /\ data'[v] \subseteq latest
<1>. DEFINE gone == {c \in Claims : claim[v][c] = "terminating" /\ c # d /\ c # a}
<1>1. /\ claim' = [claim EXCEPT ![v] = [c \in Claims |-> IF c \in gone THEN "none" ELSE claim[v][c]]]
      /\ data' = [data EXCEPT ![v] = latest \ gone]
  BY Zenon DEF Release
<1>2. d \notin gone /\ (claim[v]["tgt"] # "terminating" => "tgt" \notin gone)
  OBVIOUS
<1>3. "tgt" \in Claims
  BY DEF Claims
<1>. HIDE DEF gone
<1>. QED BY <1>1, <1>2, <1>3 DEF ClusterTypeOK

\* A step of the cluster moves one VM, and moves it well.
LEMMA ClusterKind ==
  ASSUME Steady, ClusterTypeOK, NEW v \in VMs, NEW existing, ClusterStep(v, existing), DataPlaced(v)
  PROVE  Kind(v) /\ \A w \in VMs : w # v => Still(w)
<1>1. /\ vm[v] \in VMType /\ vm[v].spec \in {"src", "tgt"} /\ vm[v].disk \in {"src", "tgt", "none"}
      /\ vmim[v] \in VMIMType /\ claim[v]["tgt"] \in ClaimStates /\ data[v] \subseteq {"src", "tgt"}
  BY VMTypes
<1>2. Placed(vm[v].spec, vm[v].disk, vmim[v].act, vmim[v].done, claim[v]["tgt"], data[v])
  BY DEF DataPlaced
<1>3. ~Evacuate(v, existing) /\ ~StopVM(v)
  BY DEF Steady, Evacuate, StopVM
<1>4. CASE CreateVMIM(v, existing)
  <2>1. /\ vm[v].disk # "none" /\ vm[v].spec # vm[v].disk /\ UNCHANGED <<vm, claim, data>>
        /\ vmim'[v].act = vm[v].spec /\ vmim'[v].done = vmim[v].done
        /\ \A w \in VMs : w # v => vmim'[w] = vmim[w]
    BY <1>1, <1>4 DEF CreateVMIM, VMIExists, ClusterTypeOK, VMIMType
  <2>2. vm[v].disk = "src" /\ vm[v].spec = "tgt"
    BY <1>1, <1>2, <2>1 DEF Placed
  <2>3. DataPlaced(v)'
    BY <1>2, <2>1, <2>2 DEF DataPlaced, Placed
  <2>. QED BY <2>1, <2>3 DEF Kind, Onward, Still
<1>5. CASE VMIMSucceeds(v)
  <2>1. vmim[v].act = "tgt" /\ vm[v].disk = "src" /\ vm[v].spec = "tgt" /\ data[v] = {"src"}
        /\ claim[v]["tgt"] = "bound"
    BY <1>1, <1>2, <1>5 DEF VMIMSucceeds, Placed, ClaimStates
  <2>2. /\ vm' = [vm EXCEPT ![v].disk = "tgt"]
        /\ vmim' = [vmim EXCEPT ![v] = [act |-> "none", since |-> {}, done |-> @.done \cup @.since]]
        /\ Release(v, "tgt", "none", {"tgt"})
    BY <1>5, <2>1 DEF VMIMSucceeds
  <2>3. /\ vm'[v].spec = vm[v].spec /\ vm'[v].disk = "tgt" /\ vmim'[v].act = "none"
        /\ \A w \in VMs : w # v => vm'[w] = vm[w] /\ vmim'[w] = vmim[w]
    BY <1>1, <2>2 DEF ClusterTypeOK, VMType
  <2>4. /\ claim'[v]["tgt"] = "bound" /\ data'[v] = {"tgt"}
        /\ \A w \in VMs : w # v => claim'[w] = claim[w] /\ data'[w] = data[w]
    BY <2>1, <2>2, ReleaseShape
  <2>5. DataPlaced(v)'
    BY <2>1, <2>3, <2>4 DEF DataPlaced, Placed
  <2>. QED BY <2>1, <2>3, <2>4, <2>5 DEF Kind, Onward, Still
<1>6. CASE VMIMFails(v)
  <2>1. vm[v].disk = "src" /\ vm[v].spec = "tgt" /\ data[v] = {"src"}
    BY <1>1, <1>2, <1>6 DEF VMIMFails, Placed
  <2>2. /\ UNCHANGED vm /\ vmim'[v].act = "none" /\ vmim'[v].done = vmim[v].done
        /\ \A w \in VMs : w # v => vmim'[w] = vmim[w]
    BY <1>1, <1>6 DEF VMIMFails, ClusterTypeOK, VMIMType
  <2>3. claim[v]["tgt"] # "terminating"
    BY <1>2 DEF Placed
  <2>4. /\ claim'[v]["tgt"] = claim[v]["tgt"] /\ data'[v] = data[v]
        /\ \A w \in VMs : w # v => claim'[w] = claim[w] /\ data'[w] = data[w]
    <3>1. Release(v, vm[v].disk, "none", data[v])
      BY <1>6 DEF VMIMFails
    <3>. QED BY <2>1, <2>3, <3>1, ReleaseShape
  <2>5. DataPlaced(v)'
    BY <1>2, <2>2, <2>4 DEF DataPlaced, Placed
  <2>. QED BY <2>2, <2>4, <2>5 DEF Kind, Onward, Still
<1>7. CASE StartVM(v)
  <2>. DEFINE c == vm[v].spec
  <2>1. /\ vm[v].disk = "none" /\ claim[v][c] = "bound" /\ (c = "tgt" => "tgt" \in data[v])
        /\ vm' = [vm EXCEPT ![v].disk = c] /\ UNCHANGED <<vmim, claim>>
        /\ data' = [data EXCEPT ![v] = IF c \in @ THEN {c} ELSE @]
    BY <1>7 DEF StartVM, VMIExists
  <2>2. c \in data[v]
    BY <1>1, <1>2, <2>1 DEF Placed
  <2>3. /\ vm'[v].spec = c /\ vm'[v].disk = c /\ data'[v] = {c}
        /\ \A w \in VMs : w # v => vm'[w] = vm[w] /\ data'[w] = data[w]
    BY <1>1, <2>1, <2>2 DEF ClusterTypeOK, VMType
  <2>4. DataPlaced(v)'
    BY <1>1, <1>2, <2>1, <2>3 DEF DataPlaced, Placed
  <2>5. "tgt" \in data[v] => c = "tgt"
    BY <1>2 DEF Placed
  <2>. QED BY <1>1, <2>1, <2>3, <2>4, <2>5 DEF Kind, Onward, Still
<1>8. CASE FitnessChanges(v)
  <2>1. \A w \in VMs : vm'[w].spec = vm[w].spec /\ vm'[w].disk = vm[w].disk
    BY <1>8 DEF FitnessChanges, ClusterTypeOK, VMType
  <2>2. \A w \in VMs : Still(w)
    BY <1>8, <2>1 DEF FitnessChanges, Still
  <2>. QED BY <2>2, StillKind
<1>9. CASE CloneSucceeds(v)
  <2>1. /\ claim[v]["tgt"] = "pending" /\ UNCHANGED <<vm, vmim>>
        /\ claim'[v]["tgt"] = "bound"
        /\ data' = [data EXCEPT ![v] = IF "src" \in @ /\ vm[v].disk # "src" THEN @ \cup {"tgt"} ELSE @]
        /\ \A w \in VMs : w # v => claim'[w] = claim[w]
    BY <1>9 DEF CloneSucceeds, ClusterTypeOK, Claims
  <2>2. "src" \in data[v] /\ vm[v].disk = "none" /\ vm[v].spec = "tgt"
    BY <1>2, <2>1 DEF Placed
  <2>3. data'[v] = data[v] \cup {"tgt"} /\ \A w \in VMs : w # v => data'[w] = data[w]
    BY <2>1, <2>2 DEF ClusterTypeOK
  <2>4. DataPlaced(v)'
    BY <1>2, <2>1, <2>2, <2>3 DEF DataPlaced, Placed
  <2>. QED BY <2>1, <2>3, <2>4 DEF Kind, Onward, Still
<1>. QED BY <1>3, <1>4, <1>5, <1>6, <1>7, <1>8, <1>9 DEF ClusterStep, ClusterProgress

-----------------------------------------------------------------------------
(* The migration controller *)

\* Half way through the swap of a VM its target is ready, or not used yet.
Midway ==
  /\ mw.pc = "liveMigrateVM" => claim[mw.at]["tgt"] = "bound" /\ vm[mw.at].disk # "none"
  /\ mw.pc = "offlineMigrateVM" => vm[mw.at].spec = "tgt"

\* createTargetDV makes the target if there is none.
LEMMA TargetMade ==
  ASSUME ClusterTypeOK, NEW v \in VMs, NEW state, NEW c, CreateTargetDV(v, state, c)
  PROVE  /\ claim'[v]["tgt"] = IF claim[v]["tgt"] = "none" THEN state ELSE claim[v]["tgt"]
         /\ \A w \in VMs : w # v => claim'[w] = claim[w]
<1>1. "tgt" \in Claims
  BY DEF Claims
<1>. QED BY <1>1 DEF CreateTargetDV, ClusterTypeOK

\* A patch of the VM changes its spec and leaves its instance alone.
LEMMA VolumesPatched ==
  ASSUME ClusterTypeOK, NEW v \in VMs, NEW c, NEW strategy, PatchVM(v, c, strategy)
  PROVE  /\ vm'[v].spec = c /\ vm'[v].disk = vm[v].disk
         /\ \A w \in VMs : w # v => vm'[w] = vm[w]
BY DEF PatchVM, ClusterTypeOK, VMType

\* The loop of BeginLiveMigration: a running VM is swapped to a target that is
\* there, a stopped one before its clone is made.
LEMMA SwapKind ==
  ASSUME TypeInv, RunBegin, mw'.pc \in SwapPCs, Midway, \A v \in VMs : DataPlaced(v)
  PROVE  Midway' /\ \A v \in VMs : Kind(v)
<1>1. mw \in Worker /\ ClusterTypeOK /\ \A w \in VMs : Still(w) => Kind(w)
  BY StillKind DEF TypeInv, TypeOK
<1>2. ASSUME NEW v \in VMs, BeginSkipVM(v) PROVE Midway' /\ \A w \in VMs : Kind(w)
  <2>1. UNCHANGED <<vm, vmim, claim, data>> /\ mw'.pc = "BeginLiveMigration"
    BY <1>1, <1>2 DEF BeginSkipVM, clusterVars, Worker
  <2>. QED BY <1>1, <2>1 DEF Midway, Still
<1>3. ASSUME NEW v \in VMs, LiveMigrateCreateDV(v) PROVE Midway' /\ \A w \in VMs : Kind(w)
  <2>1. /\ vm[v].disk # "none" /\ UNCHANGED <<vm, vmim, data>> /\ mw'.pc = "liveMigrateVM" /\ mw'.at = v
        /\ \E c : CreateTargetDV(v, "bound", c)
    BY <1>1, <1>3 DEF LiveMigrateCreateDV, VMIExists, Worker
  <2>2. claim'[v]["tgt"] = "bound" /\ \A w \in VMs : w # v => claim'[w] = claim[w]
    <3>1. claim[v]["tgt"] \in {"none", "bound"}
      BY <1>1, <2>1, VMTypes DEF DataPlaced, Placed, ClaimStates
    <3>. QED BY <1>1, <2>1, <3>1, TargetMade
  <2>3. DataPlaced(v)'
    BY <2>1, <2>2 DEF DataPlaced, Placed
  <2>. QED BY <1>1, <2>1, <2>2, <2>3 DEF Midway, Still, Kind, Onward
<1>4. ASSUME LiveMigrateSwap PROVE Midway' /\ \A w \in VMs : Kind(w)
  <2>1. PICK v \in VMs : v = mw.at
    BY <1>4 DEF LiveMigrateSwap, TypeInv
  <2>2. /\ claim[v]["tgt"] = "bound" /\ vm[v].disk # "none"
        /\ UNCHANGED <<vmim, claim, data>> /\ PatchVM(v, "tgt", TRUE)
        /\ mw'.pc = "BeginLiveMigration"
    BY <1>1, <1>4, <2>1 DEF LiveMigrateSwap, Swapped, Midway, Worker
  <2>3. /\ vm'[v].spec = "tgt" /\ vm'[v].disk = vm[v].disk
        /\ \A w \in VMs : w # v => vm'[w] = vm[w]
    BY <1>1, <2>2, VolumesPatched
  <2>4. DataPlaced(v)'
    BY <2>2, <2>3 DEF DataPlaced, Placed
  <2>. QED BY <1>1, <2>2, <2>3, <2>4 DEF Midway, Still, Kind, Onward
<1>5. ASSUME NEW v \in VMs, OfflineMigrateSwap(v) PROVE Midway' /\ \A w \in VMs : Kind(w)
  <2>1. /\ vm[v].disk = "none" /\ UNCHANGED <<vmim, claim, data>> /\ PatchVM(v, "tgt", FALSE)
        /\ mw'.pc = "offlineMigrateVM" /\ mw'.at = v
    BY <1>1, <1>5 DEF OfflineMigrateSwap, VMIExists, Worker
  <2>2. /\ vm'[v].spec = "tgt" /\ vm'[v].disk = "none"
        /\ \A w \in VMs : w # v => vm'[w] = vm[w]
    BY <1>1, <2>1, VolumesPatched
  <2>3. DataPlaced(v)'
    BY <2>1, <2>2 DEF DataPlaced, Placed
  <2>. QED BY <1>1, <2>1, <2>2, <2>3 DEF Midway, Still, Kind, Onward
<1>6. ASSUME OfflineMigrateCreateDV PROVE Midway' /\ \A w \in VMs : Kind(w)
  <2>1. PICK v \in VMs : v = mw.at
    BY <1>6 DEF OfflineMigrateCreateDV, TypeInv
  <2>2. /\ vm[v].spec = "tgt" /\ UNCHANGED <<vm, vmim, data>> /\ mw'.pc = "BeginLiveMigration"
        /\ \E c : CreateTargetDV(v, "pending", c)
    BY <1>1, <1>6, <2>1 DEF OfflineMigrateCreateDV, Swapped, Midway, Worker
  <2>3. /\ claim'[v]["tgt"] = IF claim[v]["tgt"] = "none" THEN "pending" ELSE claim[v]["tgt"]
        /\ \A w \in VMs : w # v => claim'[w] = claim[w]
    BY <1>1, <2>2, TargetMade
  <2>4. DataPlaced(v)'
    BY <2>2, <2>3 DEF DataPlaced, Placed
  <2>. QED BY <1>1, <2>2, <2>3, <2>4 DEF Midway, Still, Kind, Onward
<1>7. ASSUME BeginFails \/ BeginDone PROVE FALSE
  <2>1. \E o : Return(o)
    BY <1>7 DEF BeginFails, BeginDone
  <2>. QED BY <2>1 DEF Return, ToPersist, IdleWorker, SwapPCs
<1>. QED BY <1>2, <1>3, <1>4, <1>5, <1>6, <1>7 DEF RunBegin

\* What a cleanup deletes.
Deleted(D) ==
  \/ /\ mw.pc = "CleanupMigrationResources" /\ DeleteSource
     /\ D \subseteq SourcePVCs(mw.obj.completed)
  \/ mw.pc = "CleanupCancelledMigrations" /\ D \subseteq CancelledTargets

\* The end of a task deletes succeeded VMIMs and claims at most.
LEMMA EndCleans ==
  ASSUME TypeInv, MigWorkerStep, mw'.pc \notin SwapPCs \cup {"Canceling"}
  PROVE  /\ UNCHANGED vmim \/ \E vms : CleanupCompletedVMIMs(vms)
         /\ UNCHANGED <<claim, data>> \/ \E D : Deleted(D) /\ DeleteClaims(D)
<1>1. mw \in Worker
  BY DEF TypeInv, TypeOK
<1>2. CASE RunBegin
  <2>1. ASSUME NEW v \in VMs, LiveMigrateCreateDV(v) PROVE FALSE
    BY <1>1, <2>1 DEF LiveMigrateCreateDV, Worker, SwapPCs
  <2>2. ASSUME OfflineMigrateCreateDV PROVE FALSE
    BY <1>1, <2>2 DEF OfflineMigrateCreateDV, Swapped, Worker, SwapPCs
  <2>. QED BY <1>2, <2>1, <2>2 DEF RunBegin, BeginSkipVM, LiveMigrateSwap, OfflineMigrateSwap,
       BeginFails, BeginDone, clusterVars
<1>3. CASE RunCanceling
  BY <1>3 DEF RunCanceling, CancelVM, CancelFails, CancelDone, clusterVars
<1>4. CASE RunCleanup
  BY <1>4, Zenon DEF RunCleanup, Deleted
<1>5. CASE RunCleanupFails
  BY <1>5 DEF RunCleanupFails, Deleted
<1>6. CASE RunCleanupCancelled
  BY <1>6 DEF RunCleanupCancelled, Deleted
<1>7. CASE RunStarted \/ RunRefresh \/ RunWaitForRefresh \/ RunWaitForLiveMigration
           \/ RunCleanupWaits \/ PersistMeta \/ PersistStatus
  BY <1>7 DEF RunStarted, RunRefresh, RunWaitForRefresh, RunWaitForLiveMigration,
              RunCleanupWaits, PersistMeta, PersistStatus, clusterVars
<1>. QED BY <1>2, <1>3, <1>4, <1>5, <1>6, <1>7 DEF MigWorkerStep

\* It deletes no claim that has the only copy: the sources it deletes belong to
\* completed VMs, and no VM was cancelled.
LEMMA EndKind ==
  ASSUME TypeInv, MigWorkerStep, TaskEnds, mw.obj.cancelled = {},
         DeleteSource => \A v \in VMs : <<v, "tgt">> \notin mw.sourcesDone,
         \A v \in mw.obj.completed : "tgt" \in data[v], \A v \in VMs : DataPlaced(v)
  PROVE  \A v \in VMs : Kind(v)
<1>1. /\ mw \in Worker /\ ClusterTypeOK /\ UNCHANGED vm
      /\ mw'.pc \notin SwapPCs \cup {"Canceling"}
  BY EndShape DEF TypeInv, TypeOK, TaskEnds, SwapPCs
<1>2. \A v \in VMs : /\ vmim'[v].act = vmim[v].act
                     /\ vmim'[v].done # {} => vmim[v].done # {}
  <2>1. ASSUME NEW vms, CleanupCompletedVMIMs(vms), NEW v \in VMs
        PROVE  vmim'[v].act = vmim[v].act /\ (vmim'[v].done # {} => vmim[v].done # {})
    <3>1. vmim[v] \in VMIMType
      BY <1>1 DEF ClusterTypeOK
    <3>2. vmim'[v] = vmim[v] \/ vmim'[v] = [vmim[v] EXCEPT !.done = {}]
      BY <2>1 DEF CleanupCompletedVMIMs
    <3>. QED BY <3>1, <3>2 DEF VMIMType
  <2>. QED BY <1>1, <2>1, EndCleans
<1>3. ASSUME NEW v \in VMs
      PROVE  /\ claim'[v]["tgt"] = claim[v]["tgt"]
             /\ \/ data'[v] = data[v]
                \/ "tgt" \in data[v] /\ data'[v] = data[v] \ {"src"}
  <2>1. CASE UNCHANGED <<claim, data>>
    BY <2>1
  <2>2. ASSUME NEW D, Deleted(D), DeleteClaims(D)
        PROVE  /\ claim'[v]["tgt"] = claim[v]["tgt"]
               /\ \/ data'[v] = data[v]
                  \/ "tgt" \in data[v] /\ data'[v] = data[v] \ {"src"}
    <3>1. <<v, "tgt">> \notin D
      BY <2>2 DEF Deleted, SourcePVCs, CancelledTargets
    <3>2. <<v, "src">> \in D => "tgt" \in data[v]
      BY <2>2 DEF Deleted, SourcePVCs, CancelledTargets
    <3>3. data[v] \subseteq {"src", "tgt"} /\ "tgt" \in Claims
      BY <1>1, VMTypes DEF Claims
    <3>4. claim'[v]["tgt"] = claim[v]["tgt"]
      BY <2>2, <3>1, <3>3 DEF DeleteClaims
    <3>5. data'[v] = {c \in data[v] : <<v, c>> \in D => (InUse(v, c) /\ claim[v][c] # "none")}
      BY <2>2 DEF DeleteClaims
    <3>. QED BY <3>1, <3>2, <3>3, <3>4, <3>5
  <2>. QED BY <1>1, <2>1, <2>2, EndCleans
<1>4. ASSUME NEW v \in VMs PROVE DataPlaced(v)'
  <2>1. data'[v] # {} /\ (vm[v].disk # "none" => data'[v] = {vm[v].disk})
        /\ ("tgt" \in data'[v] <=> "tgt" \in data[v])
        /\ ("tgt" \notin data[v] => data'[v] = data[v])
    BY <1>3 DEF DataPlaced, Placed
  <2>. QED BY <1>1, <1>2, <1>3, <2>1 DEF DataPlaced, Placed
<1>. QED BY <1>1, <1>3, <1>4 DEF Kind, Onward

-----------------------------------------------------------------------------
(* The invariant of the data *)

DataInv ==
  /\ \A v \in VMs : DataPlaced(v)
  /\ \A m \in Migs : \A v \in mig[m].completed : "tgt" \in data[v]
  /\ \A v \in mw.obj.completed : "tgt" \in data[v]
  /\ Midway
  /\ DeleteSource => \A v \in VMs : <<v, "tgt">> \notin mw.sourcesDone

\* In an initial state every VM is on its source.
LEMMA DataInvInit == Init => DataInv
<1>. SUFFICES ASSUME Init PROVE DataInv
  OBVIOUS
<1>1. PICK on \in SUBSET VMs :
        vm = [v \in VMs |-> [spec |-> "src", strategy |-> FALSE,
                             disk |-> IF v \in on THEN "src" ELSE "none", fit |-> TRUE]]
  BY DEF Init, ClusterInit
<1>2. \A v \in VMs : vm[v].spec = "src" /\ vm[v].disk \in {"src", "none"}
  BY <1>1
<1>3. \A v \in VMs : /\ vmim[v].act = "none" /\ vmim[v].done = {} /\ claim[v]["tgt"] = "none"
                     /\ data[v] = {"src"}
  BY DEF Init, ClusterInit, Claims
<1>4. \A v \in VMs : DataPlaced(v)
  BY <1>2, <1>3 DEF DataPlaced, Placed
<1>5. mw = IdleWorker /\ \A m \in Migs : mig[m].completed = {}
  BY DEF Init, MigInit, NoMig
<1>. QED BY <1>4, <1>5, IdleCopy DEF DataInv, Midway

\* A VM that is found completed has its data on the target.
LEMMA FoundOnTarget ==
  ASSUME Steady, TypeInv, NEW v \in VMs, DataPlaced(v), TRUE \in MigrationCompleted(v)
  PROVE  "tgt" \in data[v]
<1>1. CASE VMIExists(v)
  <2>1. mw.m \in vmim[v].done
    BY <1>1 DEF MigrationCompleted, IsLiveMigrationCompleted
  <2>. QED BY <2>1 DEF DataPlaced, Placed
<1>2. CASE ~VMIExists(v)
  <2>1. IsOfflineMigrationCompleted(v)
    BY <1>2 DEF MigrationCompleted
  <2>2. claim[v]["tgt"] = "bound"
    BY <2>1 DEF IsOfflineMigrationCompleted, Steady
  <2>. QED BY <1>2, <2>2 DEF VMIExists, DataPlaced, Placed
<1>. QED BY <1>1, <1>2

\* A step that touches no VM and adds no completed one.
LEMMA DataLeft ==
  ASSUME DataInv, UNCHANGED <<vm, vmim, claim, data>>,
         \A m \in Migs : \A v \in mig'[m].completed : "tgt" \in data[v],
         \A v \in mw'.obj.completed : "tgt" \in data[v],
         mw'.pc \notin {"liveMigrateVM", "offlineMigrateVM"} \/ UNCHANGED mw,
         DeleteSource => \A v \in VMs : <<v, "tgt">> \notin mw'.sourcesDone
  PROVE  DataInv'
<1>1. Midway'
  BY DEF DataInv, Midway
<1>2. \A v \in VMs : DataPlaced(v)'
  BY DEF DataInv, DataPlaced
<1>. QED BY <1>1, <1>2 DEF DataInv

\* Every step keeps it.
LEMMA DataInvNext ==
  ASSUME Steady, SourcesKnown, TypeInv, CopyInv, NoCancelInv, Undisturbed => RecordInv,
         DataInv, [Next]_vars
  PROVE  DataInv'
<1>1. ClusterTypeOK /\ mw \in Worker /\ mw.obj \in MigObj /\ mig \in [Migs -> MigObj]
  BY DEF TypeInv, TypeOK, Worker
<1>2. mw.obj.completed \subseteq VMs /\ \A m \in Migs : mig[m].completed \subseteq VMs
  BY <1>1 DEF MigObj
<1>3. ASSUME \A v \in VMs : Kind(v), UNCHANGED mig
      PROVE  /\ \A v \in VMs : DataPlaced(v)'
             /\ \A m \in Migs : \A v \in mig'[m].completed : "tgt" \in data'[v]
             /\ \A v \in mw.obj.completed : "tgt" \in data'[v]
  BY <1>2, <1>3 DEF Kind, Onward, DataInv
<1>4. ASSUME NEW m \in Migs, Reconcile(m) PROVE DataInv'
  <2>1. UNCHANGED <<mig, plan, vm, vmim, claim, data>>
    BY <1>4, ReadShape
  <2>2. mw' = IdleWorker \/ mw'.obj.completed = mig[m].completed
    BY <1>4, ReadShape DEF SameWork
  <2>3. mw'.sourcesDone \subseteq plan.completed /\ mw'.pc \notin {"liveMigrateVM", "offlineMigrateVM"}
    BY <1>4, ReadShape, IdleCopy DEF ReadCompleted, TaskPhases, Phases
  <2>4. DeleteSource => \A v \in VMs : <<v, "tgt">> \notin plan.completed
    BY DEF SourcesKnown, RecordInv, Sound
  <2>5. \A v \in mw'.obj.completed : "tgt" \in data[v]
    BY <2>2, IdleCopy DEF DataInv
  <2>. QED BY <2>1, <2>3, <2>4, <2>5, DataLeft DEF DataInv
<1>5. CASE PersistMeta \/ PersistStatus
  <2>1. /\ UNCHANGED <<vm, vmim, claim, data>> /\ mw'.pc \notin {"liveMigrateVM", "offlineMigrateVM"}
        /\ mw' = IdleWorker \/ (mw'.obj = mw.obj /\ mw'.sourcesDone = mw.sourcesDone)
        /\ \A m \in Migs : mig'[m].completed \in {mig[m].completed, mw.obj.completed}
    BY <1>5, WriteShape
  <2>2. \A m \in Migs : \A v \in mig'[m].completed : "tgt" \in data[v]
    BY <2>1 DEF DataInv
  <2>3. /\ \A v \in mw'.obj.completed : "tgt" \in data[v]
        /\ DeleteSource => \A v \in VMs : <<v, "tgt">> \notin mw'.sourcesDone
    BY <2>1, IdleCopy DEF DataInv
  <2>. QED BY <2>1, <2>2, <2>3, DataLeft
<1>6. CASE MigWorkerStep /\ TaskEnds
  <2>1. PICK o \in MigObj : /\ EndOfTask(o)
                            /\ \/ mw' = IdleWorker
                               \/ mw'.obj = o /\ mw'.sourcesDone = {}
                            /\ mw'.pc \in {"idle", "meta", "status"}
    BY <1>6, EndShape
  <2>2. UNCHANGED mig
    BY <1>6 DEF TaskEnds
  <2>3. \A v \in VMs : Kind(v)
    BY <1>6, EndKind DEF DataInv, NoCancelInv, Uncancelled
  <2>4. ASSUME NEW v \in o.completed PROVE "tgt" \in data'[v]
    <3>1. v \in VMs
      BY <2>1 DEF MigObj
    <3>2. "tgt" \in data[v]
      BY <2>1, <3>1, FoundOnTarget DEF EndOfTask, Carries, DataInv
    <3>. QED BY <2>3, <3>1, <3>2 DEF Kind, Onward
  <2>5. \A v \in mw'.obj.completed : "tgt" \in data'[v]
    BY <2>1, <2>4, IdleCopy
  <2>6. Midway' /\ mw'.sourcesDone = {}
    BY <2>1, IdleCopy DEF Midway
  <2>. QED BY <1>3, <2>2, <2>3, <2>5, <2>6 DEF DataInv
<1>7. CASE LoopStep
  <2>1. /\ UNCHANGED mig /\ mw'.obj.completed = mw.obj.completed /\ mw'.sourcesDone = mw.sourcesDone
    BY <1>7 DEF LoopStep, LoopGoesOn
  <2>2. mw.pc # "Canceling"
    <3>1. SUFFICES ASSUME mw.pc = "Canceling" PROVE FALSE
      OBVIOUS
    <3>2. PICK v \in VMs : CancelVM(v)
      BY <1>7, <3>1 DEF LoopStep, RunBegin, BeginSkipVM, LiveMigrateCreateDV, OfflineMigrateSwap,
         LiveMigrateSwap, OfflineMigrateCreateDV, BeginFails, BeginDone, SwapPCs
    <3>3. v \in mw.obj.running /\ mw.obj.phase = "Canceling"
      BY <3>1, <3>2 DEF CancelVM, CopyInv, TaskOfPhase, TaskPhases, Phases
    <3>. QED BY <3>3 DEF NoCancelInv, Uncancelled, CancelingPhases
  <2>3. RunBegin /\ mw'.pc \in SwapPCs
    BY <1>7, <2>2 DEF LoopStep, LoopGoesOn, CancelVM
  <2>4. Midway' /\ \A v \in VMs : Kind(v)
    BY <2>3, SwapKind DEF DataInv
  <2>. QED BY <1>3, <2>1, <2>4 DEF DataInv
<1>8. ASSUME NEW v \in VMs, ClusterStep(v, Existing), UNCHANGED <<mig, mw>> PROVE DataInv'
  <2>1. \A w \in VMs : Kind(w)
    BY <1>1, <1>8, ClusterKind, StillKind DEF DataInv
  <2>2. Midway'
    <3>1. mw.pc \in {"liveMigrateVM", "offlineMigrateVM"} => mw.at \in VMs
      BY DEF TypeInv
    <3>. QED BY <1>8, <2>1, <3>1 DEF DataInv, Midway, Kind, Onward
  <2>. QED BY <1>3, <1>8, <2>1, <2>2 DEF DataInv
<1>9. CASE PlanReconcile \/ PlanWorkerStep \/ DeletePlan \/ UNCHANGED vars
  <2>1. UNCHANGED <<mig, mw, vm, vmim, claim, data>>
    BY <1>9, PlanSteps DEF DeletePlan, clusterVars, vars
  <2>. QED BY <2>1, DataLeft DEF DataInv
<1>10. ASSUME NEW m \in Migs, CreateMigration(m) \/ DeleteMigration(m) \/ CollectGarbage(m) PROVE DataInv'
  <2>1. UNCHANGED <<mw, vm, vmim, claim, data>> /\ \A n \in Migs : mig'[n].completed = mig[n].completed
    BY <1>10, OwnerShape
  <2>. QED BY <2>1, DataLeft DEF DataInv
<1>11. CASE Crash \/ Restart
  <2>1. /\ UNCHANGED <<mig, vm, vmim, claim, data>> /\ mw'.pc \in {"idle", "down"}
        /\ mw'.obj = IdleWorker.obj /\ mw'.sourcesDone = {}
    BY <1>11 DEF Crash, Restart, clusterVars, IdleWorker
  <2>. QED BY <2>1, IdleCopy, DataLeft DEF DataInv
<1>. QED BY <1>4, <1>5, <1>6, <1>7, <1>8, <1>9, <1>10, <1>11, WorkerKinds DEF Next

-----------------------------------------------------------------------------
(* The theorems *)

\* What all steps keep in a steady environment.
SteadyInv ==
  /\ TypeInv /\ CopyInv /\ PlanInv /\ NoCancelInv
  /\ Undisturbed => SwapInv
  /\ DataInv

LEMMA SteadyInvInit == Init => SteadyInv
BY TypeInvInit, CopyInvInit, PlanInvInit, NoCancelInvInit, SwapInvInit, DataInvInit DEF SteadyInv

LEMMA SteadyInvNext ==
  ASSUME Steady, SourcesKnown, SteadyInv, [Next]_vars
  PROVE  SteadyInv'
<1>1. NoDelete /\ (Undisturbed => RecordInv)
  BY DEF Steady, SteadyInv, SwapInv
<1>2. NoCancelInv' /\ DataInv'
  BY <1>1, NoCancelInvNext, DataInvNext DEF SteadyInv
<1>3. TypeInv' /\ CopyInv' /\ PlanInv'
  BY TypeInvNext, CopyInvNext, PlanInvNext DEF SteadyInv
<1>4. Undisturbed => SwapInv'
  BY SwapInvNext DEF SteadyInv
<1>. QED BY <1>2, <1>3, <1>4 DEF SteadyInv

(***************************************************************************)
(* A VM listed in CompletedMigrations has its data on the target: a        *)
(* succeeded VMIM that is not older than the migration moved the disk      *)
(* there, or the clone of a stopped VM was bound after it was swapped.     *)
(***************************************************************************)
THEOREM CompletedIsOnTarget ==
  ASSUME Steady, SourcesKnown
  PROVE  Spec => []CompletedOnTarget
<1>1. SteadyInv /\ [Next]_vars => SteadyInv'
  BY SteadyInvNext
<1>2. SteadyInv => CompletedOnTarget
  BY DEF SteadyInv, DataInv, CompletedOnTarget
<1>. QED BY <1>1, <1>2, SteadyInvInit, PTL DEF Spec

-----------------------------------------------------------------------------
(* Migrations that are deleted, with keepSource *)

(***************************************************************************)
(* The latest data of a running VM is on its disk, that of a VM which does *)
(* not run on its source.  The disk and the claim that a VMIM moves to     *)
(* exist: a target deleted under them stays, terminating.                  *)
(***************************************************************************)
HoldsData(v) ==
  /\ vm[v].disk = "none" => vmim[v].act = "none" /\ "src" \in data[v]
  /\ vm[v].disk # "none" => vm[v].disk \in data[v] /\ claim[v][vm[v].disk] # "none"
  /\ vmim[v].act \in Claims => claim[v][vmim[v].act] # "none"

\* The instance and its VMIM stay, and so does what they use.
InUseLeft(v) ==
  /\ vm'[v].disk = vm[v].disk /\ vmim'[v].act = vmim[v].act
  /\ \A c \in Claims : InUse(v, c) /\ claim[v][c] # "none" => claim'[v][c] # "none"
  /\ \A c \in data[v] : c = "src" \/ (InUse(v, c) /\ claim[v][c] # "none") => c \in data'[v]

LEMMA InUseLeftHolds ==
  ASSUME ClusterTypeOK, NEW v \in VMs, HoldsData(v), InUseLeft(v)
  PROVE  HoldsData(v)'
<1>1. vm[v].disk \in Claims \cup {"none"}
  BY VMTypes DEF Claims
<1>. QED BY <1>1 DEF HoldsData, InUseLeft, InUse

\* Releasing the claims of v keeps its disk and the data on it.
LEMMA DiskHeld ==
  ASSUME ClusterTypeOK, NEW v \in VMs, NEW d \in Claims, NEW a, NEW latest, Release(v, d, a, latest)
  PROVE  /\ \A w \in VMs : w # v => claim'[w] = claim[w] /\ data'[w] = data[w]
         /\ claim'[v][d] = claim[v][d]
         /\ d \in latest => d \in data'[v]
<1>1. PICK gone :
        /\ d \notin gone
        /\ claim' = [claim EXCEPT ![v] = [c \in Claims |-> IF c \in gone THEN "none" ELSE claim[v][c]]]
        /\ data' = [data EXCEPT ![v] = latest \ gone]
  BY Zenon DEF Release
<1>2. /\ claim'[v] = [c \in Claims |-> IF c \in gone THEN "none" ELSE claim[v][c]]
      /\ data'[v] = latest \ gone
  BY <1>1 DEF ClusterTypeOK
<1>3. \A w \in VMs : w # v => claim'[w] = claim[w] /\ data'[w] = data[w]
  BY <1>1 DEF ClusterTypeOK
<1>. QED BY <1>1, <1>2, <1>3

\* A step of the cluster, while the user stops no VM.
LEMMA ClusterHolds ==
  ASSUME "stop" \notin Env, ClusterTypeOK, NEW v \in VMs, NEW existing, ClusterStep(v, existing),
         HoldsData(v)
  PROVE  HoldsData(v)' /\ \A w \in VMs : w # v => InUseLeft(w)
<1>1. /\ vm[v] \in VMType /\ vm[v].disk \in {"src", "tgt", "none"}
      /\ vmim[v] \in VMIMType /\ data[v] \subseteq {"src", "tgt"}
      /\ HoldsData(v)
  BY VMTypes
<1>3. ~StopVM(v)
  BY DEF StopVM
<1>4. CASE CreateVMIM(v, existing) \/ Evacuate(v, existing)
  <2>1. /\ vm[v].disk # "none" /\ UNCHANGED <<vm, claim, data>>
        /\ vmim'[v].act = "evacuate" \/ (vmim'[v].act = vm[v].spec /\ claim[v][vm[v].spec] = "bound")
        /\ \A w \in VMs : w # v => vmim'[w] = vmim[w]
    <3>1. vmim \in [VMs -> VMIMType]
      BY DEF ClusterTypeOK
    <3>2. CASE CreateVMIM(v, existing)
      BY <3>1, <3>2 DEF CreateVMIM, VMIExists, VMIMType
    <3>3. CASE Evacuate(v, existing)
      BY <3>1, <3>3 DEF Evacuate, VMIExists, VMIMType
    <3>. QED BY <1>4, <3>2, <3>3
  <2>2. HoldsData(v)'
    BY <1>1, <2>1 DEF HoldsData, Claims
  <2>. QED BY <2>1, <2>2 DEF InUseLeft
<1>5. CASE VMIMSucceeds(v)
  <2>. DEFINE to == IF vmim[v].act = "evacuate" THEN vm[v].disk ELSE vmim[v].act
  <2>1. /\ vmim[v].act # "none" /\ vm' = [vm EXCEPT ![v].disk = to]
        /\ vmim' = [vmim EXCEPT ![v] = [act |-> "none", since |-> {}, done |-> @.done \cup @.since]]
        /\ Release(v, to, "none", IF vm[v].disk \in data[v] THEN {to} ELSE data[v])
    BY <1>5 DEF VMIMSucceeds
  <2>2. vm[v].disk # "none" /\ vm[v].disk \in data[v] /\ to \in Claims /\ claim[v][to] # "none"
    BY <1>1, <2>1 DEF HoldsData, VMIMType, Claims
  <2>3. Release(v, to, "none", {to})
    BY <2>1, <2>2
  <2>. HIDE DEF to
  <2>4. /\ vm'[v].disk = to /\ vmim'[v].act = "none"
        /\ \A w \in VMs : w # v => vm'[w] = vm[w] /\ vmim'[w] = vmim[w]
    BY <1>1, <2>1 DEF ClusterTypeOK, VMType
  <2>5. /\ claim'[v][to] # "none" /\ to \in data'[v]
        /\ \A w \in VMs : w # v => claim'[w] = claim[w] /\ data'[w] = data[w]
    BY <2>2, <2>3, DiskHeld
  <2>6. HoldsData(v)'
    BY <2>2, <2>4, <2>5 DEF HoldsData, Claims
  <2>. QED BY <2>4, <2>5, <2>6 DEF InUseLeft
<1>6. CASE VMIMFails(v)
  <2>1. /\ UNCHANGED vm /\ vmim[v].act # "none" /\ vmim'[v].act = "none"
        /\ \A w \in VMs : w # v => vmim'[w] = vmim[w]
        /\ Release(v, vm[v].disk, "none", data[v])
    BY <1>1, <1>6 DEF VMIMFails, ClusterTypeOK, VMIMType
  <2>2. vm[v].disk \in Claims /\ vm[v].disk \in data[v] /\ claim[v][vm[v].disk] # "none"
    BY <1>1, <2>1 DEF HoldsData, Claims
  <2>3. /\ claim'[v][vm[v].disk] # "none" /\ vm[v].disk \in data'[v]
        /\ \A w \in VMs : w # v => claim'[w] = claim[w] /\ data'[w] = data[w]
    BY <2>1, <2>2, DiskHeld
  <2>4. HoldsData(v)'
    BY <2>1, <2>2, <2>3 DEF HoldsData, Claims
  <2>. QED BY <2>1, <2>3, <2>4 DEF InUseLeft
<1>7. CASE StartVM(v)
  <2>. DEFINE c == vm[v].spec
  <2>1. /\ vm[v].disk = "none" /\ claim[v][c] = "bound" /\ (c = "tgt" => "tgt" \in data[v])
        /\ vm' = [vm EXCEPT ![v].disk = c] /\ UNCHANGED <<vmim, claim>>
        /\ data' = [data EXCEPT ![v] = IF c \in @ THEN {c} ELSE @]
    BY <1>7 DEF StartVM, VMIExists
  <2>2. c \in {"src", "tgt"} /\ c \in data[v] /\ vmim[v].act = "none"
    BY <1>1, <2>1 DEF HoldsData, VMType, Claims
  <2>3. /\ vm'[v].disk = c /\ data'[v] = {c}
        /\ \A w \in VMs : w # v => vm'[w] = vm[w] /\ data'[w] = data[w]
    BY <1>1, <2>1, <2>2 DEF ClusterTypeOK, VMType
  <2>4. HoldsData(v)'
    BY <2>1, <2>2, <2>3 DEF HoldsData, Claims
  <2>. QED BY <2>1, <2>3, <2>4 DEF InUseLeft
<1>8. CASE FitnessChanges(v) \/ CloneSucceeds(v)
  <2>1. UNCHANGED vmim /\ \A w \in VMs : vm'[w].disk = vm[w].disk /\ data[w] \subseteq data'[w]
    <3>1. vm \in [VMs -> VMType] /\ data \in [VMs -> SUBSET Claims]
      BY DEF ClusterTypeOK
    <3>2. CASE FitnessChanges(v)
      BY <3>1, <3>2 DEF FitnessChanges, VMType
    <3>3. CASE CloneSucceeds(v)
      BY <3>1, <3>3 DEF CloneSucceeds
    <3>. QED BY <1>8, <3>2, <3>3
  <2>2. \A w \in VMs : \A c \in Claims : claim[w][c] # "none" => claim'[w][c] # "none"
    BY <1>8 DEF FitnessChanges, CloneSucceeds, ClusterTypeOK, Claims
  <2>3. \A w \in VMs : InUseLeft(w)
    BY <2>1, <2>2 DEF InUseLeft
  <2>. QED BY <1>1, <2>3, InUseLeftHolds
<1>. QED BY <1>3, <1>4, <1>5, <1>6, <1>7, <1>8 DEF ClusterStep, ClusterProgress

\* The loops over the VMs patch a VM or make a target.
LEMMA LoopHolds ==
  ASSUME TypeInv, LoopStep
  PROVE  \A w \in VMs : InUseLeft(w)
<1>1. mw \in Worker /\ ClusterTypeOK
  BY DEF TypeInv, TypeOK
<1>2. ASSUME UNCHANGED <<vmim, claim, data>>, NEW v \in VMs,
             UNCHANGED vm \/ \E c, s : PatchVM(v, c, s)
      PROVE  \A w \in VMs : InUseLeft(w)
  <2>1. \A w \in VMs : vm'[w].disk = vm[w].disk
    BY <1>1, <1>2, VolumesPatched
  <2>. QED BY <1>2, <2>1 DEF InUseLeft
<1>3. ASSUME UNCHANGED <<vm, vmim, data>>, NEW v \in VMs, \E s, c : s # "none" /\ CreateTargetDV(v, s, c)
      PROVE  \A w \in VMs : InUseLeft(w)
  <2>1. /\ claim[v]["tgt"] # "none" => claim'[v]["tgt"] = claim[v]["tgt"]
        /\ claim'[v]["src"] = claim[v]["src"]
        /\ \A w \in VMs : w # v => claim'[w] = claim[w]
    <3>1. "tgt" \in Claims /\ "src" \in Claims
      BY DEF Claims
    <3>. QED BY <1>1, <1>3, <3>1 DEF CreateTargetDV, ClusterTypeOK
  <2>2. \A w \in VMs : \A c \in Claims : claim[w][c] # "none" => claim'[w][c] # "none"
    BY <2>1 DEF Claims
  <2>. QED BY <1>3, <2>2 DEF InUseLeft
<1>4. ASSUME NEW v \in VMs, CancelVM(v) PROVE \A w \in VMs : InUseLeft(w)
  BY <1>2, <1>4 DEF CancelVM
<1>5. CASE RunBegin
  <2>1. ASSUME NEW v \in VMs, BeginSkipVM(v) \/ OfflineMigrateSwap(v)
        PROVE  \A w \in VMs : InUseLeft(w)
    BY <1>2, <2>1 DEF BeginSkipVM, OfflineMigrateSwap, clusterVars
  <2>2. ASSUME NEW v \in VMs, LiveMigrateCreateDV(v) PROVE \A w \in VMs : InUseLeft(w)
    BY <1>3, <2>2 DEF LiveMigrateCreateDV
  <2>3. CASE LiveMigrateSwap
    <3>1. PICK v \in VMs : v = mw.at
      BY <2>3 DEF LiveMigrateSwap, TypeInv
    <3>. QED BY <1>2, <2>3, <3>1 DEF LiveMigrateSwap
  <2>4. CASE OfflineMigrateCreateDV
    <3>1. PICK v \in VMs : v = mw.at
      BY <2>4 DEF OfflineMigrateCreateDV, TypeInv
    <3>. QED BY <1>3, <2>4, <3>1 DEF OfflineMigrateCreateDV
  <2>5. CASE BeginFails \/ BeginDone
    BY <2>5 DEF BeginFails, BeginDone, clusterVars, InUseLeft
  <2>. QED BY <1>5, <2>1, <2>2, <2>3, <2>4, <2>5 DEF RunBegin
<1>. QED BY <1>4, <1>5 DEF LoopStep

\* The end of a task deletes no source, and no target that is in use.
LEMMA EndHolds ==
  ASSUME TypeInv, ~DeleteSource, MigWorkerStep, TaskEnds
  PROVE  \A v \in VMs : InUseLeft(v)
<1>1. /\ mw \in Worker /\ ClusterTypeOK /\ UNCHANGED vm
      /\ mw'.pc \notin SwapPCs \cup {"Canceling"}
  BY EndShape DEF TypeInv, TypeOK, TaskEnds, SwapPCs
<1>2. \A v \in VMs : vmim'[v].act = vmim[v].act
  <2>1. ASSUME NEW vms, CleanupCompletedVMIMs(vms), NEW v \in VMs
        PROVE  vmim'[v].act = vmim[v].act
    <3>1. vmim[v] \in VMIMType
      BY <1>1 DEF ClusterTypeOK
    <3>2. vmim'[v] = vmim[v] \/ vmim'[v] = [vmim[v] EXCEPT !.done = {}]
      BY <2>1 DEF CleanupCompletedVMIMs
    <3>. QED BY <3>1, <3>2 DEF VMIMType
  <2>. QED BY <1>1, <2>1, EndCleans
<1>3. ASSUME NEW v \in VMs
      PROVE  /\ \A c \in Claims : InUse(v, c) /\ claim[v][c] # "none" => claim'[v][c] # "none"
             /\ \A c \in data[v] : c = "src" \/ (InUse(v, c) /\ claim[v][c] # "none") => c \in data'[v]
  <2>1. ASSUME NEW D, Deleted(D), DeleteClaims(D)
        PROVE  /\ \A c \in Claims : InUse(v, c) /\ claim[v][c] # "none" => claim'[v][c] # "none"
               /\ \A c \in data[v] : c = "src" \/ (InUse(v, c) /\ claim[v][c] # "none") => c \in data'[v]
    <3>1. <<v, "src">> \notin D
      BY <2>1 DEF Deleted, CancelledTargets
    <3>2. \A c \in Claims : claim'[v][c] = IF <<v, c>> \notin D \/ claim[v][c] = "none" THEN claim[v][c]
                                           ELSE IF InUse(v, c) THEN "terminating" ELSE "none"
      BY <2>1 DEF DeleteClaims
    <3>3. data'[v] = {c \in data[v] : <<v, c>> \in D => (InUse(v, c) /\ claim[v][c] # "none")}
      BY <2>1 DEF DeleteClaims
    <3>. QED BY <3>1, <3>2, <3>3
  <2>. QED BY <1>1, <2>1, EndCleans
<1>. QED BY <1>1, <1>2, <1>3 DEF InUseLeft

KeptInv == TypeInv /\ CopyInv /\ \A v \in VMs : HoldsData(v)

LEMMA KeptInvInit == Init => KeptInv
<1>. SUFFICES ASSUME Init PROVE \A v \in VMs : HoldsData(v)
  BY TypeInvInit, CopyInvInit DEF KeptInv
<1>1. PICK on \in SUBSET VMs :
        vm = [v \in VMs |-> [spec |-> "src", strategy |-> FALSE,
                             disk |-> IF v \in on THEN "src" ELSE "none", fit |-> TRUE]]
  BY DEF Init, ClusterInit
<1>2. \A v \in VMs : vm[v].disk \in {"src", "none"}
  BY <1>1
<1>3. \A v \in VMs : vmim[v].act = "none" /\ claim[v]["src"] = "bound" /\ data[v] = {"src"}
  BY DEF Init, ClusterInit, Claims
<1>. QED BY <1>2, <1>3 DEF HoldsData, Claims

LEMMA KeptInvNext ==
  ASSUME ~DeleteSource, "stop" \notin Env, KeptInv, [Next]_vars
  PROVE  KeptInv'
<1>1. TypeInv /\ CopyInv /\ ClusterTypeOK /\ \A v \in VMs : HoldsData(v)
  BY DEF KeptInv, TypeInv, TypeOK
<1>2. ASSUME \A v \in VMs : InUseLeft(v) PROVE \A v \in VMs : HoldsData(v)'
  BY <1>1, <1>2, InUseLeftHolds
<1>3. ASSUME UNCHANGED <<vm, vmim, claim, data>> PROVE \A v \in VMs : HoldsData(v)'
  BY <1>2, <1>3 DEF InUseLeft
<1>4. CASE MigWorkerStep /\ UNCHANGED pw
  <2>1. CASE PersistMeta \/ PersistStatus
    BY <1>1, <1>3, <2>1, WriteShape, TypeInvNext, CopyInvNext DEF KeptInv
  <2>2. CASE TaskEnds
    BY <1>1, <1>2, <1>4, <2>2, EndHolds, TypeInvNext, CopyInvNext DEF KeptInv
  <2>3. CASE LoopStep
    BY <1>1, <1>2, <2>3, LoopHolds, TypeInvNext, CopyInvNext DEF KeptInv
  <2>. QED BY <1>1, <1>4, <2>1, <2>2, <2>3, WorkerKinds
<1>5. ASSUME NEW v \in VMs, ClusterStep(v, Existing) PROVE KeptInv'
  BY <1>1, <1>5, ClusterHolds, InUseLeftHolds, TypeInvNext, CopyInvNext DEF KeptInv
<1>6. ASSUME NEW m \in Migs,
             Reconcile(m) \/ CreateMigration(m) \/ DeleteMigration(m) \/ CollectGarbage(m)
      PROVE  KeptInv'
  BY <1>1, <1>3, <1>6, ReadShape, OwnerShape, TypeInvNext, CopyInvNext DEF KeptInv
<1>7. CASE PlanReconcile \/ PlanWorkerStep \/ DeletePlan \/ Crash \/ Restart \/ UNCHANGED vars
  <2>1. UNCHANGED <<vm, vmim, claim, data>>
    BY <1>7, PlanSteps DEF DeletePlan, Crash, Restart, clusterVars, vars
  <2>. QED BY <1>1, <1>3, <2>1, TypeInvNext, CopyInvNext DEF KeptInv
<1>. QED BY <1>4, <1>5, <1>6, <1>7 DEF Next

(***************************************************************************)
(* With keepSource the latest data of a VM is never lost while the user    *)
(* stops no VM, for every set of VMs and migrations, overlapping ones too, *)
(* and whatever else happens: a cancel whose                               *)
(* cleanupCancelledMigrationResources deletes a target meets a VM that has *)
(* it open, and the claim outlives the instance, or one whose data is on   *)
(* the source.                                                             *)
(***************************************************************************)
THEOREM KeptDataIsSafe ==
  ASSUME ~DeleteSource, "stop" \notin Env
  PROVE  Spec => []DataSafe
<1>1. KeptInv /\ [Next]_vars => KeptInv'
  BY KeptInvNext
<1>2. KeptInv => DataSafe
  BY DEF KeptInv, HoldsData, DataSafe
<1>. QED BY <1>1, <1>2, KeptInvInit, PTL DEF Spec

-----------------------------------------------------------------------------
(* Migrations that are deleted, with deleteSource *)

\* A VM that does not run has its data on each claim that is finished, the
\* source or a bound target, and has one of them.
AtRest(v) ==
  /\ vmim[v].act = "none"
  /\ claim[v]["src"] # "none" => "src" \in data[v]
  /\ claim[v]["tgt"] = "bound" => "tgt" \in data[v]
  /\ "src" \in data[v] \/ claim[v]["tgt"] = "bound"

Held(v) == IF VMIExists(v) THEN HoldsData(v) ELSE AtRest(v)

\* The VM runs, or its target has been cloned.
Cloned(v) == VMIExists(v) \/ claim[v]["tgt"] = "bound"

\* The target may be gone from here on, if the VM was cancelled.
RevertedPhases == {"CleanupCancelledMigrations", "Canceled", "Gone"}

CompletedVMs(o) == IF o.phase \in RevertedPhases THEN o.completed \ o.cancelled ELSE o.completed

SourceDropped == \E v \in VMs : claim[v]["src"] # "bound"

\* A migration after which no target is deleted.
Spent(o) ==
  /\ o.running = {} /\ o.cancelled = {}
  /\ o.phase \in {"CleanupMigrationResources", "Completed", "Canceling"} \cup RevertedPhases

(***************************************************************************)
(* A migration deletes sources only at its end, when it has no VM left to  *)
(* cancel: so whoever cancels it afterwards deletes no target.             *)
(***************************************************************************)
SpentInv ==
  /\ \A m \in Migs : mig[m].phase \notin CancelingPhases \cup {"Gone"} => mig[m].cancelled = {}
  /\ mw.pc = "CleanupMigrationResources" => mig[mw.m].cancelled = {}
  /\ SourceDropped => \A m \in Migs : Spent(mig[m])

HeldInv ==
  /\ \A v \in VMs : Held(v)
  /\ \A m \in Migs : \A v \in CompletedVMs(mig[m]) : Cloned(v)
  /\ Writing => \A v \in mw.obj.completed \ mig[mw.m].completed : Cloned(v)
  /\ \A v \in VMs : <<v, "tgt">> \notin mw.sourcesDone

\* Nothing of the VM changes.
AllStill(v) ==
  /\ vm'[v].disk = vm[v].disk /\ vmim'[v].act = vmim[v].act
  /\ claim'[v] = claim[v] /\ data'[v] = data[v]

LEMMA StillHeld ==
  ASSUME NEW v \in VMs, AllStill(v)
  PROVE  (Held(v) => Held(v)') /\ (Cloned(v) => Cloned(v)')
BY DEF AllStill, Held, Cloned, HoldsData, AtRest, VMIExists

\* A step of the cluster leaves the other VMs alone.
LEMMA OthersStill ==
  ASSUME ClusterTypeOK, NEW v \in VMs, NEW existing, ClusterStep(v, existing), NEW w \in VMs, w # v
  PROVE  AllStill(w)
<1>1. ASSUME NEW d, NEW a, NEW latest, Release(v, d, a, latest)
      PROVE  claim'[w] = claim[w] /\ data'[w] = data[w]
  BY <1>1, ReleaseShape
<1>2. vm \in [VMs -> VMType] /\ vmim \in [VMs -> VMIMType] /\ "tgt" \in Claims
      /\ claim \in [VMs -> [Claims -> ClaimStates]] /\ data \in [VMs -> SUBSET Claims]
  BY DEF ClusterTypeOK, Claims
<1>3. CASE VMIMSucceeds(v)
  BY <1>1, <1>2, <1>3 DEF VMIMSucceeds, AllStill
<1>4. CASE VMIMFails(v)
  BY <1>1, <1>2, <1>4 DEF VMIMFails, AllStill
<1>5. CASE StopVM(v)
  BY <1>1, <1>2, <1>5 DEF StopVM, AllStill
<1>6. CASE CreateVMIM(v, existing) \/ Evacuate(v, existing)
  BY <1>2, <1>6 DEF CreateVMIM, Evacuate, AllStill
<1>7. CASE StartVM(v)
  BY <1>2, <1>7 DEF StartVM, AllStill
<1>8. CASE FitnessChanges(v) \/ CloneSucceeds(v)
  BY <1>2, <1>8 DEF FitnessChanges, CloneSucceeds, AllStill
<1>. QED BY <1>3, <1>4, <1>5, <1>6, <1>7, <1>8 DEF ClusterStep, ClusterProgress

\* What the cluster does to a VM that runs, and to one that does not.
LEMMA ClusterHeld ==
  ASSUME "stop" \notin Env, ClusterTypeOK, NEW v \in VMs, NEW existing, ClusterStep(v, existing),
         Held(v)
  PROVE  /\ Held(v)' /\ (VMIExists(v) => VMIExists(v)')
         /\ claim[v]["tgt"] = "bound" => claim'[v]["tgt"] = "bound" \/ VMIExists(v)'
         /\ claim[v]["src"] = "bound" => claim'[v]["src"] = "bound"
<1>1. /\ vm[v] \in VMType /\ vm[v].disk \in {"src", "tgt", "none"} /\ vm[v].spec \in {"src", "tgt"}
      /\ vmim[v] \in VMIMType /\ data[v] \subseteq {"src", "tgt"} /\ "src" \in Claims /\ "tgt" \in Claims
      /\ ~StopVM(v)
  BY VMTypes DEF Claims, StopVM
<1>2. /\ claim[v]["tgt"] = "bound" => claim'[v]["tgt"] = "bound"
      /\ claim[v]["src"] = "bound" => claim'[v]["src"] = "bound"
  BY <1>1, ClusterClaims
<1>3. CASE VMIExists(v)
  <2>1. HoldsData(v)'
    BY <1>3, ClusterHolds DEF Held
  <2>2. vm'[v].disk # "none"
    <3>1. vm \in [VMs -> VMType]
      BY DEF ClusterTypeOK
    <3>2. CASE VMIMSucceeds(v)
      <4>1. vm'[v].disk = IF vmim[v].act = "evacuate" THEN vm[v].disk ELSE vmim[v].act
        BY <1>1, <3>1, <3>2 DEF VMIMSucceeds, VMType
      <4>2. vmim[v].act # "none"
        BY <3>2 DEF VMIMSucceeds
      <4>. QED BY <1>3, <4>1, <4>2 DEF VMIExists
    <3>3. CASE FitnessChanges(v)
      BY <1>3, <3>1, <3>3 DEF FitnessChanges, VMIExists, VMType
    <3>. QED BY <1>1, <1>3, <3>2, <3>3 DEF ClusterStep, ClusterProgress, VMIMFails, CreateVMIM, Evacuate,
         StartVM, CloneSucceeds, VMIExists
  <2>. QED BY <1>2, <2>1, <2>2 DEF Held, VMIExists
<1>4. CASE ~VMIExists(v)
  <2>1. AtRest(v)
    BY <1>4 DEF Held
  <2>2. StartVM(v) \/ FitnessChanges(v) \/ CloneSucceeds(v)
    BY <1>1, <1>4, <2>1 DEF ClusterStep, ClusterProgress, AtRest, CreateVMIM, Evacuate, VMIMSucceeds, VMIMFails
  <2>3. CASE StartVM(v)
    <3>. DEFINE c == vm[v].spec
    <3>1. /\ claim[v][c] = "bound" /\ UNCHANGED <<vmim, claim>>
          /\ vm' = [vm EXCEPT ![v].disk = c]
          /\ data' = [data EXCEPT ![v] = IF c \in @ THEN {c} ELSE @]
      BY <2>3 DEF StartVM
    <3>2. c \in data[v] /\ c \in {"src", "tgt"}
      BY <1>1, <2>1, <3>1 DEF AtRest
    <3>. HIDE DEF c
    <3>3. vm'[v].disk = c /\ data'[v] = {c}
      BY <1>1, <3>1, <3>2 DEF ClusterTypeOK, VMType
    <3>4. HoldsData(v)' /\ VMIExists(v)'
      BY <2>1, <3>1, <3>2, <3>3 DEF HoldsData, VMIExists, AtRest, Claims
    <3>. QED BY <1>2, <3>4 DEF Held
  <2>4. CASE FitnessChanges(v)
    <3>1. vm'[v].disk = vm[v].disk /\ UNCHANGED <<vmim, claim, data>>
      BY <1>1, <2>4 DEF FitnessChanges, ClusterTypeOK, VMType
    <3>. QED BY <1>2, <1>4, <2>1, <3>1 DEF Held, AtRest, VMIExists
  <2>5. CASE CloneSucceeds(v)
    <3>1. claim[v]["tgt"] = "pending" /\ "src" \in data[v] /\ vm[v].disk = "none"
      BY <1>4, <2>1, <2>5 DEF CloneSucceeds, AtRest, VMIExists
    <3>2. UNCHANGED <<vm, vmim>> /\ data'[v] = data[v] \cup {"tgt"} /\ claim'[v]["src"] = claim[v]["src"]
      BY <1>1, <2>5, <3>1 DEF CloneSucceeds, ClusterTypeOK
    <3>3. AtRest(v)' /\ ~VMIExists(v)'
      BY <1>4, <2>1, <3>1, <3>2 DEF AtRest, VMIExists
    <3>. QED BY <1>2, <1>4, <3>3 DEF Held
  <2>. QED BY <2>2, <2>3, <2>4, <2>5
<1>. QED BY <1>3, <1>4

\* The loops make a target for a VM that runs, or a clone, and delete nothing.
LEMMA LoopClaims ==
  ASSUME TypeInv, LoopStep, NEW w \in VMs
  PROVE  /\ UNCHANGED <<vmim, data>> /\ claim'[w]["src"] = claim[w]["src"]
         /\ \/ claim'[w]["tgt"] = claim[w]["tgt"]
            \/ claim[w]["tgt"] = "none" /\ (VMIExists(w) \/ claim'[w]["tgt"] # "bound")
<1>1. /\ mw \in Worker /\ "src" \in Claims /\ "tgt" \in Claims
      /\ claim \in [VMs -> [Claims -> ClaimStates]]
  BY DEF TypeInv, TypeOK, ClusterTypeOK, Claims
<1>2. ASSUME UNCHANGED <<vmim, data>>, NEW v \in VMs, NEW s, NEW c, CreateTargetDV(v, s, c),
             VMIExists(v) \/ s # "bound"
      PROVE  /\ UNCHANGED <<vmim, data>> /\ claim'[w]["src"] = claim[w]["src"]
             /\ \/ claim'[w]["tgt"] = claim[w]["tgt"]
                \/ claim[w]["tgt"] = "none" /\ (VMIExists(w) \/ claim'[w]["tgt"] # "bound")
  <2>1. claim' = [claim EXCEPT ![v]["tgt"] = IF @ = "none" THEN s ELSE @]
    BY <1>2 DEF CreateTargetDV
  <2>. QED BY <1>1, <1>2, <2>1
<1>3. ASSUME NEW v \in VMs, CancelVM(v) PROVE UNCHANGED <<vmim, claim, data>>
  BY <1>3 DEF CancelVM
<1>4. ASSUME NEW v \in VMs, LiveMigrateCreateDV(v)
      PROVE  VMIExists(v) /\ UNCHANGED <<vmim, data>> /\ \E c : CreateTargetDV(v, "bound", c)
  BY <1>4 DEF LiveMigrateCreateDV
<1>5. ASSUME OfflineMigrateCreateDV
      PROVE  mw.at \in VMs /\ UNCHANGED <<vmim, data>> /\ \E c : CreateTargetDV(mw.at, "pending", c)
  BY <1>5 DEF OfflineMigrateCreateDV, TypeInv
<1>6. ASSUME \/ \E v \in VMs : BeginSkipVM(v) \/ OfflineMigrateSwap(v)
             \/ LiveMigrateSwap \/ BeginFails \/ BeginDone
      PROVE  UNCHANGED <<vmim, claim, data>>
  BY <1>6 DEF BeginSkipVM, OfflineMigrateSwap, LiveMigrateSwap, BeginFails, BeginDone, clusterVars
<1>. QED BY <1>2, <1>3, <1>4, <1>5, <1>6 DEF LoopStep, RunBegin

LEMMA LoopHeld ==
  ASSUME TypeInv, LoopStep, NEW w \in VMs, Held(w)
  PROVE  Held(w)' /\ (Cloned(w) => Cloned(w)') /\ claim'[w]["src"] = claim[w]["src"]
<1>1. InUseLeft(w) /\ ClusterTypeOK
  BY LoopHolds DEF TypeInv, TypeOK
<1>2. /\ UNCHANGED <<vmim, data>> /\ claim'[w]["src"] = claim[w]["src"]
      /\ \/ claim'[w]["tgt"] = claim[w]["tgt"]
         \/ claim[w]["tgt"] = "none" /\ (VMIExists(w) \/ claim'[w]["tgt"] # "bound")
  BY LoopClaims
<1>3. VMIExists(w)' <=> VMIExists(w)
  BY <1>1 DEF InUseLeft, VMIExists
<1>4. CASE VMIExists(w)
  <2>1. HoldsData(w)'
    BY <1>1, <1>4, InUseLeftHolds DEF Held
  <2>. QED BY <1>2, <1>3, <1>4, <2>1 DEF Held, Cloned
<1>5. CASE ~VMIExists(w)
  <2>1. AtRest(w)'
    BY <1>2, <1>5 DEF Held, AtRest
  <2>. QED BY <1>2, <1>3, <1>5, <2>1 DEF Held, Cloned
<1>. QED BY <1>4, <1>5

\* The migration a task works on, where it may delete claims.
LEMMA DeletingTask ==
  ASSUME TypeInv, CopyInv, FinalizerInv, LifecycleInv
  PROVE  /\ mw.pc = "CleanupMigrationResources" =>
              /\ mw.m \in Migs /\ mw.obj.completed = mig[mw.m].completed /\ mig[mw.m].running = {}
              /\ mig[mw.m].phase \in {"CleanupMigrationResources", "Gone"}
         /\ mw.pc = "CleanupCancelledMigrations" =>
              /\ mw.m \in Migs /\ mw.obj.cancelled = mig[mw.m].cancelled
              /\ mig[mw.m].phase = "CleanupCancelledMigrations"
<1>1. ASSUME mw.pc = "CleanupMigrationResources"
      PROVE  /\ mw.m \in Migs /\ mw.obj.completed = mig[mw.m].completed /\ mig[mw.m].running = {}
             /\ mig[mw.m].phase \in {"CleanupMigrationResources", "Gone"}
  <2>1. Busy /\ mw.pc \in OwnPhasePCs /\ mw.obj.phase = mw.pc /\ mw.pc \notin SwapPCs
    BY <1>1 DEF Busy, OwnPhasePCs, TaskPhases, Phases, SwapPCs, CopyInv, TaskOfPhase
  <2>2. mw.obj.running = {}
    BY <1>1, <2>1 DEF CopyInv, RunningInPhase, RunningPhases
  <2>. QED BY <1>1, <2>1, <2>2 DEF TypeInv, LifecycleInv, TaskInv, FinalizerInv
<1>2. ASSUME mw.pc = "CleanupCancelledMigrations"
      PROVE  /\ mw.m \in Migs /\ mw.obj.cancelled = mig[mw.m].cancelled
             /\ mig[mw.m].phase = "CleanupCancelledMigrations"
  <2>1. Busy
    BY <1>2 DEF Busy, TaskPhases, Phases
  <2>. QED BY <1>2, <2>1 DEF TypeInv, LifecycleInv, TaskInv
<1>. QED BY <1>1, <1>2

\* The end of a task: sources go when their VMs are cloned, targets while the
\* sources are there.
LEMMA EndHeld ==
  ASSUME TypeInv, CopyInv, FinalizerInv, LifecycleInv, SpentInv, HeldInv, MigWorkerStep, TaskEnds,
         NEW v \in VMs
  PROVE  /\ Held(v)'
         /\ Cloned(v) =>
              \/ Cloned(v)'
              \/ v \in mig[mw.m].cancelled /\ mw.m \in Migs /\ mig[mw.m].phase = "CleanupCancelledMigrations"
         /\ \/ claim'[v]["src"] = claim[v]["src"]
            \/ /\ mw.pc = "CleanupMigrationResources" /\ mw.m \in Migs
               /\ Spent(mig[mw.m])
<1>1. /\ mw \in Worker /\ ClusterTypeOK /\ UNCHANGED vm
      /\ mw'.pc \notin SwapPCs \cup {"Canceling"}
      /\ "src" \in Claims /\ "tgt" \in Claims /\ Held(v)
  BY EndShape DEF TypeInv, TypeOK, TaskEnds, SwapPCs, Claims, HeldInv
<1>2. vmim'[v].act = vmim[v].act
  <2>1. ASSUME NEW vms, CleanupCompletedVMIMs(vms)
        PROVE  vmim'[v].act = vmim[v].act
    <3>1. vmim[v] \in VMIMType
      BY <1>1 DEF ClusterTypeOK
    <3>2. vmim'[v] = vmim[v] \/ vmim'[v] = [vmim[v] EXCEPT !.done = {}]
      BY <2>1 DEF CleanupCompletedVMIMs
    <3>. QED BY <3>1, <3>2 DEF VMIMType
  <2>. QED BY <1>1, <2>1, EndCleans
<1>3. CASE UNCHANGED <<claim, data>>
  BY <1>1, <1>2, <1>3, StillHeld DEF AllStill
<1>4. ASSUME NEW D, Deleted(D), DeleteClaims(D)
      PROVE  /\ Held(v)'
             /\ Cloned(v) =>
                  \/ Cloned(v)'
                  \/ v \in mig[mw.m].cancelled /\ mw.m \in Migs /\ mig[mw.m].phase = "CleanupCancelledMigrations"
             /\ \/ claim'[v]["src"] = claim[v]["src"]
                \/ /\ mw.pc = "CleanupMigrationResources" /\ mw.m \in Migs
                   /\ Spent(mig[mw.m])
  <2>1. \A c \in Claims : claim'[v][c] = IF <<v, c>> \notin D \/ claim[v][c] = "none" THEN claim[v][c]
                                         ELSE IF InUse(v, c) THEN "terminating" ELSE "none"
    BY <1>4 DEF DeleteClaims
  <2>2. data'[v] = {c \in data[v] : <<v, c>> \in D => (InUse(v, c) /\ claim[v][c] # "none")}
    BY <1>4 DEF DeleteClaims
  <2>3. <<v, "src">> \in D => /\ mw.pc = "CleanupMigrationResources" /\ v \in mw.obj.completed
    BY <1>4 DEF Deleted, SourcePVCs, CancelledTargets
  <2>4. <<v, "tgt">> \in D => /\ mw.pc = "CleanupCancelledMigrations" /\ v \in mw.obj.cancelled
    BY <1>4 DEF Deleted, SourcePVCs, CancelledTargets, HeldInv
  <2>5. <<v, "src">> \in D =>
          /\ mw.m \in Migs /\ Spent(mig[mw.m]) /\ mw.pc = "CleanupMigrationResources"
          /\ Cloned(v)
    <3>1. SUFFICES ASSUME <<v, "src">> \in D
                   PROVE  mw.m \in Migs /\ Spent(mig[mw.m]) /\ mw.pc = "CleanupMigrationResources" /\ Cloned(v)
      OBVIOUS
    <3>2. /\ mw.pc = "CleanupMigrationResources" /\ mw.m \in Migs /\ v \in mig[mw.m].completed
          /\ mig[mw.m].running = {} /\ mig[mw.m].phase \in {"CleanupMigrationResources", "Gone"}
      BY <2>3, <3>1, DeletingTask
    <3>3. mig[mw.m].cancelled = {}
      BY <3>2 DEF SpentInv
    <3>4. v \in CompletedVMs(mig[mw.m])
      BY <3>2, <3>3 DEF CompletedVMs
    <3>. QED BY <3>2, <3>3, <3>4 DEF Spent, RevertedPhases, HeldInv
  <2>6. <<v, "tgt">> \in D =>
          /\ mw.m \in Migs /\ v \in mig[mw.m].cancelled /\ mig[mw.m].phase = "CleanupCancelledMigrations"
          /\ claim[v]["src"] = "bound" /\ <<v, "src">> \notin D
    <3>1. SUFFICES ASSUME <<v, "tgt">> \in D
                   PROVE  /\ mw.m \in Migs /\ v \in mig[mw.m].cancelled
                          /\ mig[mw.m].phase = "CleanupCancelledMigrations"
                          /\ claim[v]["src"] = "bound" /\ <<v, "src">> \notin D
      OBVIOUS
    <3>2. /\ mw.pc = "CleanupCancelledMigrations" /\ mw.m \in Migs /\ v \in mig[mw.m].cancelled
          /\ mig[mw.m].phase = "CleanupCancelledMigrations"
      BY <2>4, <3>1, DeletingTask
    <3>3. ~SourceDropped
      BY <3>2 DEF SpentInv, Spent
    <3>. QED BY <2>3, <3>2, <3>3 DEF SourceDropped
  <2>7. VMIExists(v)' <=> VMIExists(v)
    BY <1>1 DEF VMIExists
  <2>8. CASE VMIExists(v)
    <3>1. vm[v].disk \in {"src", "tgt"}
      BY <1>1, <2>8, VMTypes DEF VMIExists
    <3>2. HoldsData(v)'
      BY <1>1, <1>2, <2>1, <2>2, <2>8, <3>1 DEF Held, HoldsData, InUse, VMIExists, Claims
    <3>3. Held(v)' /\ Cloned(v)'
      BY <2>7, <2>8, <3>2 DEF Held, Cloned
    <3>. QED BY <1>1, <2>1, <2>5, <3>3
  <2>9. CASE ~VMIExists(v)
    <3>1. AtRest(v) /\ ~InUse(v, "src") /\ ~InUse(v, "tgt")
      BY <1>1, <2>9 DEF Held, AtRest, InUse, VMIExists
    <3>2. AtRest(v)'
      <4>1. CASE <<v, "tgt">> \in D
        BY <1>1, <1>2, <2>1, <2>2, <2>6, <3>1, <4>1 DEF AtRest
      <4>2. CASE <<v, "tgt">> \notin D /\ <<v, "src">> \in D
        <5>1. claim[v]["tgt"] = "bound" /\ "tgt" \in data[v]
          BY <2>5, <2>9, <3>1, <4>2 DEF Cloned, AtRest
        <5>. QED BY <1>1, <1>2, <2>1, <2>2, <3>1, <4>2, <5>1 DEF AtRest
      <4>3. CASE <<v, "tgt">> \notin D /\ <<v, "src">> \notin D
        BY <1>1, <1>2, <2>1, <2>2, <3>1, <4>3 DEF AtRest
      <4>. QED BY <4>1, <4>2, <4>3
    <3>3. Held(v)'
      BY <2>7, <2>9, <3>2 DEF Held
    <3>4. <<v, "tgt">> \notin D => claim'[v]["tgt"] = claim[v]["tgt"]
      BY <1>1, <2>1
    <3>. QED BY <1>1, <2>1, <2>5, <2>6, <2>9, <3>3, <3>4 DEF Cloned
  <2>. QED BY <2>8, <2>9
<1>. QED BY <1>1, <1>3, <1>4, EndCleans

\* A status that is written: what was true of the lists stays true.
LEMMA FollowsSpent ==
  ASSUME NEW x \in MigObj, NEW o \in MigObj, NEW on, Follows(on, x, o),
         x.phase \notin CancelingPhases \cup {"Gone"} => x.cancelled = {}
  PROVE  /\ o.phase \notin CancelingPhases \cup {"Gone"} => o.cancelled = {}
         /\ Spent(x) => Spent(o)
         /\ CompletedVMs(o) \subseteq CompletedVMs(x) \cup (o.completed \ x.completed)
<1>1. CASE SameStatus(x, o) /\ o.phase = x.phase
  BY <1>1 DEF SameStatus, Spent, CompletedVMs
<1>2. CASE Refreshes(x, o)
  <2>1. x.phase \notin {"CleanupMigrationResources", "Completed", "Canceling"} \cup RevertedPhases
    <3>1. Stage(x.phase) = "waiting"
      BY <1>2 DEF Refreshes
    <3>. QED BY <3>1 DEF Stage, RevertedPhases
  <2>2. x.phase \notin CancelingPhases \cup {"Gone"}
    BY <2>1 DEF CancelingPhases, CancelPhases, RevertedPhases
  <2>. QED BY <1>2, <2>1, <2>2 DEF Refreshes, SameStatus, Spent, CompletedVMs
<1>3. CASE Swaps(on, x, o)
  BY <1>3 DEF Swaps, Spent, CompletedVMs, RevertedPhases, CancelingPhases, CancelPhases
<1>4. CASE Advances(x, o)
  BY <1>4 DEF Advances, Spent, CompletedVMs, RevertedPhases, CancelingPhases, CancelPhases
<1>5. CASE Ends(x, o)
  BY <1>5 DEF Ends, SameStatus, Spent, CompletedVMs, RevertedPhases, CancelingPhases, CancelPhases
<1>6. CASE Cancels(on, x, o)
  <2>1. o.phase \in {"CleanupCancelledMigrations", "Canceling"} /\ o.completed = x.completed
        /\ x.phase \notin RevertedPhases
    BY <1>6 DEF Cancels, Cancellable, SameStatus, RevertedPhases
  <2>2. x.running = {} /\ x.cancelled = {} => o.running = {} /\ o.cancelled = {}
    BY <1>6 DEF Cancels, SameStatus
  <2>. QED BY <2>1, <2>2 DEF Spent, CompletedVMs, RevertedPhases, CancelingPhases, CancelPhases
<1>. QED BY <1>1, <1>2, <1>3, <1>4, <1>5, <1>6 DEF Follows

DroppedInv == SpentInv /\ HeldInv

\* A step that touches no VM.
LEMMA DroppedLeft ==
  ASSUME DroppedInv, UNCHANGED <<vm, vmim, claim, data>>,
         \A m \in Migs :
           /\ mig'[m].phase \notin CancelingPhases \cup {"Gone"} => mig'[m].cancelled = {}
           /\ Spent(mig[m]) => Spent(mig'[m])
           /\ \A v \in CompletedVMs(mig'[m]) : Cloned(v),
         mw'.pc = "CleanupMigrationResources" => mig'[mw'.m].cancelled = {},
         Writing' => \A v \in mw'.obj.completed \ mig'[mw'.m].completed : Cloned(v),
         \A v \in VMs : <<v, "tgt">> \notin mw'.sourcesDone
  PROVE  DroppedInv'
<1>1. SpentInv'
  BY DEF DroppedInv, SpentInv, SourceDropped, Spent
<1>2. /\ \A v : Cloned(v) => Cloned(v)'
      /\ \A v \in VMs : Held(v)'
  BY DEF DroppedInv, HeldInv, Cloned, VMIExists, Held, HoldsData, AtRest
<1>3. \A m \in Migs : CompletedVMs(mig[m])' = CompletedVMs(mig'[m])
  BY DEF CompletedVMs
<1>4. HeldInv'
  BY <1>2, <1>3 DEF HeldInv
<1>. QED BY <1>1, <1>4 DEF DroppedInv

LEMMA DroppedInvInit == Init => DroppedInv
<1>. SUFFICES ASSUME Init PROVE DroppedInv
  OBVIOUS
<1>1. PICK on \in SUBSET VMs :
        vm = [v \in VMs |-> [spec |-> "src", strategy |-> FALSE,
                             disk |-> IF v \in on THEN "src" ELSE "none", fit |-> TRUE]]
  BY DEF Init, ClusterInit
<1>2. \A v \in VMs : vm[v].disk \in {"src", "none"}
  BY <1>1
<1>3. \A v \in VMs : /\ vmim[v].act = "none" /\ claim[v]["src"] = "bound" /\ claim[v]["tgt"] = "none"
                     /\ data[v] = {"src"}
  BY DEF Init, ClusterInit, Claims
<1>4. /\ mw.pc = "idle" /\ mw.sourcesDone = {}
      /\ \A m \in Migs : mig[m].completed = {} /\ mig[m].cancelled = {}
  BY DEF Init, MigInit, IdleWorker, NoMig
<1>5. SpentInv
  BY <1>3, <1>4 DEF SpentInv, SourceDropped
<1>6. \A v \in VMs : Held(v)
  BY <1>2, <1>3 DEF Held, HoldsData, AtRest, VMIExists, Claims
<1>. QED BY <1>4, <1>5, <1>6 DEF DroppedInv, HeldInv, Writing, CompletedVMs

\* The writes of a migration.
LEMMA WriteDropped ==
  ASSUME TypeInv, LifecycleInv, DroppedInv, PersistMeta \/ PersistStatus
  PROVE  DroppedInv'
<1>1. /\ UNCHANGED <<stale, vm, vmim, claim, data>> /\ mw.pc \in {"meta", "status"} /\ mw.m \in Migs
      /\ mw'.pc \in {"idle", "status"} /\ mw'.sourcesDone \subseteq mw.sourcesDone
      /\ mw'.pc = "status" => mw'.obj = mw.obj /\ mw'.m = mw.m
      /\ \A m \in Migs : m # mw.m => mig'[m] = mig[m]
      /\ \/ mw.m \in stale /\ mig'[mw.m] = mig[mw.m]
         \/ mw.m \notin stale /\ mig'[mw.m] = mw.obj /\ mw'.pc = "idle"
         \/ /\ mw.m \notin stale
            /\ SameStatus(mig[mw.m], mig'[mw.m]) /\ mig'[mw.m].phase \in {mig[mw.m].phase, "Gone"}
  BY WriteShape, IdleCopy DEF SameStatus
<1>2. /\ mig[mw.m] \in MigObj /\ mw.obj \in MigObj
      /\ mig[mw.m].phase \notin CancelingPhases \cup {"Gone"} => mig[mw.m].cancelled = {}
      /\ \A v \in CompletedVMs(mig[mw.m]) : Cloned(v)
  BY <1>1 DEF TypeInv, TypeOK, Worker, DroppedInv, SpentInv, HeldInv
<1>3. mw.m \notin stale =>
        /\ Follows(OnTarget, mig[mw.m], mw.obj)
        /\ \A v \in mw.obj.completed \ mig[mw.m].completed : Cloned(v)
  BY <1>1 DEF LifecycleInv, WriteInv, Writing, DroppedInv, HeldInv
<1>4. /\ mig'[mw.m].phase \notin CancelingPhases \cup {"Gone"} => mig'[mw.m].cancelled = {}
      /\ Spent(mig[mw.m]) => Spent(mig'[mw.m])
      /\ \A v \in CompletedVMs(mig'[mw.m]) : Cloned(v)
  <2>1. CASE mig'[mw.m] = mig[mw.m]
    BY <1>2, <2>1
  <2>2. CASE mw.m \notin stale /\ mig'[mw.m] = mw.obj
    <3>1. /\ mw.obj.phase \notin CancelingPhases \cup {"Gone"} => mw.obj.cancelled = {}
          /\ Spent(mig[mw.m]) => Spent(mw.obj)
          /\ CompletedVMs(mw.obj) \subseteq
               CompletedVMs(mig[mw.m]) \cup (mw.obj.completed \ mig[mw.m].completed)
      BY <1>2, <1>3, <2>2, FollowsSpent
    <3>. QED BY <1>2, <1>3, <2>2, <3>1
  <2>3. CASE SameStatus(mig[mw.m], mig'[mw.m]) /\ mig'[mw.m].phase \in {mig[mw.m].phase, "Gone"}
    <3>1. CompletedVMs(mig'[mw.m]) \subseteq CompletedVMs(mig[mw.m])
      BY <2>3 DEF CompletedVMs, SameStatus, RevertedPhases
    <3>. QED BY <1>2, <2>3, <3>1 DEF SameStatus, Spent, RevertedPhases
  <2>. QED BY <1>1, <2>1, <2>2, <2>3
<1>5. \A m \in Migs :
        /\ mig'[m].phase \notin CancelingPhases \cup {"Gone"} => mig'[m].cancelled = {}
        /\ Spent(mig[m]) => Spent(mig'[m])
        /\ \A v \in CompletedVMs(mig'[m]) : Cloned(v)
  BY <1>1, <1>4 DEF DroppedInv, SpentInv, HeldInv
<1>6. Writing' => \A v \in mw'.obj.completed \ mig'[mw'.m].completed : Cloned(v)
  <2>1. SUFFICES ASSUME Writing' PROVE \A v \in mw'.obj.completed \ mig'[mw'.m].completed : Cloned(v)
    OBVIOUS
  <2>2. mw'.pc = "status" /\ mw'.obj = mw.obj /\ mw'.m = mw.m /\ mw.m \notin stale
    BY <1>1, <2>1 DEF Writing
  <2>3. mig'[mw.m].completed = mig[mw.m].completed
    BY <1>1, <2>2 DEF SameStatus
  <2>. QED BY <1>3, <2>2, <2>3
<1>7. \A v \in VMs : <<v, "tgt">> \notin mw'.sourcesDone
  BY <1>1 DEF DroppedInv, HeldInv
<1>. QED BY <1>1, <1>5, <1>6, <1>7, DroppedLeft

\* A reconcile reads the migration and the plan.
LEMMA ReadDropped ==
  ASSUME TypeInv, RecordInv, DroppedInv, NEW m \in Migs, Reconcile(m)
  PROVE  DroppedInv'
<1>1. UNCHANGED <<mig, plan, vm, vmim, claim, data>>
  BY ReadShape
<1>2. \/ mw'.pc = "idle"
      \/ mw'.m = m /\ mw'.obj.completed = mig[m].completed
  BY ReadShape DEF SameWork
<1>3. mw'.pc = "CleanupMigrationResources" => mw'.m = m /\ mig[m].phase = "CleanupMigrationResources"
  BY ReadShape DEF Detour, TaskPhases, Phases
<1>4. mw'.sourcesDone \subseteq plan.completed
  BY ReadShape, IdleCopy DEF ReadCompleted
<1>5. \A v \in VMs : <<v, "tgt">> \notin mw'.sourcesDone
  BY <1>4 DEF RecordInv, Sound
<1>6. mw'.pc = "CleanupMigrationResources" => mig'[mw'.m].cancelled = {}
  BY <1>1, <1>3 DEF DroppedInv, SpentInv, CancelingPhases, CancelPhases
<1>7. Writing' => \A v \in mw'.obj.completed \ mig'[mw'.m].completed : Cloned(v)
  BY <1>1, <1>2 DEF Writing
<1>8. \A n \in Migs :
        /\ mig'[n].phase \notin CancelingPhases \cup {"Gone"} => mig'[n].cancelled = {}
        /\ Spent(mig[n]) => Spent(mig'[n])
        /\ \A v \in CompletedVMs(mig'[n]) : Cloned(v)
  BY <1>1 DEF DroppedInv, SpentInv, HeldInv
<1>. QED BY <1>1, <1>5, <1>6, <1>7, <1>8, DroppedLeft

\* The user and the garbage collector.
LEMMA OwnerDropped ==
  ASSUME TypeInv, DroppedInv, NEW m \in Migs,
         CreateMigration(m) \/ DeleteMigration(m) \/ CollectGarbage(m)
  PROVE  DroppedInv'
<1>1. /\ UNCHANGED <<mw, vm, vmim, claim, data>> /\ stale \subseteq stale'
      /\ \A n \in Migs : SameStatus(mig[n], mig'[n])
      /\ \A n \in Migs : \/ mig'[n].phase \in {mig[n].phase, "Gone"}
                         \/ mig[n].phase = "Absent" /\ mig'[n].phase = ""
  BY OwnerShape DEF SameStatus
<1>2. ASSUME NEW n \in Migs
      PROVE  /\ mig'[n].phase \notin CancelingPhases \cup {"Gone"} => mig'[n].cancelled = {}
             /\ Spent(mig[n]) => Spent(mig'[n])
             /\ \A v \in CompletedVMs(mig'[n]) : Cloned(v)
  <2>1. /\ mig[n].phase \notin CancelingPhases \cup {"Gone"} => mig[n].cancelled = {}
        /\ \A v \in CompletedVMs(mig[n]) : Cloned(v)
    BY DEF DroppedInv, SpentInv, HeldInv
  <2>2. CompletedVMs(mig'[n]) \subseteq CompletedVMs(mig[n])
    BY <1>1 DEF CompletedVMs, SameStatus, RevertedPhases
  <2>3. CASE mig'[n].phase \in {mig[n].phase, "Gone"}
    BY <1>1, <2>1, <2>2, <2>3 DEF SameStatus, Spent, RevertedPhases
  <2>4. CASE mig[n].phase = "Absent" /\ mig'[n].phase = ""
    BY <1>1, <2>1, <2>2, <2>4 DEF SameStatus, Spent, RevertedPhases, CancelingPhases, CancelPhases
  <2>. QED BY <1>1, <2>3, <2>4
<1>3. mw.pc = "CleanupMigrationResources" => mig'[mw.m].cancelled = {}
  <2>1. mw.pc = "CleanupMigrationResources" => mw.m \in Migs
    BY DEF TypeInv
  <2>. QED BY <1>1, <2>1 DEF DroppedInv, SpentInv, SameStatus
<1>4. Writing' => \A v \in mw'.obj.completed \ mig'[mw'.m].completed : Cloned(v)
  <2>1. mw.pc \in {"meta", "status"} => mw.m \in Migs
    BY DEF TypeInv
  <2>. QED BY <1>1, <2>1 DEF Writing, DroppedInv, HeldInv, SameStatus
<1>. QED BY <1>1, <1>2, <1>3, <1>4, DroppedLeft DEF DroppedInv, HeldInv

\* A step that moves VMs and claims, and no migration.
LEMMA DroppedMoves ==
  ASSUME OneMigration, TypeInv, DroppedInv, UNCHANGED mig, \A v \in VMs : Held(v)',
         \A v \in VMs : Cloned(v) =>
           \/ Cloned(v)'
           \/ v \in mig[mw.m].cancelled /\ mw.m \in Migs /\ mig[mw.m].phase = "CleanupCancelledMigrations",
         \A v \in VMs : \/ claim[v]["src"] = "bound" => claim'[v]["src"] = "bound"
                        \/ mw.m \in Migs /\ Spent(mig[mw.m]),
         UNCHANGED mw \/ mw'.pc # "CleanupMigrationResources",
         Writing' => \A v \in mw'.obj.completed \ mig'[mw'.m].completed : Cloned(v)',
         \A v \in VMs : <<v, "tgt">> \notin mw'.sourcesDone
  PROVE  DroppedInv'
<1>1. SourceDropped' => \A m \in Migs : Spent(mig[m])
  BY DEF OneMigration, SourceDropped, DroppedInv, SpentInv
<1>2. SpentInv'
  BY <1>1 DEF DroppedInv, SpentInv, Spent
<1>3. ASSUME NEW m \in Migs, NEW v \in CompletedVMs(mig[m]) PROVE Cloned(v)'
  <2>1. v \in VMs /\ Cloned(v)
    BY DEF TypeInv, TypeOK, MigObj, CompletedVMs, DroppedInv, HeldInv
  <2>2. v \notin mig[m].cancelled \/ mig[m].phase # "CleanupCancelledMigrations"
    BY DEF CompletedVMs, RevertedPhases
  <2>. QED BY <2>1, <2>2 DEF OneMigration
<1>4. \A m \in Migs : CompletedVMs(mig[m])' = CompletedVMs(mig[m])
  BY DEF CompletedVMs
<1>5. HeldInv'
  BY <1>3, <1>4 DEF HeldInv
<1>. QED BY <1>2, <1>5 DEF DroppedInv

\* A VM is found completed when it runs or has been cloned.
LEMMA FoundCloned ==
  ASSUME NEW v, "waitForFirstConsumer" \notin Env, TRUE \in MigrationCompleted(v)
  PROVE  Cloned(v)
BY DEF MigrationCompleted, IsOfflineMigrationCompleted, Cloned

\* The steps of a task.
LEMMA TaskDropped ==
  ASSUME OneMigration, "waitForFirstConsumer" \notin Env, TypeInv, CopyInv, FinalizerInv, LifecycleInv,
         DroppedInv, MigWorkerStep, TaskEnds
  PROVE  DroppedInv'
<1>1. PICK o \in MigObj : /\ EndOfTask(o)
                          /\ \/ mw'.pc = "idle"
                             \/ mw'.pc \in {"meta", "status"} /\ mw'.m = mw.m /\ mw'.obj = o
                          /\ mw'.sourcesDone = {}
  BY EndShape, IdleCopy
<1>2. ASSUME NEW v \in VMs
      PROVE  /\ Held(v)'
             /\ Cloned(v) =>
                  \/ Cloned(v)'
                  \/ v \in mig[mw.m].cancelled /\ mw.m \in Migs /\ mig[mw.m].phase = "CleanupCancelledMigrations"
             /\ \/ claim'[v]["src"] = claim[v]["src"]
                \/ mw.m \in Migs /\ Spent(mig[mw.m])
  BY EndHeld DEF DroppedInv
<1>3. UNCHANGED mig /\ mw.pc \in TaskPhases \cup SwapPCs
  BY DEF TaskEnds
<1>4. ASSUME NEW v \in o.completed \ mig[mw.m].completed PROVE Cloned(v)'
  <2>1. mw.obj.completed = mig[mw.m].completed /\ v \in VMs
    BY <1>1, <1>3 DEF LifecycleInv, TaskInv, Busy, MigObj
  <2>2. mw.obj.phase = "WaitForLiveMigrationToComplete" /\ TRUE \in MigrationCompleted(v)
    BY <1>1, <2>1 DEF EndOfTask, Carries
  <2>3. mw.pc = "WaitForLiveMigrationToComplete"
    BY <1>3, <2>2 DEF CopyInv, TaskOfPhase
  <2>4. RunWaitForLiveMigration
    BY <2>3 DEF MigWorkerStep, RunStarted, RunRefresh, RunWaitForRefresh, RunBegin, BeginSkipVM,
       LiveMigrateCreateDV, LiveMigrateSwap, OfflineMigrateSwap, OfflineMigrateCreateDV, BeginFails,
       BeginDone, SwapPCs, RunCleanupWaits, RunCleanupFails, RunCleanup,
       RunCanceling, CancelVM, CancelFails, CancelDone, RunCleanupCancelled, PersistMeta, PersistStatus
  <2>5. UNCHANGED <<vm, claim>>
    BY <2>4 DEF RunWaitForLiveMigration, clusterVars
  <2>6. Cloned(v)
    BY <2>1, <2>2, FoundCloned
  <2>. QED BY <2>5, <2>6 DEF Cloned, VMIExists
<1>5. Writing' => \A v \in mw'.obj.completed \ mig'[mw'.m].completed : Cloned(v)'
  BY <1>1, <1>3, <1>4 DEF Writing
<1>. QED BY <1>1, <1>2, <1>3, <1>5, DroppedMoves

\* The loops of a task.
LEMMA LoopDropped ==
  ASSUME OneMigration, TypeInv, DroppedInv, LoopStep
  PROVE  DroppedInv'
<1>1. /\ UNCHANGED mig /\ mw'.sourcesDone = mw.sourcesDone /\ mw'.pc \in SwapPCs \cup {"Canceling"}
  BY DEF LoopStep, LoopGoesOn
<1>2. mw'.pc # "CleanupMigrationResources" /\ ~Writing'
  BY <1>1 DEF SwapPCs, Writing
<1>3. \A v \in VMs : Held(v)' /\ (Cloned(v) => Cloned(v)') /\ claim'[v]["src"] = claim[v]["src"]
  BY LoopHeld DEF DroppedInv, HeldInv
<1>4. \A v \in VMs : <<v, "tgt">> \notin mw'.sourcesDone
  BY <1>1 DEF DroppedInv, HeldInv
<1>. QED BY <1>1, <1>2, <1>3, <1>4, DroppedMoves

\* KubeVirt and CDI.
LEMMA ClusterDropped ==
  ASSUME OneMigration, "stop" \notin Env, TypeInv, DroppedInv, UNCHANGED <<mig, stale, mw>>,
         NEW v \in VMs, ClusterStep(v, Existing)
  PROVE  DroppedInv'
<1>1. ClusterTypeOK /\ \A w \in VMs : Held(w)
  BY DEF TypeInv, TypeOK, DroppedInv, HeldInv
<1>2. ASSUME NEW w \in VMs
      PROVE  Held(w)' /\ (Cloned(w) => Cloned(w)') /\ (claim[w]["src"] = "bound" => claim'[w]["src"] = "bound")
  <2>1. CASE w = v
    BY <1>1, <2>1, ClusterHeld DEF Cloned
  <2>2. CASE w # v
    <3>1. AllStill(w)
      BY <1>1, <2>2, OthersStill
    <3>. QED BY <1>1, <3>1, StillHeld DEF AllStill
  <2>. QED BY <2>1, <2>2
<1>3. ASSUME Writing', NEW w \in mw'.obj.completed \ mig'[mw'.m].completed PROVE Cloned(w)'
  <2>1. Writing /\ w \in mw.obj.completed \ mig[mw.m].completed
    BY <1>3 DEF Writing
  <2>2. w \in VMs
    BY <2>1 DEF TypeInv, TypeOK, Worker, MigObj
  <2>. QED BY <1>2, <2>1, <2>2 DEF DroppedInv, HeldInv
<1>4. \A w \in VMs : <<w, "tgt">> \notin mw'.sourcesDone
  BY DEF DroppedInv, HeldInv
<1>. QED BY <1>2, <1>3, <1>4, DroppedMoves

LEMMA DroppedInvNext ==
  ASSUME OneMigration, {"stop", "waitForFirstConsumer"} \cap Env = {}, TypeInv, CopyInv, FinalizerInv,
         LifecycleInv, RecordInv, DroppedInv, [Next]_vars
  PROVE  DroppedInv'
<1>1. CASE MigWorkerStep /\ UNCHANGED pw
  <2>1. PersistMeta \/ PersistStatus \/ TaskEnds \/ LoopStep
    BY <1>1, WorkerKinds
  <2>. QED BY <1>1, <2>1, WriteDropped, TaskDropped, LoopDropped
<1>2. ASSUME UNCHANGED <<mig, vm, vmim, claim, data>>, mw'.sourcesDone \subseteq mw.sourcesDone,
             UNCHANGED mw \/ mw'.pc \in {"idle", "down"}, \A m \in Migs : m \in stale => m \in stale'
      PROVE  DroppedInv'
  <2>1. \A m \in Migs :
          /\ mig'[m].phase \notin CancelingPhases \cup {"Gone"} => mig'[m].cancelled = {}
          /\ Spent(mig[m]) => Spent(mig'[m])
          /\ \A v \in CompletedVMs(mig'[m]) : Cloned(v)
    BY <1>2 DEF DroppedInv, SpentInv, HeldInv
  <2>2. mw'.pc = "CleanupMigrationResources" => mig'[mw'.m].cancelled = {}
    BY <1>2 DEF DroppedInv, SpentInv
  <2>3. Writing' => \A v \in mw'.obj.completed \ mig'[mw'.m].completed : Cloned(v)
    <3>1. mw.pc \in {"meta", "status"} => mw.m \in Migs
      BY DEF TypeInv
    <3>. QED BY <1>2, <3>1 DEF DroppedInv, HeldInv, Writing
  <2>4. \A v \in VMs : <<v, "tgt">> \notin mw'.sourcesDone
    BY <1>2 DEF DroppedInv, HeldInv
  <2>. QED BY <1>2, <2>1, <2>2, <2>3, <2>4, DroppedLeft
<1>3. CASE PlanReconcile \/ PlanWorkerStep \/ DeletePlan \/ UNCHANGED vars
  <2>1. PlanKey \notin Migs
    BY ClusterAssumption DEF PlanKey
  <2>2. UNCHANGED <<mig, mw, vm, vmim, claim, data>> /\ \A m \in Migs : m \in stale => m \in stale'
    BY <1>3, <2>1, PlanSteps DEF DeletePlan, clusterVars, vars
  <2>. QED BY <1>2, <2>2
<1>4. CASE Crash \/ Restart
  <2>1. /\ UNCHANGED <<mig, stale, vm, vmim, claim, data>> /\ mw'.pc \in {"idle", "down"}
        /\ mw'.sourcesDone = {}
    BY <1>4 DEF Crash, Restart, clusterVars, IdleWorker
  <2>. QED BY <1>2, <2>1
<1>. QED BY <1>1, <1>3, <1>4, ReadDropped, OwnerDropped, ClusterDropped DEF Next

(***************************************************************************)
(* The latest data of a VM is never lost, with either retention policy,    *)
(* for one migration of any number of VMs, while no VM is stopped, no      *)
(* clone waits for a consumer and the plan's validations pass: the         *)
(* migration may be deleted at any step, VMs be drained, writes lost, calls *)
(* fail and the process die.  deleteSourceDataVolumesAndPVCs finds the     *)
(* data on the target, and a cancel that follows it has no VM left whose   *)
(* target it would delete.                                                 *)
(***************************************************************************)
THEOREM DataIsSafe ==
  ASSUME Undisturbed, {"stop", "waitForFirstConsumer"} \cap Env = {}
  PROVE  Spec => []DataSafe
<1>. DEFINE Inv == SwapInv /\ LifecycleInv /\ DroppedInv
<1>1. Init => Inv
  BY SwapInvInit, LifecycleInvInit, DroppedInvInit
<1>2. Inv /\ [Next]_vars => Inv'
  BY SwapInvNext, LifecycleInvNext, DroppedInvNext DEF SwapInv, Undisturbed
<1>3. Inv => DataSafe
  <2>1. ASSUME NEW v \in VMs, Held(v) PROVE data[v] # {}
    <3>1. CASE VMIExists(v)
      BY <2>1, <3>1 DEF Held, HoldsData, VMIExists
    <3>2. CASE ~VMIExists(v)
      BY <2>1, <3>2 DEF Held, AtRest
    <3>. QED BY <3>1, <3>2
  <2>. QED BY <2>1 DEF DroppedInv, HeldInv, DataSafe
<1>. HIDE DEF Inv
<1>. QED BY <1>1, <1>2, <1>3, PTL DEF Spec
=============================================================================
