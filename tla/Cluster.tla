------------------------------- MODULE Cluster -------------------------------
(***************************************************************************)
(* The part of the Kubernetes cluster the migration controllers act on and *)
(* do not own: virtual machines and their instances (KubeVirt), instance   *)
(* migrations (VMIMs), and the source and target volume claims (CDI).      *)
(*                                                                         *)
(* Every VM has one disk.  The disk lives on the claim "src" the VM uses   *)
(* before the storage migration, or on the claim "tgt" named by the plan.  *)
(* Everything here is external to the repository and modelled from how its *)
(* code reads and writes these objects.                                    *)
(***************************************************************************)
EXTENDS Naturals, FiniteSets

CONSTANTS
  VMs,    \* the virtual machines of the plan
  Migs,   \* the migrations of the plan, numbered in creation order
  Env     \* which disturbances the environment may cause, a subset of EnvKinds

EnvKinds == {"create", "delete", "deletePlan", "foreground", "stop", "start", "evacuate",
             "vmimFail", "waitForFirstConsumer", "unfit", "error",
             "planError", "restart"}

ASSUME ClusterAssumption ==
  /\ IsFiniteSet(VMs)
  /\ Migs \subseteq Nat \ {0}
  /\ Env \subseteq EnvKinds

VARIABLES
  vm,     \* vm[v]: the VM's spec and its running instance
  vmim,   \* vmim[v]: the instance migrations of v
  claim,  \* claim[v][c]: the state of claim c of v
  data    \* data[v]: the claims that hold the latest data of v

clusterVars == <<vm, vmim, claim, data>>

Claims == {"src", "tgt"}

(***************************************************************************)
(* spec: the claim the VM's template names.  strategy: whether             *)
(* UpdateVolumesStrategy is Migration.  disk: the claim the running        *)
(* instance (VMI) has open, "none" if there is no VMI.  fit: whether the   *)
(* running VM is Ready, storage live migratable and needs no restart.      *)
(***************************************************************************)
VMType == [spec: Claims, strategy: BOOLEAN, disk: Claims \cup {"none"}, fit: BOOLEAN]

(***************************************************************************)
(* act: what the VMIM that is not finished moves the disk to ("evacuate":  *)
(* it moves the VM to another node and leaves the disk alone).  since: the *)
(* migrations that existed when act was created.  done: the migrations for *)
(* which a succeeded VMIM exists that is not older than they are.  Failed  *)
(* VMIMs are ignored by the code and not kept.                             *)
(***************************************************************************)
VMIMType == [act: Claims \cup {"none", "evacuate"}, since: SUBSET Migs, done: SUBSET Migs]

(***************************************************************************)
(* "pending": a clone DataVolume that has not succeeded; "bound": usable;  *)
(* "terminating": deleted, kept by the pvc-protection finalizer while an   *)
(* instance uses it.                                                       *)
(***************************************************************************)
ClaimStates == {"none", "pending", "bound", "terminating"}

ClusterTypeOK ==
  /\ vm \in [VMs -> VMType]
  /\ vmim \in [VMs -> VMIMType]
  /\ claim \in [VMs -> [Claims -> ClaimStates]]
  /\ data \in [VMs -> SUBSET Claims]

ClusterInit ==
  /\ \E on \in SUBSET VMs :
       vm = [v \in VMs |-> [spec |-> "src", strategy |-> FALSE,
                            disk |-> IF v \in on THEN "src" ELSE "none", fit |-> TRUE]]
  /\ vmim = [v \in VMs |-> [act |-> "none", since |-> {}, done |-> {}]]
  /\ claim = [v \in VMs |-> [c \in Claims |-> IF c = "src" THEN "bound" ELSE "none"]]
  /\ data = [v \in VMs |-> {"src"}]

-----------------------------------------------------------------------------
(* Claims *)

VMIExists(v) == vm[v].disk # "none"

InUse(v, c) == vm[v].disk = c \/ vmim[v].act = c

\* Delete calls on the claims D: one an instance uses lives on, terminating.
DeleteClaims(D) ==
  /\ claim' = [v \in VMs |-> [c \in Claims |->
                 IF <<v, c>> \notin D \/ claim[v][c] = "none" THEN claim[v][c]
                 ELSE IF InUse(v, c) THEN "terminating" ELSE "none"]]
  /\ data' = [v \in VMs |-> {c \in data[v] :
                 <<v, c>> \in D => (InUse(v, c) /\ claim[v][c] # "none")}]

\* The instance of v now has disk d open, a VMIM a running, and its latest
\* data on the claims in latest; terminating claims it let go disappear.
Release(v, d, a, latest) ==
  LET gone == {c \in Claims : claim[v][c] = "terminating" /\ c # d /\ c # a}
  IN  /\ claim' = [claim EXCEPT ![v] = [c \in Claims |-> IF c \in gone THEN "none" ELSE claim[v][c]]]
      /\ data' = [data EXCEPT ![v] = latest \ gone]

-----------------------------------------------------------------------------
(* KubeVirt *)

\* The volumes of a running VM were changed with the Migration strategy.
CreateVMIM(v, existing) ==
  /\ VMIExists(v)
  /\ vm[v].strategy
  /\ vm[v].spec # vm[v].disk
  /\ claim[v][vm[v].spec] = "bound"
  /\ vmim[v].act = "none"
  /\ vmim' = [vmim EXCEPT ![v] = [@ EXCEPT !.act = vm[v].spec, !.since = existing]]
  /\ UNCHANGED <<vm, claim, data>>

\* A node drain moves the VM; its volumes are untouched.
Evacuate(v, existing) ==
  /\ "evacuate" \in Env
  /\ VMIExists(v)
  /\ vm[v].spec = vm[v].disk
  /\ vmim[v].act = "none"
  /\ vmim' = [vmim EXCEPT ![v] = [@ EXCEPT !.act = "evacuate", !.since = existing]]
  /\ UNCHANGED <<vm, claim, data>>

\* A VMIM may succeed although the spec was reverted just before.
VMIMSucceeds(v) ==
  LET to == IF vmim[v].act = "evacuate" THEN vm[v].disk ELSE vmim[v].act
  IN  /\ vmim[v].act # "none"
      /\ vm' = [vm EXCEPT ![v].disk = to]
      /\ vmim' = [vmim EXCEPT ![v] = [act |-> "none", since |-> {}, done |-> @.done \cup @.since]]
      /\ Release(v, to, "none", IF vm[v].disk \in data[v] THEN {to} ELSE data[v])

\* A VMIM fails, or KubeVirt aborts it because the volumes were reverted.
VMIMFails(v) ==
  /\ vmim[v].act # "none"
  /\ "vmimFail" \in Env \/ (vmim[v].act \in Claims /\ vm[v].spec # vmim[v].act)
  /\ vmim' = [vmim EXCEPT ![v] = [@ EXCEPT !.act = "none", !.since = {}]]
  /\ Release(v, vm[v].disk, "none", data[v])
  /\ UNCHANGED vm

StopVM(v) ==
  /\ "stop" \in Env
  /\ VMIExists(v)
  /\ vm' = [vm EXCEPT ![v].disk = "none"]
  /\ vmim' = [vmim EXCEPT ![v] = [@ EXCEPT !.act = "none", !.since = {}]]
  /\ Release(v, "none", "none", data[v])

\* KubeVirt does not start a VM on a target that holds none of its data.
StartVM(v) ==
  LET c == vm[v].spec
  IN  /\ "start" \in Env
      /\ ~VMIExists(v)
      /\ claim[v][c] = "bound"
      /\ c = "tgt" => "tgt" \in data[v]
      /\ vm' = [vm EXCEPT ![v].disk = c]
      /\ data' = [data EXCEPT ![v] = IF c \in @ THEN {c} ELSE @]
      /\ UNCHANGED <<vmim, claim>>

\* The VM loses or regains the conditions that allow a live migration.
FitnessChanges(v) ==
  /\ "unfit" \in Env
  /\ vm' = [vm EXCEPT ![v].fit = ~@]
  /\ UNCHANGED <<vmim, claim, data>>

-----------------------------------------------------------------------------
(* CDI *)

\* A clone DataVolume succeeds; the copy is current unless the VM writes.
CloneSucceeds(v) ==
  /\ claim[v]["tgt"] = "pending"
  /\ claim[v]["src"] # "none"
  /\ claim' = [claim EXCEPT ![v]["tgt"] = "bound"]
  /\ data' = [data EXCEPT ![v] = IF "src" \in @ /\ vm[v].disk # "src" THEN @ \cup {"tgt"} ELSE @]
  /\ UNCHANGED <<vm, vmim>>

\* What KubeVirt and CDI do on their own, given time.
ClusterProgress(v, existing) ==
  \/ CreateVMIM(v, existing)
  \/ VMIMSucceeds(v)
  \/ CloneSucceeds(v)

ClusterStep(v, existing) ==
  \/ ClusterProgress(v, existing)
  \/ Evacuate(v, existing)
  \/ VMIMFails(v)
  \/ StopVM(v)
  \/ StartVM(v)
  \/ FitnessChanges(v)
=============================================================================
