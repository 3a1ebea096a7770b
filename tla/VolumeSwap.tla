------------------------------ MODULE VolumeSwap ------------------------------
(***************************************************************************)
(* Claim names, the plan's entry for a VM, and what the migration          *)
(* controller makes of the volumes of a VM with such an entry              *)
(* (storagemigplan/validation.go, storagemig/vm.go, storagemig/cancel.go). *)
(*                                                                         *)
(* A name is the sequence of its parts: <<"disk">>, <<"disk", "new">>,     *)
(* <<"disk", "mig-1">>.  A VM is a record with its volumes in order, disk, *)
(* and the names of their DataVolumeTemplates, dvt (NoName where there is  *)
(* none).  An entry has one source per volume, or none at all, and one     *)
(* target per volume (NoName where the spec has none).                     *)
(***************************************************************************)
EXTENDS Naturals, Sequences

CONSTANTS
  NoName,      \* not a claim name
  Suffix,      \* the suffix of this plan, "mig-" and four characters
  OldSuffixes  \* suffixes of other plans

ASSUME SuffixAssumption == Suffix \notin OldSuffixes \cup {"new"}

\* Mutant: the suffix of an earlier migration stays.
TrimNewOnly(name) ==
  IF Len(name) > 1 /\ name[Len(name)] = "new" THEN SubSeq(name, 1, Len(name) - 1) ELSE name

trimSuffix(name) ==
  IF Len(name) > 1 /\ name[Len(name)] \in {"new", Suffix} \cup OldSuffixes
  THEN SubSeq(name, 1, Len(name) - 1) ELSE name

\* given: the destination name in the plan's spec.
targetPVCName(given, source) == IF given # NoName THEN given ELSE Append(trimSuffix(source), Suffix)

-----------------------------------------------------------------------------
(* Entries *)

\* Not every source equal to its target: a record that was not lost.
sourcesMatchTargets(e) == e.src # <<>> /\ e.src = e.tgt

hasVMBeenSwapped(original, now) == original # now

\* prepareVMForStorageMigration.  A template is found by the source name.
prepareVM(vm, e) ==
  [vm EXCEPT
    !.disk = e.tgt,
    !.dvt = [i \in DOMAIN vm.dvt |->
               LET found == {j \in DOMAIN e.src : e.src[j] = vm.dvt[i]}
               IN  IF found = {} THEN vm.dvt[i] ELSE e.tgt[CHOOSE j \in found : \A k \in found : k <= j]]]

-----------------------------------------------------------------------------
(* Cancel *)

vmReferencesTargetVolumes(vm, e) ==
  \E i \in DOMAIN e.tgt : \E j \in DOMAIN vm.disk : e.tgt[i] \in {vm.disk[j], vm.dvt[j]} \ {NoName}

isVMOnSourceVolumes(vm, e) ==
  /\ e.src # <<>>
  /\ ~vmReferencesTargetVolumes(vm, e)
  /\ vm.disk = e.src

\* recoverCorruptedSourcePVCs: from, the sources VolumeUpdateState knows by
\* their targets.  NoName where it knows none.
recoveredSources(e, from) ==
  [i \in DOMAIN e.src |-> IF e.src[i] # e.tgt[i] THEN e.src[i]
                          ELSE IF e.tgt[i] \in DOMAIN from THEN from[e.tgt[i]] ELSE NoName]

canRevert(e, from) ==
  LET src == recoveredSources(e, from)
  IN  /\ Len(e.src) = Len(e.tgt)
      /\ \A i \in DOMAIN src : src[i] # NoName /\ src[i] # e.tgt[i]

\* Mutant: the sources are left as they are.
revertTargetsOnly(e, from) == [e EXCEPT !.tgt = recoveredSources(e, from)]

\* revertPlanVolumes: the targets are what the VM has now.
revertPlanVolumes(e, from) == [e EXCEPT !.src = e.tgt, !.tgt = recoveredSources(e, from)]
===============================================================================
