--------------------------- MODULE MigrationSystem ---------------------------
(***************************************************************************)
(* The two controllers, the cluster and the user together: one plan, its   *)
(* VMs and its migrations.                                                 *)
(***************************************************************************)
EXTENDS StorageMigPlan

vars == <<vm, vmim, claim, data, mig, plan, stale, mw, pw>>

Init ==
  /\ ClusterInit
  /\ MigInit
  /\ PlanInit
  /\ stale = {}

-----------------------------------------------------------------------------
(* The user, the garbage collector and the controller process *)

CreateMigration(m) ==
  /\ "create" \in Env
  /\ mig[m].phase = "Absent"
  /\ \A n \in Migs : n < m => mig[n].phase # "Absent"
  /\ mig' = [mig EXCEPT ![m].phase = ""]
  /\ UNCHANGED <<plan, stale, mw, pw, clusterVars>>

\* A Delete call: an object with a finalizer stays and is marked.
MarkDeleted(m) ==
  /\ Exists(m) /\ ~mig[m].deleting
  /\ mig' = [mig EXCEPT ![m] = IF @.fin THEN [@ EXCEPT !.deleting = TRUE] ELSE [@ EXCEPT !.phase = "Gone"]]
  /\ stale' = stale \cup {m}

DeleteMigration(m) ==
  /\ "delete" \in Env
  /\ MarkDeleted(m)
  /\ UNCHANGED <<plan, mw, pw, clusterVars>>

DeletePlan ==
  /\ "deletePlan" \in Env
  /\ plan.exists /\ ~plan.deleting
  /\ plan' = IF plan.fin THEN [plan EXCEPT !.deleting = TRUE] ELSE NoPlan
  /\ stale' = stale \cup {PlanKey}
  /\ UNCHANGED <<mig, mw, pw, clusterVars>>

\* Migrations owned by the plan go with it, in the foreground before it.
CollectGarbage(m) ==
  /\ mig[m].owned
  /\ ~plan.exists \/ ("foreground" \in Env /\ plan.deleting)
  /\ MarkDeleted(m)
  /\ UNCHANGED <<plan, mw, pw, clusterVars>>

\* The controller process dies: what was not written is lost.
Crash ==
  /\ "restart" \in Env
  /\ mw.pc # "down"
  /\ mw' = [IdleWorker EXCEPT !.pc = "down"]
  /\ pw' = [IdlePlanWorker EXCEPT !.pc = "down"]
  /\ UNCHANGED <<mig, plan, stale, clusterVars>>

Restart ==
  /\ mw.pc = "down"
  /\ mw' = IdleWorker
  /\ pw' = IdlePlanWorker
  /\ UNCHANGED <<mig, plan, stale, clusterVars>>

-----------------------------------------------------------------------------

Next ==
  \/ \E m \in Migs : Reconcile(m) /\ UNCHANGED pw
  \/ MigWorkerStep /\ UNCHANGED pw
  \/ PlanReconcile
  \/ PlanWorkerStep
  \/ \E v \in VMs : ClusterStep(v, Existing) /\ UNCHANGED <<mig, plan, stale, mw, pw>>
  \/ \E m \in Migs : CreateMigration(m) \/ DeleteMigration(m) \/ CollectGarbage(m)
  \/ DeletePlan
  \/ Crash
  \/ Restart

Spec == Init /\ [][Next]_vars

(***************************************************************************)
(* Fairness: the work queue reconciles an object again after an event, an  *)
(* error or a requeue period; a reconcile runs to its end; KubeVirt, CDI   *)
(* and the garbage collector make progress, and a VMIM that KubeVirt tries *)
(* again and again succeeds.                                               *)
(***************************************************************************)
Fairness ==
  /\ \A m \in Migs : WF_vars(Reconcile(m) /\ UNCHANGED pw)
  /\ WF_vars(MigWorkerStep /\ UNCHANGED pw)
  /\ WF_vars(PlanReconcile)
  /\ WF_vars(PlanWorkerStep)
  /\ \A v \in VMs : WF_vars(ClusterProgress(v, Existing) /\ UNCHANGED <<mig, plan, stale, mw, pw>>)
  /\ \A v \in VMs : SF_vars(VMIMSucceeds(v) /\ UNCHANGED <<mig, plan, stale, mw, pw>>)
  /\ \A m \in Migs : WF_vars(CollectGarbage(m))
  /\ WF_vars(Restart)

FairSpec == Spec /\ Fairness

-----------------------------------------------------------------------------

(* Properties *)

\* Every variable has its type.
TypeOK ==
  /\ ClusterTypeOK
  /\ mig \in [Migs -> MigObj]
  /\ plan \in PlanObj
  /\ stale \subseteq Migs \cup {PlanKey}
  /\ mw \in Worker
  /\ pw \in PlanWorker

(***************************************************************************)
(* The latest data of a VM is always on some claim that still exists:      *)
(* neither deleteSourceDataVolumesAndPVCs nor the cleanup of a cancelled   *)
(* migration deletes the only copy.                                        *)
(***************************************************************************)
DataSafe == \A v \in VMs : data[v] # {}

(***************************************************************************)
(* With retention policy keepSource no call of the controller deletes a    *)
(* source claim, whatever the plan status recorded and however the         *)
(* migration ends.                                                         *)
(***************************************************************************)
SourceKept == ~DeleteSource => \A v \in VMs : claim[v]["src"] = "bound"

(***************************************************************************)
(* A VM is listed in CompletedMigrations only once its data is on the      *)
(* target (handleWaitForLiveMigrationToCompletePhase).                     *)
(***************************************************************************)
CompletedOnTarget == \A m \in Migs, v \in VMs : v \in mig[m].completed => "tgt" \in data[v]

(***************************************************************************)
(* A VM whose volumes were swapped is never forgotten: a migration lists   *)
(* it as running or completed, or is still in BeginLiveMigration and will  *)
(* handle it again.                                                        *)
(***************************************************************************)
SwapAccounted ==
  \A v \in VMs : vm[v].spec = "tgt" =>
    \E m \in Migs : \/ v \in mig[m].running \cup mig[m].completed
                    \/ mig[m].phase = "BeginLiveMigration"

(***************************************************************************)
(* Once a migration cleans up after a cancel, every VM it lists as         *)
(* cancelled names its source volumes again (handleCancelingPhase).        *)
(***************************************************************************)
CancelledOnSource ==
  \A m \in Migs : mig[m].phase \in {"CleanupCancelledMigrations", "Canceled"} =>
    \A v \in mig[m].cancelled : vm[v].spec = "src"

(***************************************************************************)
(* The inductive form of CancelledOnSource, for a plan with one migration. *)
(* A reconcile works on a copy, so what must hold of the object when it is *)
(* written must hold of the copy from the moment the VMs are reverted      *)
(* (handleCancelingPhase) until persistMigration, and the loop that swaps  *)
(* volumes (handleBeginLiveMigrationPhase) must not run once the object is *)
(* in a cancel phase.                                                      *)
(***************************************************************************)
CancelInv ==
  /\ mw.pc \notin {"idle", "down"} => mw.m \in Migs
  /\ mw.pc \in TaskPhases => mw.obj.phase = mw.pc
  /\ mw.pc \in SwapPCs => /\ mw.obj.phase = "BeginLiveMigration"
                          /\ mig[mw.m].phase \in {"BeginLiveMigration", "Gone"}
  /\ mw.pc = "Canceling" => \A v \in mw.obj.running \ (mw.todo \cup mw.kept) : vm[v].spec = "src"
  /\ mw.obj.phase \in {"CleanupCancelledMigrations", "Canceled"} =>
       \A v \in mw.obj.cancelled : vm[v].spec = "src"
  /\ CancelledOnSource

\* A delete call removes the target claim of v in this step.
TargetDeleted(v) ==
  claim[v]["tgt"] \in {"pending", "bound"} /\ claim'[v]["tgt"] \in {"none", "terminating"}

(***************************************************************************)
(* The target claim of a VM is deleted only while the VM names its source: *)
(* cleanupCancelledMigrationResources runs after the revert, and           *)
(* deleteSourceDataVolumesAndPVCs does not take a target for a source.     *)
(***************************************************************************)
TargetDeletedAfterRevert == [][\A v \in VMs : TargetDeleted(v) => vm[v].spec = "src"]_vars

(***************************************************************************)
(* A cancel never turns back into a migration, and its phases only move    *)
(* forward, even when a status write is lost (maybeTransitionToCanceling,  *)
(* persistMigration).                                                      *)
(***************************************************************************)
CancelRank(p) == CASE p = "Canceling" -> 1 [] p = "CleanupCancelledMigrations" -> 2
                   [] p = "Canceled" -> 3 [] p = "Gone" -> 4 [] OTHER -> 0
CancelMovesOn == [][\A m \in Migs : CancelRank(mig[m].phase) <= CancelRank(mig'[m].phase)]_vars

(***************************************************************************)
(* A canceled migration leaves every VM it did not complete on its source  *)
(* volumes.                                                                *)
(***************************************************************************)
CancelRestores ==
  \A m \in Migs : mig[m].phase = "Canceled" =>
    \A v \in VMs \ mig[m].completed : vm[v].spec = "src"

(***************************************************************************)
(* The plan goes away only when no migration has work on it: none of them  *)
(* lists a running VM or is between BeginLiveMigration and its end         *)
(* (hasActiveMigrations against the finalizer removal in persistPlan).     *)
(***************************************************************************)
PlanOutlivesSwaps ==
  ~plan.exists => \A m \in Existing :
    /\ mig[m].running = {}
    /\ mig[m].phase \notin {"BeginLiveMigration", "CleanupMigrationResources"}

\* The plan status knows that the source of v is "src".
KnowsSource(p, v) == p.rec[v] = "src" \/ <<v, "src">> \in p.completed

(***************************************************************************)
(* While a VM is swapped to its target the plan status does not lose the   *)
(* source it recorded, which cancel needs to revert the volumes            *)
(* (validateStorageMigrationPossible).                                     *)
(***************************************************************************)
SourcesNotWiped ==
  [][\A v \in VMs : vm[v].spec = "tgt" /\ KnowsSource(plan, v) /\ plan'.exists
                      => KnowsSource(plan', v)]_vars

(***************************************************************************)
(* A migration whose VMs all can be migrated does not complete without     *)
(* having migrated any: it begins after the refresh it asked for.          *)
(***************************************************************************)
CompletesWork == \A m \in Migs : mig[m].phase = "Completed" => mig[m].completed # {}

\* From some time on the controller process stays up.
Calm == <>[](mw.pc # "down")

(***************************************************************************)
(* Every migration that exists completes or, deleted, goes away.           *)
(***************************************************************************)
EventuallyOver == Calm => \A m \in Migs : Exists(m) ~> mig[m].phase \in {"Completed", "Gone"}

(***************************************************************************)
(* A deleted migration goes away: the cancel reverts its VMs, cleans up    *)
(* and drops the finalizer.                                                *)
(***************************************************************************)
DeletedGoesAway == Calm => \A m \in Migs : mig[m].deleting ~> mig[m].phase = "Gone"

(***************************************************************************)
(* A plan whose deletion is blocked by active migrations is deleted once   *)
(* they have completed, which they do.                                     *)
(***************************************************************************)
PlanDeletionEnds == plan.deleting ~> ~plan.exists

-----------------------------------------------------------------------------
(* The abstract specification *)

\* Hides the refresh of the plan.
Stage(phase) ==
  CASE phase = "Absent" -> "absent"
    [] phase = "Gone" -> "gone"
    [] phase = "BeginLiveMigration" -> "swapping"
    [] phase = "WaitForLiveMigrationToComplete" -> "moving"
    [] phase = "CleanupMigrationResources" -> "finishing"
    [] phase = "Completed" -> "completed"
    [] phase = "Canceling" -> "canceling"
    [] phase = "CleanupCancelledMigrations" -> "reverted"
    [] phase = "Canceled" -> "canceled"
    [] OTHER -> "waiting"

Lifecycle == INSTANCE MigrationLifecycle WITH
  Machines <- VMs, Migrations <- Migs, DropsSources <- DeleteSource,
  stage <- [m \in Migs |-> Stage(mig[m].phase)],
  marked <- {m \in Migs : mig[m].deleting},
  running <- [m \in Migs |-> mig[m].running],
  completed <- [m \in Migs |-> mig[m].completed],
  cancelled <- [m \in Migs |-> mig[m].cancelled],
  onTarget <- {v \in VMs : vm[v].spec = "tgt"},
  claims <- [v \in VMs |-> {c \in Claims : claim[v][c] \in {"pending", "bound"}}],
  planned <- plan.exists

(***************************************************************************)
(* The system implements MigrationLifecycle, with any number of migrations *)
(* at a time: whatever is lost, refused or interrupted between reading a   *)
(* migration and writing it, a status that reaches the API server is true  *)
(* of the VMs at that moment, and no VM is moved, no claim deleted and no  *)
(* plan dropped behind the back of a migration that needs it.              *)
(***************************************************************************)
KeepsLifecycle == Lifecycle!Spec
=============================================================================
