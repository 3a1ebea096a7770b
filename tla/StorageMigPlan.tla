---------------------------- MODULE StorageMigPlan ----------------------------
(***************************************************************************)
(* The VirtualMachineStorageMigrationPlan controller                       *)
(* (internal/controller/storagemigplan).  One worker: it reads the plan,   *)
(* its migrations and its VMs, computes the new plan, and writes it back,  *)
(* metadata first (finalizer and refresh annotations) and status second.   *)
(***************************************************************************)
EXTENDS StorageMig

VARIABLE pw     \* the plan controller's worker

NoPlan == [exists |-> FALSE, deleting |-> FALSE, fin |-> FALSE, refresh |-> "none",
           list |-> [v \in VMs |-> "none"], rec |-> [v \in VMs |-> "none"],
           completed |-> {}, crit |-> {}]

PlanWorker == [pc: {"idle", "down", "meta", "status"}, obj: PlanObj]

IdlePlanWorker == [pc |-> "idle", obj |-> NoPlan]

planMeta(p) == <<p.fin, p.refresh>>
planStatus(p) == <<p.list, p.rec, p.completed, p.crit>>

-----------------------------------------------------------------------------
(* Reading the migrations *)

InProgressPhases == {"WaitForLiveMigrationToComplete", "CleanupMigrationResources",
                     "Canceling", "CleanupCancelledMigrations"}

\* getMigrationStatus: the first migration found in one of these phases
\* decides; the list comes in any order.  A failed List call counts as no
\* migration.
GetMigrationStatus ==
  LET found == {IF mig[m].phase = "Completed" THEN "completed" ELSE "inProgress" :
                  m \in {n \in Existing : mig[n].phase \in InProgressPhases \cup {"Completed"}}}
  IN  found \cup (IF found = {} \/ "planError" \in Env THEN {"notStarted"} ELSE {})

\* Mutant: a migration about to swap volumes does not count as active.
HasInProgressMigrations == \E m \in Existing : mig[m].phase \in InProgressPhases

HasActiveMigrations == \E m \in Existing : mig[m].phase \notin {"Completed", "Canceled"}

\* compareStorageMigrations sorts completed migrations first, then by age;
\* processMigrations takes the last.
LastMigration ==
  LET open == {m \in Existing : mig[m].phase # "Completed"}
      pool == IF open # {} THEN open ELSE Existing
  IN  CHOOSE m \in pool : \A n \in pool : n <= m

-----------------------------------------------------------------------------
(* Validation *)

AllSpecVMsCompleted(p) ==
  /\ VMs # {}
  /\ \A v \in VMs : \E e \in p.completed : e[1] = v
  /\ \A e, f \in p.completed : e[1] = f[1] => e = f

PlanStatusShowsCompleted(p) == AllSpecVMsCompleted(p) /\ \A v \in VMs : p.list[v] = "none"

\* getExistingStatusVMMap: an invalid entry hides a completed one, which
\* hides the others; of two completed entries the later has the source.
ExistingStatus(p, v) ==
  LET comp == {e[2] : e \in {f \in p.completed : f[1] = v}}
  IN  CASE p.list[v] = "invalid" -> p.rec[v]
        [] p.list[v] # "invalid" /\ comp # {} ->
             IF comp = {"none"} THEN "none" ELSE CHOOSE s \in comp : s # "none"
        [] OTHER -> p.rec[v]

HasExisting(p, v) == p.list[v] # "none" \/ \E e \in p.completed : e[1] = v

\* createStatusVM and getSourcePVC: the claim the VM names, or the original
\* one VolumeUpdateState knows of once a migration is under way, if it exists.
CreateStatusVM(v, st, knowsSource) ==
  LET name == IF st # "notStarted" /\ knowsSource THEN "src" ELSE vm[v].spec
  IN  IF claim[v][name] = "none" THEN "none" ELSE name

\* Mutant: the source is what the VM names now.
ComputedSource(p, v, computed) == IF computed = "none" THEN ExistingStatus(p, v) ELSE computed

\* The source recorded for v: a computed one that differs from the recorded
\* one means the volumes were swapped, and the recorded one is kept.
RecordedSource(p, v, computed) ==
  LET existing == ExistingStatus(p, v)
  IN  IF existing # "none" THEN existing
      ELSE IF computed = "tgt" /\ HasExisting(p, v) THEN "none"
      ELSE computed

\* healCompletedMigrations
Heal(p) == IF p.completed # {} THEN p ELSE [p EXCEPT !.completed = VMs \X {"none"}]

ListFor(st) == IF st = "notStarted" THEN "ready" ELSE "inProgress"

\* The loop of validateStorageMigrationPossible over the VMs in seen; sources
\* are the ones createStatusVM computes.  Every list was reset before.
Validated(p, st, seen, source) ==
  LET fits(v) == v \in seen /\ CanVMStorageMigrate(v)
      kept(v) == /\ fits(v)
                 /\ source[v] # "none" \/ ExistingStatus(p, v) # "none"
  IN  [p EXCEPT !.completed = {},
                !.list = [v \in VMs |-> IF kept(v) THEN ListFor(st) ELSE "none"],
                !.rec = [v \in VMs |-> IF kept(v) THEN RecordedSource(p, v, source[v]) ELSE "none"],
                !.crit = @ \ (IF \A v \in seen : fits(v) THEN {} ELSE {"NotAllVirtualMachinesReady"})]

\* validatePVCs: ready entries whose source is their target.  now is the
\* migration status, which validatePVCs gets again.
ConflictingPVCs(p, now) == {v \in VMs : p.list[v] = "ready" /\ p.rec[v] = "tgt" /\ now = "notStarted"}

\* The conditions that follow validatePVCs.
Checked(p, now) ==
  LET bad == ConflictingPVCs(p, now)
      none == \A v \in VMs : p.list[v] = "none"
  IN  IF bad # {}
      THEN [p EXCEPT !.list = [v \in VMs |-> IF v \in bad THEN "invalid" ELSE @[v]],
                     !.crit = (@ \ {"ReconcileFailed"}) \cup {"InvalidPVCs"}]
      ELSE [p EXCEPT !.crit = IF none THEN {"NotAllVirtualMachinesReady"} ELSE {}]

\* updateReadyCompletedMigrations: entries of VMs the last migration
\* completed move to the completed list.
ProcessMigrations(p) ==
  LET moved == IF Existing = {} THEN {}
               ELSE {v \in VMs : v \in mig[LastMigration].completed /\ p.list[v] \in {"ready", "inProgress"}}
  IN  [p EXCEPT !.completed = @ \cup {<<v, p.rec[v]>> : v \in moved},
                !.list = [v \in VMs |-> IF v \in moved THEN "none" ELSE @[v]],
                !.rec = [v \in VMs |-> IF v \in moved THEN "none" ELSE @[v]]]

\* A failed List call leaves the lists as they are.
Processed(p) == {ProcessMigrations(p)} \cup (IF "planError" \in Env THEN {p} ELSE {})

SetReconcileFailed(p) == [p EXCEPT !.crit = @ \cup {"ReconcileFailed"}]

\* Mutant: the end of the refresh is not annotated.
NotRefreshed(p) == p

\* shouldUpdateRefresh and setRefreshAnnotations
Refreshed(p) == IF p.refresh = "started" THEN [p EXCEPT !.refresh = "done"] ELSE p

-----------------------------------------------------------------------------
(* Reconcile *)

PlanToPersist(p) ==
  IF planMeta(p) # planMeta(plan) THEN [pc |-> "meta", obj |-> p]
  ELSE IF planStatus(p) # planStatus(plan) THEN [pc |-> "status", obj |-> p]
  ELSE IdlePlanWorker

\* The rest of Reconcile, once validation has made p of the plan.
AfterValidation(p) == \E q \in Processed(p) : pw' = PlanToPersist(Refreshed(q))

PlanReconcileStarts ==
  /\ pw.pc = "idle"
  /\ plan.exists
  /\ stale' = stale \ {PlanKey}
  /\ UNCHANGED <<mig, plan, mw, clusterVars>>

\* Deletion waits for the active migrations; nothing else is done for them.
PlanReconcileDeleting ==
  /\ plan.deleting
  /\ PlanReconcileStarts
  /\ pw' = IF HasActiveMigrations THEN IdlePlanWorker
           ELSE PlanToPersist([plan EXCEPT !.fin = FALSE])

PlanReconcileCompleted ==
  /\ ~plan.deleting /\ ~PlanStatusShowsCompleted(plan)
  /\ "completed" \in GetMigrationStatus
  /\ PlanReconcileStarts
  /\ AfterValidation(Heal([plan EXCEPT !.fin = TRUE, !.crit = @ \ {"ReconcileFailed"}]))

PlanReconcileOpen ==
  /\ ~plan.deleting /\ ~PlanStatusShowsCompleted(plan)
  /\ PlanReconcileStarts
  /\ \E st \in GetMigrationStatus \ {"completed"}, now \in GetMigrationStatus : \E knows \in [VMs -> BOOLEAN] :
       LET source == [v \in VMs |-> CreateStatusVM(v, st, knows[v])]
           p == Validated([plan EXCEPT !.fin = TRUE], st, VMs, source)
       IN  /\ \A v \in VMs : knows[v] \in VolumeUpdateState(v)
           \* validatePVCs indexes the sources of every ready entry
           /\ \A v \in VMs : p.list[v] = "ready" => p.rec[v] # "none"
           /\ AfterValidation(Checked(p, now))

\* An API call of the validation fails, before the lists are reset or after
\* the VMs in seen were handled: what there is of the status is written.
PlanReconcileFails ==
  /\ "planError" \in Env
  /\ ~plan.deleting /\ ~PlanStatusShowsCompleted(plan)
  /\ PlanReconcileStarts
  /\ \E st \in GetMigrationStatus : \E seen \in SUBSET VMs : \E knows \in [VMs -> BOOLEAN] :
       LET read == [plan EXCEPT !.fin = TRUE]
           source == [v \in VMs |-> CreateStatusVM(v, st, knows[v])]
       IN  \/ AfterValidation(SetReconcileFailed(read))
           \/ /\ st # "completed"
              /\ \A v \in VMs : knows[v] \in VolumeUpdateState(v)
              /\ AfterValidation(SetReconcileFailed(Validated(read, st, seen, source)))

-----------------------------------------------------------------------------
(* persistPlan *)

PersistPlanMeta ==
  LET p == [plan EXCEPT !.fin = pw.obj.fin, !.refresh = pw.obj.refresh]
  IN  /\ pw.pc = "meta"
      /\ \/ /\ PlanKey \in stale
            /\ pw' = IdlePlanWorker
            /\ UNCHANGED plan
         \/ /\ PlanKey \notin stale
            /\ p.deleting /\ ~p.fin
            /\ plan' = NoPlan
            /\ pw' = IdlePlanWorker
         \/ /\ PlanKey \notin stale
            /\ ~p.deleting \/ p.fin
            /\ plan' = p
            /\ pw' = IF planStatus(pw.obj) # planStatus(p) THEN [pw EXCEPT !.pc = "status"]
                     ELSE IdlePlanWorker
      /\ UNCHANGED <<mig, stale, mw, clusterVars>>

PersistPlanStatus ==
  /\ pw.pc = "status"
  /\ plan' = IF PlanKey \in stale THEN plan ELSE pw.obj
  /\ pw' = IdlePlanWorker
  /\ UNCHANGED <<mig, stale, mw, clusterVars>>

PlanReconcile ==
  \/ PlanReconcileDeleting
  \/ PlanReconcileCompleted
  \/ PlanReconcileOpen
  \/ PlanReconcileFails

PlanWorkerStep == PersistPlanMeta \/ PersistPlanStatus

PlanInit ==
  /\ plan = [NoPlan EXCEPT !.exists = TRUE]
  /\ pw = IdlePlanWorker
=============================================================================
