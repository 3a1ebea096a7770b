----------------------- MODULE MigrationLifecycleProofs -----------------------
(***************************************************************************)
(* The system implements MigrationLifecycle, for every set of VMs and      *)
(* migrations, overlapping ones too, both retention policies and every     *)
(* environment.                                                            *)
(***************************************************************************)
EXTENDS MigrationRecordProofs

-----------------------------------------------------------------------------
(* The worker's copy and the status it may become *)

\* The worker runs the task of a phase.
Busy == mw.pc \in TaskPhases \cup SwapPCs

\* The worker is about to write its copy, and can.
Writing == mw.pc \in {"meta", "status"} /\ mw.m \notin stale

\* The VMs that name their target.
OnTarget == {v \in VMs : vm[v].spec = "tgt"}

SameStatus(x, o) ==
  o.running = x.running /\ o.completed = x.completed /\ o.cancelled = x.cancelled

\* The ways a migration x may be written back as o while the VMs in on are on
\* their targets: the phases of the refresh, the swap of VMs, their
\* completion, the two ends and a cancel.
Refreshes(x, o) ==
  /\ SameStatus(x, o)
  /\ Stage(x.phase) = "waiting" /\ Stage(o.phase) \in {"waiting", "swapping"}

Swaps(on, x, o) ==
  /\ o.completed = x.completed /\ o.cancelled = x.cancelled /\ x.running \subseteq o.running
  /\ o.running \ x.running \subseteq on
  /\ x.phase = "BeginLiveMigration"
  /\ o.phase \in {"BeginLiveMigration", "WaitForLiveMigrationToComplete"}

Advances(x, o) ==
  /\ o.cancelled = x.cancelled
  /\ x.phase = "WaitForLiveMigrationToComplete"
  /\ \E done \in SUBSET x.running :
       /\ o.completed = x.completed \cup done
       /\ \/ o.running = x.running /\ o.phase = x.phase
          \/ /\ o.running = x.running \ done
             /\ o.phase = IF x.running = done THEN "CleanupMigrationResources" ELSE x.phase

Ends(x, o) ==
  /\ SameStatus(x, o)
  /\ \/ x.phase = "CleanupMigrationResources" /\ o.phase = "Completed"
     \/ x.phase = "CleanupCancelledMigrations" /\ o.phase = "Canceled"

Cancellable(x) ==
  x.deleting /\ x.phase \notin {"Absent", "Gone", "Completed", "CleanupCancelledMigrations", "Canceled"}

Cancels(on, x, o) ==
  /\ Cancellable(x)
  /\ \/ SameStatus(x, o) /\ o.phase = "Canceling"
     \/ \E back \in SUBSET (x.running \ on) :
          /\ o.running = x.running \ back /\ o.cancelled = back /\ o.completed = x.completed
          /\ o.phase = IF x.running = back THEN "CleanupCancelledMigrations" ELSE "Canceling"

Follows(on, x, o) ==
  \/ SameStatus(x, o) /\ o.phase = x.phase
  \/ Refreshes(x, o)
  \/ Swaps(on, x, o)
  \/ Advances(x, o)
  \/ Ends(x, o)
  \/ Cancels(on, x, o)

-----------------------------------------------------------------------------
(* The inductive invariant *)

\* A deleted migration has its finalizer, and only deleted ones are cancelled.
MarkedInv ==
  \A m \in Migs : /\ mig[m].deleting /\ mig[m].phase # "Gone" => mig[m].fin
                  /\ mig[m].phase \in CancelingPhases => mig[m].deleting

\* Only the worker writes lists, so those of the object are still the ones it
\* read; VMs it added are on their targets, VMs it took off on their sources.
TaskInv ==
  Busy =>
    /\ mw.obj.completed = mig[mw.m].completed /\ mw.obj.cancelled = mig[mw.m].cancelled
    /\ mig[mw.m].running \subseteq mw.obj.running
    /\ mw.pc \notin SwapPCs => mw.obj.running = mig[mw.m].running
    /\ mw.obj.running \ mig[mw.m].running \subseteq OnTarget
    /\ mw.pc = "offlineMigrateVM" => mw.at \in OnTarget
    /\ mw.pc = "Started" => mig[mw.m].phase \in {"", "Started", "Gone"}
    /\ mw.pc = "Canceling" =>
         /\ Cancellable(mig[mw.m])
         /\ OnTarget \cap mw.obj.running \subseteq mw.todo \cup mw.kept
    /\ mw.pc = "CleanupCancelledMigrations" =>
         mig[mw.m].deleting /\ mig[mw.m].phase = "CleanupCancelledMigrations"
    /\ mw.m \notin stale => mw.obj.deleting = mig[mw.m].deleting /\ mw.obj.fin = mig[mw.m].fin

\* A copy that can be written is a next status of its object, and drops the
\* finalizer of a deleted one only at an end.
WriteInv ==
  Writing =>
    /\ Follows(OnTarget, mig[mw.m], mw.obj)
    /\ mw.obj.deleting = mig[mw.m].deleting
    /\ mw.pc = "status" => mw.obj.fin = mig[mw.m].fin
    /\ mw.obj.deleting /\ ~mw.obj.fin =>
         mig[mw.m].phase \in {"CleanupMigrationResources", "Completed", "Canceled"}

LifecycleInv == MarkedInv /\ TaskInv /\ WriteInv

-----------------------------------------------------------------------------
(* How the migrations and the worker change *)

\* Persisting a copy: its metadata when they differ, else its status.
LEMMA ToPersistWrites ==
  ASSUME NEW m \in Migs, NEW o \in MigObj, mw' = ToPersist(m, o)
  PROVE  \/ mw' = IdleWorker /\ mw'.pc = "idle"
         \/ /\ mw'.pc \in {"meta", "status"} /\ mw'.m = m /\ mw'.obj = o
            /\ mw'.pc = "status" => o.fin = mig[m].fin
<1>1. meta(o) = meta(mig[m]) => o.fin = mig[m].fin
  BY DEF meta
<1>. QED BY <1>1 DEF ToPersist, IdleWorker

\* The three ways the owner of a migration changes it.
LEMMA OwnerMarks ==
  ASSUME TypeInv, NEW m \in Migs, CreateMigration(m) \/ DeleteMigration(m) \/ CollectGarbage(m)
  PROVE  /\ UNCHANGED <<plan, mw, vm, claim>>
         /\ \A n \in Migs : n # m => mig'[n] = mig[n] /\ (n \in stale' <=> n \in stale)
         /\ SameStatus(mig[m], mig'[m]) /\ mig'[m].fin = mig[m].fin
         /\ \/ mig[m].phase = "Absent" /\ mig'[m].phase = "" /\ mig'[m].deleting = mig[m].deleting
               /\ stale' = stale
            \/ /\ Exists(m) /\ ~mig[m].deleting /\ m \in stale'
               /\ \/ mig[m].fin /\ mig'[m].phase = mig[m].phase /\ mig'[m].deleting
                  \/ ~mig[m].fin /\ mig'[m].phase = "Gone" /\ ~mig'[m].deleting
<1>1. mig \in [Migs -> MigObj] /\ mig[m] \in MigObj
  BY DEF TypeInv, TypeOK
<1>2. CASE CreateMigration(m)
  BY <1>1, <1>2 DEF CreateMigration, MigObj, SameStatus, clusterVars
<1>3. CASE DeleteMigration(m) \/ CollectGarbage(m)
  <2>1. MarkDeleted(m) /\ UNCHANGED <<plan, mw, vm, claim>>
    BY <1>3 DEF DeleteMigration, CollectGarbage, clusterVars
  <2>2. /\ \A n \in Migs : n # m => mig'[n] = mig[n]
        /\ mig'[m] = IF mig[m].fin THEN [mig[m] EXCEPT !.deleting = TRUE]
                     ELSE [mig[m] EXCEPT !.phase = "Gone"]
        /\ Exists(m) /\ ~mig[m].deleting /\ stale' = stale \cup {m}
    BY <1>1, <2>1 DEF MarkDeleted
  <2>. QED BY <1>1, <2>1, <2>2 DEF MigObj, SameStatus
<1>. QED BY <1>2, <1>3

\* The first write: the finalizer, with which a deleted migration may go.
LEMMA MetaWritten ==
  ASSUME TypeInv, PersistMeta
  PROVE  /\ mw.pc = "meta" /\ mw.m \in Migs /\ UNCHANGED <<plan, stale, vm, claim>>
         /\ \A n \in Migs : n # mw.m => mig'[n] = mig[n]
         /\ SameStatus(mig[mw.m], mig'[mw.m]) /\ mig'[mw.m].deleting = mig[mw.m].deleting
         /\ \/ mig' = mig /\ mw' = IdleWorker
            \/ /\ mw.m \notin stale /\ mw' = IdleWorker
               /\ mig'[mw.m].phase = "Gone" /\ ~mw.obj.fin /\ mig[mw.m].deleting
            \/ /\ mw.m \notin stale /\ mig'[mw.m].phase = mig[mw.m].phase
               /\ mig'[mw.m].fin = mw.obj.fin /\ (mw.obj.fin \/ ~mig[mw.m].deleting)
               /\ mw' = IdleWorker \/ (mw'.pc = "status" /\ mw'.m = mw.m /\ mw'.obj = mw.obj)
<1>. DEFINE o == [mig[mw.m] EXCEPT !.fin = mw.obj.fin, !.owned = mw.obj.owned]
<1>1. mw.pc = "meta" /\ mw.m \in Migs /\ mig \in [Migs -> MigObj] /\ mig[mw.m] \in MigObj /\ mw \in Worker
  BY DEF PersistMeta, TypeInv, TypeOK
<1>2. /\ SameStatus(mig[mw.m], o) /\ o.deleting = mig[mw.m].deleting /\ o.phase = mig[mw.m].phase
      /\ o.fin = mw.obj.fin
      /\ [o EXCEPT !.phase = "Gone"].phase = "Gone" /\ [o EXCEPT !.phase = "Gone"].deleting = o.deleting
      /\ SameStatus(mig[mw.m], [o EXCEPT !.phase = "Gone"])
  BY <1>1 DEF MigObj, SameStatus
<1>3. UNCHANGED <<plan, stale, vm, claim>>
  BY DEF PersistMeta, clusterVars
<1>4. \/ mig' = mig /\ mw' = IdleWorker
      \/ /\ mw.m \notin stale /\ mw' = IdleWorker /\ ~o.fin /\ o.deleting
         /\ mig' = [mig EXCEPT ![mw.m] = [o EXCEPT !.phase = "Gone"]]
      \/ /\ mw.m \notin stale /\ (o.fin \/ ~o.deleting)
         /\ mig' = [mig EXCEPT ![mw.m] = o]
         /\ mw' = IdleWorker \/ mw' = [mw EXCEPT !.pc = "status"]
  BY DEF PersistMeta
<1>5. LET w == [mw EXCEPT !.pc = "status"] IN w.pc = "status" /\ w.m = mw.m /\ w.obj = mw.obj
  BY <1>1 DEF Worker
<1>. HIDE DEF o
<1>6. CASE mig' = mig /\ mw' = IdleWorker
  BY <1>1, <1>3, <1>6 DEF SameStatus
<1>7. CASE /\ mw.m \notin stale /\ mw' = IdleWorker /\ ~o.fin /\ o.deleting
           /\ mig' = [mig EXCEPT ![mw.m] = [o EXCEPT !.phase = "Gone"]]
  BY <1>1, <1>2, <1>3, <1>7
<1>8. CASE /\ mw.m \notin stale /\ (o.fin \/ ~o.deleting)
           /\ mig' = [mig EXCEPT ![mw.m] = o]
           /\ mw' = IdleWorker \/ mw' = [mw EXCEPT !.pc = "status"]
  BY <1>1, <1>2, <1>3, <1>5, <1>8
<1>. QED BY <1>4, <1>6, <1>7, <1>8

\* The second write: the copy as it is.
LEMMA StatusWritten ==
  ASSUME TypeInv, PersistStatus
  PROVE  /\ mw.pc = "status" /\ mw.m \in Migs /\ UNCHANGED <<plan, stale, vm, claim>> /\ mw' = IdleWorker
         /\ \A n \in Migs : n # mw.m => mig'[n] = mig[n]
         /\ IF mw.m \in stale THEN mig' = mig ELSE mig'[mw.m] = mw.obj
<1>1. mw.pc = "status" /\ mw.m \in Migs /\ mig \in [Migs -> MigObj]
  BY DEF PersistStatus, TypeInv, TypeOK
<1>. QED BY <1>1 DEF PersistStatus, clusterVars

\* An idle worker, or one that is down, has nothing to keep.
LEMMA IdleInv ==
  ASSUME MarkedInv', mw'.pc \in {"idle", "down"}
  PROVE  LifecycleInv'
BY DEF LifecycleInv, TaskInv, WriteInv, Busy, Writing, TaskPhases, Phases, SwapPCs

\* Steps that leave the migrations, the worker and the VMs' volumes alone.
LEMMA BystanderInv ==
  ASSUME TypeInv, LifecycleInv, UNCHANGED mw, OnTarget' = OnTarget,
         \A n \in Migs : mig'[n] = mig[n] /\ (n \in stale' <=> n \in stale)
  PROVE  LifecycleInv'
<1>1. Busy \/ mw.pc \in {"meta", "status"} => mw.m \in Migs
  BY DEF TypeInv, Busy, Writing, TaskPhases, Phases, SwapPCs
<1>2. MarkedInv'
  BY DEF LifecycleInv, MarkedInv
<1>3. TaskInv'
  BY <1>1 DEF LifecycleInv, TaskInv, Busy
<1>4. ASSUME Writing' PROVE Writing /\ mig'[mw.m] = mig[mw.m]
  BY <1>1, <1>4 DEF Writing
<1>5. WriteInv'
  BY <1>4 DEF LifecycleInv, WriteInv
<1>. QED BY <1>2, <1>3, <1>5 DEF LifecycleInv

\* A migration is created, marked or removed while the worker may be at it.
LEMMA OwnerInv ==
  ASSUME TypeInv, LifecycleInv, NEW m \in Migs,
         CreateMigration(m) \/ DeleteMigration(m) \/ CollectGarbage(m),
         FinalizerInv, CopyInv
  PROVE  LifecycleInv'
<1>1. /\ UNCHANGED <<mw, vm>>
      /\ \A n \in Migs : n # m => mig'[n] = mig[n] /\ (n \in stale' <=> n \in stale)
      /\ SameStatus(mig[m], mig'[m]) /\ mig'[m].fin = mig[m].fin
      /\ \/ mig[m].phase = "Absent" /\ mig'[m].phase = "" /\ mig'[m].deleting = mig[m].deleting
            /\ stale' = stale
         \/ /\ Exists(m) /\ ~mig[m].deleting /\ m \in stale'
            /\ \/ mig[m].fin /\ mig'[m].phase = mig[m].phase /\ mig'[m].deleting
               \/ ~mig[m].fin /\ mig'[m].phase = "Gone" /\ ~mig'[m].deleting
  BY OwnerMarks
<1>2. Busy \/ mw.pc \in {"meta", "status"} => mw.m \in Migs
  BY DEF TypeInv, Busy, Writing, TaskPhases, Phases, SwapPCs
<1>3. OnTarget' = OnTarget
  BY <1>1 DEF OnTarget
<1>4. MarkedInv'
  BY <1>1 DEF LifecycleInv, MarkedInv, CancelingPhases, CancelPhases
<1>5. ASSUME Busy, mw.m = m, mig[m].phase = "Absent" PROVE FALSE
  <2>1. mw.pc \in OwnPhasePCs \/ mw.pc \in {"Started", "Canceling"}
    BY <1>5 DEF Busy, OwnPhasePCs
  <2>2. mw.pc \in OwnPhasePCs => mw.obj.phase # "Absent"
    BY DEF CopyInv, TaskOfPhase, OwnPhasePCs, TaskPhases, SwapPCs
  <2>. QED BY <1>5, <2>1, <2>2 DEF FinalizerInv, LifecycleInv, TaskInv, Cancellable
<1>6. TaskInv'
  <2>1. CASE mw.m # m
    BY <1>1, <1>2, <1>3, <2>1 DEF LifecycleInv, TaskInv, Busy
  <2>2. CASE mw.m = m
    <3>. SUFFICES ASSUME Busy PROVE TaskInv'
      BY <1>1 DEF TaskInv, Busy
    <3>1. Exists(m) /\ ~mig[m].deleting /\ m \in stale'
      BY <1>1, <1>5, <2>2
    <3>2. mw.pc # "Canceling" /\ mw.pc # "CleanupCancelledMigrations"
      BY <2>2, <3>1 DEF LifecycleInv, TaskInv, Cancellable
    <3>. QED BY <1>1, <1>3, <2>2, <3>1, <3>2 DEF LifecycleInv, TaskInv, SameStatus, Exists
  <2>. QED BY <2>1, <2>2
<1>7. WriteInv'
  <2>1. CASE mw.m # m
    <3>1. ASSUME Writing' PROVE Writing /\ mig'[mw.m] = mig[mw.m]
      BY <1>1, <1>2, <2>1, <3>1 DEF Writing
    <3>. QED BY <1>1, <1>3, <3>1 DEF LifecycleInv, WriteInv
  <2>2. CASE mw.m = m /\ Writing'
    <3>1. mig[m].phase = "Absent" /\ Writing
      BY <1>1, <2>2 DEF Writing
    <3>2. Current
      BY <3>1 DEF Writing, Current
    <3>. QED BY <2>2, <3>1, <3>2 DEF CopyInv, CopyAhead, Exists
  <2>. QED BY <2>1, <2>2 DEF WriteInv
<1>. QED BY <1>4, <1>6, <1>7 DEF LifecycleInv

\* The end of a task.
LEMMA ReturnInv ==
  ASSUME TypeInv, LifecycleInv, Busy, UNCHANGED <<mig, vm>>,
         \A n \in Migs : n \in stale' <=> n \in stale,
         NEW o \in MigObj, Return(o),
         mw.m \notin stale => Follows(OnTarget, mig[mw.m], o),
         o.deleting = mw.obj.deleting,
         o.fin = mw.obj.fin \/ o.fin \/ mig[mw.m].phase = "CleanupMigrationResources",
         mw.m \notin stale => mig[mw.m].phase # "Gone"
  PROVE  LifecycleInv'
<1>1. mw.m \in Migs
  BY DEF TypeInv, Busy, TaskPhases, Phases, SwapPCs
<1>2. MarkedInv'
  BY DEF LifecycleInv, MarkedInv
<1>3. \/ mw' = IdleWorker /\ mw'.pc = "idle"
      \/ /\ mw'.pc \in {"meta", "status"} /\ mw'.m = mw.m /\ mw'.obj = o
         /\ mw'.pc = "status" => o.fin = mig[mw.m].fin
  BY <1>1, ToPersistWrites DEF Return
<1>4. CASE mw'.pc = "idle"
  BY <1>2, <1>4, IdleInv
<1>5. CASE /\ mw'.pc \in {"meta", "status"} /\ mw'.m = mw.m /\ mw'.obj = o
           /\ mw'.pc = "status" => o.fin = mig[mw.m].fin
  <2>1. ~Busy'
    BY <1>5 DEF Busy, TaskPhases, Phases, SwapPCs
  <2>2. OnTarget' = OnTarget
    BY DEF OnTarget
  <2>3. Writing' => mw.m \notin stale
    BY <1>1, <1>5 DEF Writing
  <2>4. ASSUME mw.m \notin stale
        PROVE  /\ mw.obj.deleting = mig[mw.m].deleting /\ mw.obj.fin = mig[mw.m].fin
               /\ o.deleting /\ ~o.fin => mig[mw.m].phase = "CleanupMigrationResources"
    BY <1>1, <2>4 DEF LifecycleInv, TaskInv, MarkedInv
  <2>5. WriteInv'
    BY <1>5, <2>2, <2>3, <2>4 DEF WriteInv
  <2>. QED BY <1>2, <2>1, <2>5 DEF LifecycleInv, TaskInv
<1>. QED BY <1>3, <1>4, <1>5

\* A worker that can still write its copy works in the phase of the object.
LEMMA InOwnPhase ==
  ASSUME CopyInv, FinalizerInv, LifecycleInv, Busy, mw.m \notin stale
  PROVE  /\ mig[mw.m].phase \notin {"Absent", "Gone"}
         /\ mw.pc \notin {"Started", "Canceling"} => mig[mw.m].phase = mw.obj.phase
<1>1. Current
  BY DEF Current, Busy, TaskPhases, Phases, SwapPCs
<1>2. Exists(mw.m)
  BY <1>1 DEF CopyInv, CopyAhead
<1>. QED BY <1>2 DEF FinalizerInv, OwnPhasePCs, Busy, Exists

\* Reading a migration and picking its task.
LEMMA ReadInv ==
  ASSUME TypeInv, LifecycleInv, NEW m \in Migs, Reconcile(m)
  PROVE  LifecycleInv'
<1>. DEFINE owned == [mig[m] EXCEPT !.owned = @ \/ plan.exists]
            over == [mig[m] EXCEPT !.fin = FALSE]
<1>1. mig[m] \in MigObj /\ plan \in PlanObj
  BY DEF TypeInv, TypeOK
<1>2. /\ owned \in MigObj /\ SameStatus(mig[m], owned) /\ owned.phase = mig[m].phase
      /\ owned.fin = mig[m].fin /\ owned.deleting = mig[m].deleting
  BY <1>1 DEF MigObj, PlanObj, SameStatus
<1>3. /\ over \in MigObj /\ SameStatus(mig[m], over) /\ over.phase = mig[m].phase
      /\ over.deleting = mig[m].deleting
  BY <1>1 DEF MigObj, SameStatus
<1>4. /\ UNCHANGED <<mig, plan, vm>> /\ Exists(m) /\ stale' = stale \ {m}
  BY DEF Reconcile, clusterVars
<1>5. MarkedInv' /\ MarkedInv
  BY <1>4 DEF LifecycleInv, MarkedInv
<1>6. ASSUME NEW o \in MigObj, mw' = ToPersist(m, o), SameStatus(mig[m], o), o.phase = mig[m].phase,
             o.deleting = mig[m].deleting, o.fin = mig[m].fin \/ mig[m].phase \in OverPhases
      PROVE  LifecycleInv'
  <2>1. \/ mw' = IdleWorker /\ mw'.pc = "idle"
        \/ /\ mw'.pc \in {"meta", "status"} /\ mw'.m = m /\ mw'.obj = o
           /\ mw'.pc = "status" => o.fin = mig[m].fin
    BY <1>6, ToPersistWrites
  <2>2. CASE mw'.pc = "idle"
    BY <1>5, <2>2, IdleInv
  <2>3. CASE /\ mw'.pc \in {"meta", "status"} /\ mw'.m = m /\ mw'.obj = o
             /\ mw'.pc = "status" => o.fin = mig[m].fin
    <3>1. ~Busy'
      BY <2>3 DEF Busy, TaskPhases, Phases, SwapPCs
    <3>2. Follows(OnTarget', mig[m], o)
      BY <1>6 DEF Follows
    <3>3. o.deleting /\ ~o.fin => mig[m].phase \in {"Completed", "Canceled"}
      BY <1>4, <1>5, <1>6 DEF MarkedInv, Exists, OverPhases
    <3>4. WriteInv'
      BY <1>4, <1>6, <2>3, <3>2, <3>3 DEF WriteInv
    <3>. QED BY <1>5, <3>1, <3>4 DEF LifecycleInv, TaskInv
  <2>. QED BY <2>1, <2>2, <2>3
<1>7. ASSUME mig[m].phase \notin OverPhases,
             mw' = [IdleWorker EXCEPT !.pc = TaskPhase(owned), !.m = m, !.obj = [owned EXCEPT !.phase = TaskPhase(owned)],
                      !.sources = ReadSources, !.sourcesDone = ReadCompleted,
                      !.todo = LoopOver([owned EXCEPT !.phase = TaskPhase(owned)], ReadSources)]
      PROVE  LifecycleInv'
  <2>. DEFINE o == [owned EXCEPT !.phase = TaskPhase(owned)]
  <2>1. /\ mw'.pc = TaskPhase(owned) /\ mw'.m = m /\ mw'.obj = o
        /\ mw'.todo = LoopOver(o, ReadSources) /\ mw'.kept = {}
    BY <1>7 DEF IdleWorker
  <2>2. /\ SameStatus(mig[m], o) /\ o.phase = TaskPhase(owned)
        /\ o.fin = mig[m].fin /\ o.deleting = mig[m].deleting
    BY <1>2 DEF MigObj, SameStatus
  <2>3. /\ TaskPhase(owned) = "Started" => mig[m].phase \in {"", "Started"}
        /\ TaskPhase(owned) = "Canceling" => Cancellable(mig[m])
        /\ TaskPhase(owned) = "CleanupCancelledMigrations" =>
             mig[m].deleting /\ mig[m].phase = "CleanupCancelledMigrations"
        /\ TaskPhase(owned) \in TaskPhases
    <3>. HIDE DEF owned
    <3>1. mig[m].phase \in CancelingPhases => mig[m].deleting
      BY <1>5 DEF MarkedInv
    <3>2. mig[m].phase \in Phases \ {"Absent", "Gone", "Completed", "Canceled"}
      BY <1>1, <1>4, <1>7 DEF Exists, OverPhases, MigObj
    <3>. QED BY <1>2, <3>1, <3>2 DEF TaskPhase, Cancellable, CancelingPhases, CancelPhases, TaskPhases, Phases
  <2>4. TaskPhase(owned) = "Canceling" => mw'.todo = o.running
    BY <2>1, <2>2 DEF LoopOver
  <2>5. mw'.pc \in TaskPhases /\ mw'.pc # "offlineMigrateVM"
    BY <2>1, <2>3 DEF TaskPhases, Phases
  <2>. HIDE DEF o, owned
  <2>6. TaskInv'
    BY <1>4, <2>1, <2>2, <2>3, <2>4, <2>5 DEF TaskInv, SameStatus
  <2>7. ~Writing'
    BY <2>5 DEF Writing, TaskPhases, Phases
  <2>. QED BY <1>5, <2>6, <2>7 DEF LifecycleInv, WriteInv
<1>8. \/ mig[m].phase \in OverPhases /\ mw' = ToPersist(m, over)
      \/ mw' = ToPersist(m, owned)
      \/ /\ mig[m].phase \notin OverPhases
         /\ mw' = [IdleWorker EXCEPT !.pc = TaskPhase(owned), !.m = m, !.obj = [owned EXCEPT !.phase = TaskPhase(owned)],
                      !.sources = ReadSources, !.sourcesDone = ReadCompleted,
                      !.todo = LoopOver([owned EXCEPT !.phase = TaskPhase(owned)], ReadSources)]
  <2>1. [owned EXCEPT !.phase = TaskPhase(owned)].phase = TaskPhase(owned)
    BY <1>2 DEF MigObj
  <2>. QED BY <2>1 DEF Reconcile
<1>. HIDE DEF owned, over
<1>. QED BY <1>2, <1>3, <1>6, <1>7, <1>8

\* The two writes.
LEMMA WriteKeepsInv ==
  ASSUME TypeInv, CopyInv, LifecycleInv, PersistMeta \/ PersistStatus
  PROVE  LifecycleInv'
<1>0. mw.m \in Migs => mig[mw.m] \in MigObj
  BY DEF TypeInv, TypeOK
<1>1. CASE PersistMeta
  <2>1. /\ mw.pc = "meta" /\ mw.m \in Migs /\ UNCHANGED <<plan, stale, vm, claim>>
        /\ \A n \in Migs : n # mw.m => mig'[n] = mig[n]
        /\ SameStatus(mig[mw.m], mig'[mw.m]) /\ mig'[mw.m].deleting = mig[mw.m].deleting
        /\ \/ mig' = mig /\ mw' = IdleWorker
           \/ /\ mw.m \notin stale /\ mw' = IdleWorker
              /\ mig'[mw.m].phase = "Gone" /\ ~mw.obj.fin /\ mig[mw.m].deleting
           \/ /\ mw.m \notin stale /\ mig'[mw.m].phase = mig[mw.m].phase
              /\ mig'[mw.m].fin = mw.obj.fin /\ (mw.obj.fin \/ ~mig[mw.m].deleting)
              /\ mw' = IdleWorker \/ (mw'.pc = "status" /\ mw'.m = mw.m /\ mw'.obj = mw.obj)
    BY <1>1, MetaWritten
  <2>2. MarkedInv'
    BY <2>1 DEF LifecycleInv, MarkedInv, CancelingPhases, CancelPhases
  <2>3. CASE mw' = IdleWorker
    BY <2>2, <2>3, IdleInv DEF IdleWorker
  <2>4. CASE /\ mw.m \notin stale /\ mig'[mw.m].phase = mig[mw.m].phase
             /\ mig'[mw.m].fin = mw.obj.fin /\ (mw.obj.fin \/ ~mig[mw.m].deleting)
             /\ mw'.pc = "status" /\ mw'.m = mw.m /\ mw'.obj = mw.obj
    <3>1. /\ Writing /\ Follows(OnTarget, mig[mw.m], mw.obj) /\ mw.obj.deleting = mig[mw.m].deleting
      BY <2>1, <2>4 DEF Writing, LifecycleInv, WriteInv
    <3>2. Follows(OnTarget, mig'[mw.m], mw.obj)
      BY <2>1, <2>4, <3>1 DEF Follows, SameStatus, Refreshes, Swaps, Advances, Ends, Cancels, Cancellable
    <3>3. OnTarget' = OnTarget
      BY <2>1 DEF OnTarget
    <3>4. WriteInv'
      BY <2>1, <2>4, <3>1, <3>2, <3>3 DEF WriteInv
    <3>5. ~Busy'
      BY <2>4 DEF Busy, TaskPhases, Phases, SwapPCs
    <3>. QED BY <2>2, <3>4, <3>5 DEF LifecycleInv, TaskInv
  <2>. QED BY <2>1, <2>3, <2>4
<1>2. CASE PersistStatus
  <2>1. /\ mw.pc = "status" /\ mw.m \in Migs /\ mw' = IdleWorker
        /\ \A n \in Migs : n # mw.m => mig'[n] = mig[n]
        /\ IF mw.m \in stale THEN mig' = mig ELSE mig'[mw.m] = mw.obj
    BY <1>2, StatusWritten
  <2>2. ASSUME mw.m \notin stale
        PROVE  /\ mw.obj.deleting => mw.obj.fin
               /\ mw.obj.phase \in CancelingPhases => mw.obj.deleting
    <3>1. /\ Follows(OnTarget, mig[mw.m], mw.obj) /\ mw.obj.deleting = mig[mw.m].deleting
          /\ mw.obj.fin = mig[mw.m].fin
      BY <2>1, <2>2 DEF Writing, LifecycleInv, WriteInv
    <3>2. mig[mw.m].phase # "Gone"
      BY <2>1, <2>2 DEF CopyInv, CopyAhead, Current, Exists
    <3>3. mig[mw.m].phase \in CancelingPhases => mig[mw.m].deleting
      BY <2>1 DEF LifecycleInv, MarkedInv
    <3>4. mw.obj.phase \in CancelingPhases => mig[mw.m].phase \in CancelingPhases \/ mig[mw.m].deleting
      BY <3>1 DEF Follows, SameStatus, Refreshes, Swaps, Advances, Ends, Cancels, Cancellable, Stage,
         CancelingPhases, CancelPhases
    <3>. QED BY <2>1, <3>1, <3>2, <3>3, <3>4 DEF LifecycleInv, MarkedInv
  <2>3. MarkedInv'
    BY <2>1, <2>2 DEF LifecycleInv, MarkedInv
  <2>. QED BY <2>1, <2>3, IdleInv DEF IdleWorker
<1>. QED BY <1>1, <1>2

\* The phases before BeginLiveMigration.
LEMMA RefreshInv ==
  ASSUME TypeInv, CopyInv, FinalizerInv, LifecycleInv, RunStarted \/ RunRefresh \/ RunWaitForRefresh
  PROVE  LifecycleInv'
<1>1. Busy /\ mw.obj.phase = mw.pc /\ UNCHANGED <<mig, vm>> /\ mw.pc \notin SwapPCs \cup {"Canceling"}
  BY DEF RunStarted, RunRefresh, RunWaitForRefresh, Busy, TaskPhases, Phases, SwapPCs, clusterVars,
     CopyInv, TaskOfPhase
<1>2. mw.obj \in MigObj /\ PlanKey \notin Migs
  BY ClusterAssumption DEF TypeInv, TypeOK, Worker, PlanKey
<1>3. \A n \in Migs : n \in stale' <=> n \in stale
  BY <1>2 DEF RunStarted, RunRefresh, RunWaitForRefresh
<1>4. PICK o \in MigObj :
        /\ Return(o) /\ SameStatus(mw.obj, o) /\ o.deleting = mw.obj.deleting
        /\ o.fin = mw.obj.fin \/ o.fin
        /\ Stage(mw.obj.phase) = "waiting" /\ Stage(o.phase) \in {"waiting", "swapping"}
  <2>1. ASSUME NEW f \in BOOLEAN, NEW p \in Phases, f \/ f = mw.obj.fin,
               Return([mw.obj EXCEPT !.fin = f, !.phase = p]),
               Stage(mw.obj.phase) = "waiting", Stage(p) \in {"waiting", "swapping"}
        PROVE  \E o \in MigObj :
                 /\ Return(o) /\ SameStatus(mw.obj, o) /\ o.deleting = mw.obj.deleting
                 /\ o.fin = mw.obj.fin \/ o.fin
                 /\ Stage(mw.obj.phase) = "waiting" /\ Stage(o.phase) \in {"waiting", "swapping"}
    <3>. DEFINE o == [mw.obj EXCEPT !.fin = f, !.phase = p]
    <3>1. o \in MigObj /\ SameStatus(mw.obj, o) /\ o.deleting = mw.obj.deleting /\ o.fin = f /\ o.phase = p
      BY <1>2, <2>1 DEF MigObj, SameStatus
    <3>. HIDE DEF o
    <3>2. Return(o)
      BY <2>1 DEF o
    <3>. QED BY <2>1, <3>1, <3>2
  <2>2. CASE RunStarted
    <3>1. /\ Return([mw.obj EXCEPT !.fin = TRUE, !.phase = "RefreshStorageMigrationPlan"])
          /\ mw.obj.phase = "Started"
      BY <1>1, <2>2 DEF RunStarted
    <3>. QED BY <2>1, <3>1 DEF Stage, Phases
  <2>3. CASE RunRefresh \/ RunWaitForRefresh
    <3>1. /\ mw.obj.phase \in {"RefreshStorageMigrationPlan", "WaitForStorageMigrationPlanRefreshCompletion"}
          /\ \E p \in {mw.obj.phase, "WaitForStorageMigrationPlanRefreshCompletion", "BeginLiveMigration"} :
               Return([mw.obj EXCEPT !.phase = p]) \/ (p = mw.obj.phase /\ Return(mw.obj))
      BY <1>1, <2>3 DEF RunRefresh, RunWaitForRefresh
    <3>2. PICK p \in {mw.obj.phase, "WaitForStorageMigrationPlanRefreshCompletion", "BeginLiveMigration"} :
               Return([mw.obj EXCEPT !.phase = p]) \/ (p = mw.obj.phase /\ Return(mw.obj))
      BY <3>1
    <3>3. /\ [mw.obj EXCEPT !.phase = p] = [mw.obj EXCEPT !.fin = mw.obj.fin, !.phase = p]
          /\ p = mw.obj.phase => mw.obj = [mw.obj EXCEPT !.fin = mw.obj.fin, !.phase = p]
      BY <1>2 DEF MigObj
    <3>4. Return([mw.obj EXCEPT !.fin = mw.obj.fin, !.phase = p])
      BY <3>2, <3>3
    <3>5. mw.obj.fin \in BOOLEAN /\ p \in Phases
      BY <1>2, <3>1 DEF MigObj, Phases
    <3>6. Stage(mw.obj.phase) = "waiting" /\ Stage(p) \in {"waiting", "swapping"}
      BY <3>1 DEF Stage
    <3>. QED BY <2>1, <3>4, <3>5, <3>6
  <2>. QED BY <2>2, <2>3
<1>5. ASSUME mw.m \notin stale PROVE Refreshes(mig[mw.m], o) /\ mig[mw.m].phase # "Gone"
  <2>1. SameStatus(mig[mw.m], mw.obj)
    BY <1>1 DEF LifecycleInv, TaskInv, SameStatus
  <2>2. Stage(mig[mw.m].phase) = "waiting" /\ mig[mw.m].phase # "Gone"
    <3>1. /\ mig[mw.m].phase # "Gone"
          /\ mw.pc # "Started" => mig[mw.m].phase = mw.obj.phase
      BY <1>1, <1>5, InOwnPhase
    <3>2. mw.pc = "Started" => mig[mw.m].phase \in {"", "Started", "Gone"}
      BY <1>1 DEF LifecycleInv, TaskInv
    <3>3. Stage("") = "waiting" /\ Stage("Started") = "waiting"
      BY DEF Stage
    <3>. QED BY <1>4, <3>1, <3>2, <3>3
  <2>. QED BY <1>4, <2>1, <2>2 DEF Refreshes, SameStatus
<1>6. mw.m \notin stale => Follows(OnTarget, mig[mw.m], o) /\ mig[mw.m].phase # "Gone"
  BY <1>5 DEF Follows
<1>. QED BY <1>1, <1>3, <1>4, <1>6, ReturnInv

\* The end of the loop that swaps.
LEMMA BeginEndsInv ==
  ASSUME TypeInv, CopyInv, FinalizerInv, LifecycleInv, BeginFails \/ BeginDone
  PROVE  LifecycleInv'
<1>1. mw.pc \in SwapPCs /\ Busy /\ UNCHANGED <<mig, vm, stale>> /\ mw.obj \in MigObj
  BY DEF BeginFails, BeginDone, SwapPCs, Busy, clusterVars, TypeInv, TypeOK, Worker
<1>2. mw.obj.phase = "BeginLiveMigration" /\ mig[mw.m].phase = "BeginLiveMigration"
  BY <1>1, SwapsInBegin
<1>3. PICK o \in MigObj :
        /\ Return(o) /\ SameStatus(mw.obj, o) /\ o.deleting = mw.obj.deleting /\ o.fin = mw.obj.fin
        /\ o.phase \in {"BeginLiveMigration", "WaitForLiveMigrationToComplete"}
  <2>. DEFINE p == [mw.obj EXCEPT !.phase = "WaitForLiveMigrationToComplete"]
  <2>1. /\ p \in MigObj /\ SameStatus(mw.obj, p) /\ p.deleting = mw.obj.deleting /\ p.fin = mw.obj.fin
        /\ p.phase = "WaitForLiveMigrationToComplete"
    BY <1>1 DEF MigObj, Phases, SameStatus
  <2>2. Return(mw.obj) \/ Return(p)
    BY DEF BeginFails, BeginDone
  <2>. HIDE DEF p
  <2>. QED BY <1>1, <1>2, <2>1, <2>2 DEF SameStatus
<1>4. Follows(OnTarget, mig[mw.m], o)
  BY <1>1, <1>2, <1>3 DEF Follows, Swaps, SameStatus, LifecycleInv, TaskInv
<1>. QED BY <1>1, <1>2, <1>3, <1>4, ReturnInv

\* A pass of the wait for the live migrations.
LEMMA WaitInv ==
  ASSUME TypeInv, CopyInv, FinalizerInv, LifecycleInv, RunWaitForLiveMigration
  PROVE  LifecycleInv'
<1>1. /\ mw.pc = "WaitForLiveMigrationToComplete" /\ Busy /\ UNCHANGED <<mig, vm, stale>> /\ mw.obj \in MigObj
      /\ mw.obj.phase = mw.pc /\ mw.pc \notin SwapPCs
  BY DEF RunWaitForLiveMigration, SwapPCs, Busy, TaskPhases, Phases, clusterVars, TypeInv, TypeOK, Worker,
     CopyInv, TaskOfPhase
<1>2. PICK done \in SUBSET mw.obj.running :
        LET left == mw.obj.running \ done
            o == [mw.obj EXCEPT !.completed = @ \cup done]
        IN  \/ Return([o EXCEPT !.running = left,
                                !.phase = IF left = {} THEN "CleanupMigrationResources" ELSE @])
            \/ Return(o)
  BY DEF RunWaitForLiveMigration
<1>. DEFINE a == [mw.obj EXCEPT !.completed = @ \cup done]
            b == [a EXCEPT !.running = mw.obj.running \ done,
                           !.phase = IF mw.obj.running \ done = {} THEN "CleanupMigrationResources" ELSE @]
<1>3. /\ a \in MigObj /\ a.deleting = mw.obj.deleting /\ a.fin = mw.obj.fin /\ a.running = mw.obj.running
      /\ a.cancelled = mw.obj.cancelled /\ a.completed = mw.obj.completed \cup done /\ a.phase = mw.obj.phase
  BY <1>1 DEF MigObj
<1>4. /\ b \in MigObj /\ b.deleting = mw.obj.deleting /\ b.fin = mw.obj.fin
      /\ b.running = mw.obj.running \ done
      /\ b.cancelled = mw.obj.cancelled /\ b.completed = mw.obj.completed \cup done
      /\ b.phase = IF mw.obj.running = done THEN "CleanupMigrationResources" ELSE mw.obj.phase
  <2>. HIDE DEF a
  <2>. DEFINE p == IF mw.obj.running = done THEN "CleanupMigrationResources" ELSE mw.obj.phase
  <2>1. p \in Phases
    BY <1>1 DEF Phases, MigObj
  <2>2. b = [a EXCEPT !.running = mw.obj.running \ done, !.phase = p]
    <3>1. mw.obj.running \ done = {} <=> mw.obj.running = done
      OBVIOUS
    <3>2. p = IF mw.obj.running \ done = {} THEN "CleanupMigrationResources" ELSE a.phase
      BY <1>3, <3>1
    <3>. HIDE DEF p
    <3>. QED BY <3>2
  <2>. HIDE DEF p, b
  <2>3. /\ b \in MigObj /\ b.deleting = a.deleting /\ b.fin = a.fin
        /\ b.running = mw.obj.running \ done
        /\ b.cancelled = a.cancelled /\ b.completed = a.completed /\ b.phase = p
    BY <1>1, <1>3, <2>1, <2>2 DEF MigObj
  <2>. QED BY <1>3, <2>3 DEF p
<1>5. Return(a) \/ Return(b)
  BY <1>2
<1>. HIDE DEF a, b
<1>6. ASSUME mw.m \notin stale
      PROVE  /\ mig[mw.m].phase # "Gone"
             /\ Follows(OnTarget, mig[mw.m], a) /\ Follows(OnTarget, mig[mw.m], b)
  <2>1. mig[mw.m].phase = mw.obj.phase
    BY <1>1, <1>6, InOwnPhase
  <2>2. SameStatus(mig[mw.m], mw.obj)
    BY <1>1 DEF LifecycleInv, TaskInv, SameStatus
  <2>3. Advances(mig[mw.m], a) /\ Advances(mig[mw.m], b)
    BY <1>1, <1>3, <1>4, <2>1, <2>2 DEF Advances, SameStatus
  <2>. QED BY <1>1, <2>1, <2>3 DEF Follows
<1>7. CASE Return(a)
  BY <1>1, <1>3, <1>6, <1>7, ReturnInv
<1>8. CASE Return(b)
  BY <1>1, <1>4, <1>6, <1>8, ReturnInv
<1>. QED BY <1>5, <1>7, <1>8

\* The two cleanups.
LEMMA CleanupInv ==
  ASSUME TypeInv, CopyInv, FinalizerInv, LifecycleInv,
         RunCleanupWaits \/ RunCleanupFails \/ RunCleanup \/ RunCleanupCancelled
  PROVE  LifecycleInv'
<1>1. /\ mw.pc \in {"CleanupMigrationResources", "CleanupCancelledMigrations"} /\ Busy
      /\ UNCHANGED <<mig, vm, stale>> /\ mw.obj \in MigObj
      /\ mw.obj.phase = mw.pc /\ mw.pc \notin SwapPCs \cup {"Started", "Canceling"}
  BY DEF RunCleanupWaits, RunCleanupFails, RunCleanup, RunCleanupCancelled, SwapPCs, Busy, TaskPhases,
     Phases, TypeInv, TypeOK, Worker, CopyInv, TaskOfPhase
<1>2. PICK o \in MigObj :
        /\ Return(o) /\ SameStatus(mw.obj, o) /\ o.deleting = mw.obj.deleting
        /\ \/ o.phase = mw.obj.phase /\ o.fin = mw.obj.fin
           \/ mw.obj.phase = "CleanupMigrationResources" /\ o.phase = "Completed"
           \/ mw.obj.phase = "CleanupCancelledMigrations" /\ o.phase = "Canceled" /\ o.fin = mw.obj.fin
  <2>. DEFINE a == [mw.obj EXCEPT !.fin = FALSE, !.phase = "Completed"]
              b == [mw.obj EXCEPT !.phase = "Canceled"]
  <2>1. /\ a \in MigObj /\ SameStatus(mw.obj, a) /\ a.deleting = mw.obj.deleting /\ a.phase = "Completed"
        /\ b \in MigObj /\ SameStatus(mw.obj, b) /\ b.deleting = mw.obj.deleting /\ b.phase = "Canceled"
        /\ b.fin = mw.obj.fin
    BY <1>1 DEF MigObj, Phases, SameStatus
  <2>2. [mw.obj EXCEPT !.phase = mw.obj.phase] = mw.obj
    BY <1>1 DEF MigObj
  <2>3. \/ Return(mw.obj)
        \/ Return(a) /\ mw.pc = "CleanupMigrationResources"
        \/ Return(b) /\ mw.pc = "CleanupCancelledMigrations"
    <3>1. CASE RunCleanupWaits \/ RunCleanupFails
      BY <3>1 DEF RunCleanupWaits, RunCleanupFails
    <3>2. CASE RunCleanup
      BY <3>2 DEF RunCleanup
    <3>3. CASE RunCleanupCancelled
      BY <2>2, <3>3 DEF RunCleanupCancelled
    <3>. QED BY <3>1, <3>2, <3>3
  <2>. HIDE DEF a, b
  <2>. QED BY <1>1, <2>1, <2>3 DEF SameStatus
<1>3. ASSUME mw.m \notin stale
      PROVE  Follows(OnTarget, mig[mw.m], o) /\ mig[mw.m].phase = mw.obj.phase
  <2>1. mig[mw.m].phase = mw.obj.phase
    BY <1>1, <1>3, InOwnPhase
  <2>2. SameStatus(mig[mw.m], mw.obj)
    BY <1>1 DEF LifecycleInv, TaskInv, SameStatus
  <2>. QED BY <1>2, <2>1, <2>2 DEF Follows, Ends, SameStatus
<1>4. CASE mw.m \notin stale
  BY <1>1, <1>2, <1>3, <1>4, ReturnInv
<1>5. CASE mw.m \in stale
  <2>1. mw.m \in Migs
    BY <1>1 DEF TypeInv
  <2>2. MarkedInv'
    BY <1>1 DEF LifecycleInv, MarkedInv
  <2>3. mw'.pc \in {"idle", "meta", "status"} /\ (mw'.pc # "idle" => mw'.m = mw.m)
    BY <1>2, <2>1, ToPersistType DEF Return
  <2>. QED BY <1>1, <1>5, <2>2, <2>3 DEF LifecycleInv, TaskInv, WriteInv, Busy, Writing, TaskPhases, Phases, SwapPCs
<1>. QED BY <1>4, <1>5

\* The loop that swaps goes on: the VMs it lists are on their targets.
LEMMA SwapLoopInv ==
  ASSUME TypeInv, CopyInv, LifecycleInv, NEW v \in VMs,
         BeginSkipVM(v) \/ LiveMigrateCreateDV(v) \/ OfflineMigrateSwap(v)
           \/ LiveMigrateSwap \/ OfflineMigrateCreateDV
  PROVE  LifecycleInv'
<1>1. mw \in Worker /\ vm \in [VMs -> VMType] /\ mw.obj \in MigObj
  BY DEF TypeInv, TypeOK, ClusterTypeOK, Worker
<1>2. mw.pc \in SwapPCs /\ UNCHANGED <<mig, stale>> /\ Busy
  BY DEF BeginSkipVM, LiveMigrateCreateDV, OfflineMigrateSwap, LiveMigrateSwap, OfflineMigrateCreateDV,
     SwapPCs, Busy
<1>3. mw.pc = "liveMigrateVM" \/ mw.pc = "offlineMigrateVM" => mw.at \in VMs
  BY DEF TypeInv
<1>4. /\ mw'.pc \in SwapPCs /\ mw'.m = mw.m
      /\ mw'.obj.completed = mw.obj.completed /\ mw'.obj.cancelled = mw.obj.cancelled
      /\ mw'.obj.fin = mw.obj.fin /\ mw'.obj.deleting = mw.obj.deleting
      /\ mw.obj.running \subseteq mw'.obj.running
      /\ OnTarget \subseteq OnTarget'
      /\ mw'.obj.running \ mw.obj.running \subseteq OnTarget'
      /\ mw'.pc = "offlineMigrateVM" => mw'.at \in OnTarget'
  <2>1. CASE BeginSkipVM(v) \/ LiveMigrateCreateDV(v)
    <3>1. /\ UNCHANGED vm
          /\ \/ mw' = [mw EXCEPT !.todo = @ \ {v}] /\ mw.pc = "BeginLiveMigration"
             \/ mw' = [mw EXCEPT !.pc = "liveMigrateVM", !.at = v]
      BY <2>1 DEF BeginSkipVM, LiveMigrateCreateDV, clusterVars
    <3>2. mw'.pc \in SwapPCs \ {"offlineMigrateVM"} /\ mw'.m = mw.m /\ mw'.obj = mw.obj
      BY <1>1, <3>1 DEF Worker, SwapPCs
    <3>. QED BY <3>1, <3>2 DEF OnTarget
  <2>2. CASE OfflineMigrateSwap(v)
    <3>1. mw' = [mw EXCEPT !.pc = "offlineMigrateVM", !.at = v] /\ vm' = [vm EXCEPT ![v].spec = "tgt", ![v].strategy = @ \/ FALSE]
      BY <2>2 DEF OfflineMigrateSwap, PatchVM
    <3>2. mw'.pc = "offlineMigrateVM" /\ mw'.m = mw.m /\ mw'.obj = mw.obj /\ mw'.at = v
      BY <1>1, <3>1 DEF Worker
    <3>3. OnTarget' = OnTarget \cup {v}
      BY <1>1, <3>1 DEF OnTarget, VMType
    <3>. QED BY <3>2, <3>3 DEF SwapPCs
  <2>3. CASE LiveMigrateSwap \/ OfflineMigrateCreateDV
    <3>1. mw.at \in VMs /\ mw' = Swapped(mw.at)
      BY <1>3, <2>3 DEF LiveMigrateSwap, OfflineMigrateCreateDV
    <3>2. /\ mw'.pc = "BeginLiveMigration" /\ mw'.m = mw.m
          /\ mw'.obj = [mw.obj EXCEPT !.running = @ \cup {mw.at}]
      BY <1>1, <3>1 DEF Worker, Swapped
    <3>3. OnTarget' = OnTarget \cup {mw.at}
      <4>1. CASE LiveMigrateSwap
        <5>1. vm' = [vm EXCEPT ![mw.at].spec = "tgt", ![mw.at].strategy = @ \/ TRUE]
          BY <4>1 DEF LiveMigrateSwap, PatchVM
        <5>. QED BY <1>1, <3>1, <5>1 DEF OnTarget, VMType
      <4>2. CASE OfflineMigrateCreateDV
        BY <1>2, <4>2 DEF OfflineMigrateCreateDV, LifecycleInv, TaskInv, OnTarget
      <4>. QED BY <2>3, <4>1, <4>2
    <3>. QED BY <1>1, <3>2, <3>3 DEF SwapPCs, MigObj
  <2>. QED BY <2>1, <2>2, <2>3
<1>5. MarkedInv'
  BY <1>2 DEF LifecycleInv, MarkedInv
<1>6. ~Writing'
  BY <1>4 DEF Writing, SwapPCs
<1>7. TaskInv'
  BY <1>2, <1>4 DEF LifecycleInv, TaskInv, SwapPCs
<1>. QED BY <1>5, <1>6, <1>7 DEF LifecycleInv, WriteInv

\* The loop of a cancel goes on: the VMs it is through with are on their
\* sources, those it waits for apart.
LEMMA CancelLoopInv ==
  ASSUME TypeInv, CopyInv, LifecycleInv, NEW v \in VMs, CancelVM(v)
  PROVE  /\ LifecycleInv'
         /\ v \in mig[mw.m].running /\ Cancellable(mig[mw.m]) /\ mw.m \in Migs
         /\ OnTarget' = OnTarget \/ OnTarget' = OnTarget \ {v}
<1>1. mw \in Worker /\ vm \in [VMs -> VMType] /\ mw.obj \in MigObj
  BY DEF TypeInv, TypeOK, ClusterTypeOK, Worker
<1>2. mw.pc = "Canceling" /\ v \in mw.todo /\ UNCHANGED <<mig, stale>> /\ mw.pc \notin SwapPCs
  BY DEF CancelVM, SwapPCs
<1>3. Busy /\ mw.m \in Migs
  BY <1>2 DEF Busy, TaskPhases, Phases, TypeInv
<1>4. mw.todo \subseteq mw.obj.running /\ mw.obj.running = mig[mw.m].running /\ Cancellable(mig[mw.m])
  BY <1>2, <1>3 DEF CopyInv, TaskOfPhase, LifecycleInv, TaskInv
<1>5. \/ mw' = [mw EXCEPT !.todo = @ \ {v}, !.kept = @ \cup {v}] /\ (UNCHANGED vm \/ PatchVM(v, "src", TRUE))
      \/ mw' = [mw EXCEPT !.todo = @ \ {v}] /\ PatchVM(v, "src", TRUE)
      \/ mw' = [mw EXCEPT !.todo = @ \ {v}] /\ UNCHANGED vm /\ vm[v].spec = "src"
  BY DEF CancelVM, IsVMOnSourceVolumes
<1>6. PatchVM(v, "src", TRUE) => OnTarget' = OnTarget \ {v}
  BY <1>1 DEF PatchVM, OnTarget, VMType
<1>7. UNCHANGED vm => OnTarget' = OnTarget
  BY DEF OnTarget
<1>8. vm[v].spec = "src" => v \notin OnTarget
  BY DEF OnTarget
<1>9. /\ mw'.pc = mw.pc /\ mw'.m = mw.m /\ mw'.obj = mw.obj
      /\ mw'.todo = mw.todo \ {v} /\ mw'.kept \in {mw.kept, mw.kept \cup {v}}
      /\ v \notin mw'.kept => v \notin OnTarget'
      /\ OnTarget' \subseteq OnTarget
      /\ OnTarget' = OnTarget \/ OnTarget' = OnTarget \ {v}
  <2>1. LET w == [mw EXCEPT !.todo = @ \ {v}, !.kept = @ \cup {v}]
        IN  w.pc = mw.pc /\ w.m = mw.m /\ w.obj = mw.obj /\ w.todo = mw.todo \ {v} /\ w.kept = mw.kept \cup {v}
    BY <1>1 DEF Worker
  <2>2. LET w == [mw EXCEPT !.todo = @ \ {v}]
        IN  w.pc = mw.pc /\ w.m = mw.m /\ w.obj = mw.obj /\ w.todo = mw.todo \ {v} /\ w.kept = mw.kept
    BY <1>1 DEF Worker
  <2>3. CASE mw' = [mw EXCEPT !.todo = @ \ {v}] /\ PatchVM(v, "src", TRUE)
    BY <1>6, <2>2, <2>3
  <2>4. CASE mw' = [mw EXCEPT !.todo = @ \ {v}] /\ UNCHANGED vm /\ vm[v].spec = "src"
    BY <1>7, <1>8, <2>2, <2>4
  <2>5. CASE mw' = [mw EXCEPT !.todo = @ \ {v}, !.kept = @ \cup {v}] /\ (UNCHANGED vm \/ PatchVM(v, "src", TRUE))
    <3>1. v \in mw'.kept
      BY <2>1, <2>5
    <3>. QED BY <1>6, <1>7, <2>1, <2>5, <3>1
  <2>. QED BY <1>5, <2>3, <2>4, <2>5
<1>10. MarkedInv'
  BY <1>2 DEF LifecycleInv, MarkedInv
<1>11. TaskInv'
  BY <1>2, <1>3, <1>9 DEF LifecycleInv, TaskInv
<1>12. ~Writing'
  BY <1>2, <1>9 DEF Writing
<1>. QED BY <1>3, <1>4, <1>2, <1>9, <1>10, <1>11, <1>12 DEF LifecycleInv, WriteInv

\* The end of a cancel's pass.
LEMMA CancelEndsInv ==
  ASSUME TypeInv, CopyInv, FinalizerInv, LifecycleInv, CancelFails \/ CancelDone
  PROVE  LifecycleInv'
<1>1. /\ mw.pc = "Canceling" /\ Busy /\ UNCHANGED <<mig, vm, stale>> /\ mw.obj \in MigObj /\ mw \in Worker
      /\ mw.obj.phase = mw.pc /\ mw.pc \notin SwapPCs
  BY DEF CancelFails, CancelDone, SwapPCs, Busy, TaskPhases, Phases, clusterVars, TypeInv, TypeOK, Worker,
     CopyInv, TaskOfPhase
<1>2. /\ Cancellable(mig[mw.m]) /\ SameStatus(mig[mw.m], mw.obj) /\ mw.kept \subseteq mw.obj.running
      /\ OnTarget \cap mw.obj.running \subseteq mw.todo \cup mw.kept
  BY <1>1 DEF LifecycleInv, TaskInv, SameStatus, CopyInv, TaskOfPhase
<1>3. mig[mw.m].phase # "Gone"
  BY <1>2 DEF Cancellable
<1>4. CASE CancelFails
  <2>1. Return(mw.obj)
    BY <1>4 DEF CancelFails
  <2>2. Follows(OnTarget, mig[mw.m], mw.obj)
    BY <1>1, <1>2 DEF Follows, Cancels
  <2>. QED BY <1>1, <1>3, <2>1, <2>2, ReturnInv
<1>5. CASE CancelDone
  <2>. DEFINE p == IF mw.kept = {} THEN "CleanupCancelledMigrations" ELSE mw.obj.phase
              o == [mw.obj EXCEPT !.running = mw.kept, !.cancelled = mw.obj.running \ mw.kept, !.phase = p]
  <2>1. Return(o) /\ mw.todo = {}
    BY <1>5 DEF CancelDone
  <2>2. p \in Phases
    BY <1>1 DEF MigObj, Phases
  <2>. HIDE DEF p
  <2>3. /\ o \in MigObj /\ o.deleting = mw.obj.deleting /\ o.fin = mw.obj.fin
        /\ o.running = mw.kept /\ o.cancelled = mw.obj.running \ mw.kept
        /\ o.completed = mw.obj.completed /\ o.phase = p
    BY <1>1, <1>2, <2>2 DEF MigObj
  <2>. HIDE DEF o
  <2>4. Cancels(OnTarget, mig[mw.m], o)
    <3>. DEFINE back == mw.obj.running \ mw.kept
    <3>1. back \in SUBSET (mig[mw.m].running \ OnTarget)
      BY <1>2, <2>1 DEF SameStatus
    <3>2. o.running = mig[mw.m].running \ back /\ o.cancelled = back /\ o.completed = mig[mw.m].completed
      BY <1>2, <2>3 DEF SameStatus
    <3>3. o.phase = IF mig[mw.m].running = back THEN "CleanupCancelledMigrations" ELSE "Canceling"
      BY <1>1, <1>2, <2>3 DEF p, SameStatus
    <3>. HIDE DEF back
    <3>. QED BY <1>2, <3>1, <3>2, <3>3 DEF Cancels
  <2>5. Follows(OnTarget, mig[mw.m], o)
    BY <2>4 DEF Follows
  <2>. QED BY <1>1, <1>3, <2>1, <2>3, <2>5, ReturnInv
<1>. QED BY <1>4, <1>5

LEMMA LifecycleInvInit == Init => LifecycleInv
<1>. SUFFICES ASSUME Init PROVE LifecycleInv
  OBVIOUS
<1>1. mw.pc = "idle"
  BY DEF Init, MigInit, IdleWorker
<1>2. MarkedInv
  <2>1. \A m \in Migs : mig[m].phase \in {"Absent", ""} /\ ~mig[m].deleting
    BY DEF Init, MigInit, NoMig
  <2>. QED BY <2>1 DEF MarkedInv, CancelingPhases, CancelPhases
<1>. QED BY <1>1, <1>2 DEF LifecycleInv, TaskInv, WriteInv, Busy, Writing, TaskPhases, Phases, SwapPCs

LEMMA LifecycleInvNext ==
  ASSUME TypeInv, CopyInv, FinalizerInv, LifecycleInv, [Next]_vars
  PROVE  LifecycleInv'
<1>0. PlanKey \notin Migs
  BY ClusterAssumption DEF PlanKey
<1>1. CASE \E m \in Migs : Reconcile(m)
  BY <1>1, ReadInv
<1>2. CASE MigWorkerStep
  <2>1. CASE RunBegin
    <3>1. CASE LiveMigrateSwap \/ OfflineMigrateCreateDV
      <4>1. mw.at \in VMs
        BY <3>1 DEF LiveMigrateSwap, OfflineMigrateCreateDV, TypeInv
      <4>. QED BY <3>1, <4>1, SwapLoopInv
    <3>. QED BY <2>1, <3>1, SwapLoopInv, BeginEndsInv DEF RunBegin
  <2>2. CASE RunCanceling
    BY <2>2, CancelLoopInv, CancelEndsInv DEF RunCanceling
  <2>. QED BY <1>2, <2>1, <2>2, RefreshInv, WaitInv, CleanupInv, WriteKeepsInv DEF MigWorkerStep
<1>3. CASE PlanReconcile \/ PlanWorkerStep
  <2>1. /\ UNCHANGED <<mig, mw, vm, vmim, claim, data>>
        /\ UNCHANGED stale \/ stale' = stale \ {PlanKey}
    BY <1>3, PlanSteps
  <2>2. OnTarget' = OnTarget
    BY <2>1 DEF OnTarget
  <2>. QED BY <1>0, <2>1, <2>2, BystanderInv
<1>4. CASE ClusterMoves
  <2>1. OnTarget' = OnTarget
    BY <1>4, ClusterSpecs DEF OnTarget
  <2>. QED BY <1>4, <2>1, BystanderInv DEF ClusterMoves
<1>5. CASE \E m \in Migs : CreateMigration(m) \/ DeleteMigration(m) \/ CollectGarbage(m)
  BY <1>5, OwnerInv
<1>6. CASE DeletePlan
  <2>1. UNCHANGED <<mig, mw, vm>> /\ stale' = stale \cup {PlanKey}
    BY <1>6 DEF DeletePlan, clusterVars
  <2>2. OnTarget' = OnTarget
    BY <2>1 DEF OnTarget
  <2>. QED BY <1>0, <2>1, <2>2, BystanderInv
<1>7. CASE Crash \/ Restart
  <2>1. mw'.pc \in {"idle", "down"} /\ UNCHANGED mig
    BY <1>7 DEF Crash, Restart, IdleWorker
  <2>2. MarkedInv'
    BY <2>1 DEF LifecycleInv, MarkedInv
  <2>. QED BY <2>1, <2>2, IdleInv
<1>8. CASE UNCHANGED vars
  BY <1>4, <1>8 DEF vars, ClusterMoves, clusterVars
<1>9. CASE \E v \in VMs : ClusterStep(v, Existing) /\ UNCHANGED <<mig, plan, stale, mw, pw>>
  BY <1>4, <1>9 DEF ClusterMoves
<1>. QED BY <1>1, <1>2, <1>3, <1>5, <1>6, <1>7, <1>8, <1>9 DEF Next

-----------------------------------------------------------------------------
(* The refinement *)

\* The abstract variables, as functions of the state.
StageOf == [m \in Migs |-> Stage(mig[m].phase)]
Marked == {m \in Migs : mig[m].deleting}
RunningOf == [m \in Migs |-> mig[m].running]
CompletedOf == [m \in Migs |-> mig[m].completed]
CancelledOf == [m \in Migs |-> mig[m].cancelled]
Undeleted(v) == {c \in Claims : claim[v][c] \in {"pending", "bound"}}
ClaimsOf == [v \in VMs |-> Undeleted(v)]

\* What a step leaves alone.
SameMigrations == UNCHANGED <<StageOf, Marked, RunningOf, CompletedOf, CancelledOf>>
SamePlaces == UNCHANGED <<OnTarget, ClaimsOf>>

LEMMA LifecycleStutters ==
  ASSUME SameMigrations, SamePlaces, plan'.exists = plan.exists
  PROVE  [Lifecycle!Next]_(Lifecycle!lifecycleVars)
BY DEF SameMigrations, SamePlaces, StageOf, Marked, RunningOf, CompletedOf, CancelledOf, OnTarget, ClaimsOf,
   Undeleted, Lifecycle!lifecycleVars

\* One migration changes.
LEMMA OneChanges ==
  ASSUME NEW m \in Migs, \A n \in Migs : n # m => mig'[n] = mig[n]
  PROVE  /\ StageOf' = [StageOf EXCEPT ![m] = Stage(mig'[m].phase)]
         /\ RunningOf' = [RunningOf EXCEPT ![m] = mig'[m].running]
         /\ CompletedOf' = [CompletedOf EXCEPT ![m] = mig'[m].completed]
         /\ CancelledOf' = [CancelledOf EXCEPT ![m] = mig'[m].cancelled]
         /\ mig'[m].deleting = mig[m].deleting => Marked' = Marked
         /\ mig'[m].deleting => Marked' = Marked \cup {m}
         /\ Stage(mig'[m].phase) = Stage(mig[m].phase) => StageOf' = StageOf
         /\ SameStatus(mig[m], mig'[m]) =>
              RunningOf' = RunningOf /\ CompletedOf' = CompletedOf /\ CancelledOf' = CancelledOf
         /\ mig'[m].running = mig[m].running => RunningOf' = RunningOf
         /\ mig'[m].completed = mig[m].completed => CompletedOf' = CompletedOf
         /\ mig'[m].cancelled = mig[m].cancelled => CancelledOf' = CancelledOf
<1>1. StageOf' = [StageOf EXCEPT ![m] = Stage(mig'[m].phase)]
  BY DEF StageOf
<1>2. RunningOf' = [RunningOf EXCEPT ![m] = mig'[m].running]
  BY DEF RunningOf
<1>3. CompletedOf' = [CompletedOf EXCEPT ![m] = mig'[m].completed]
  BY DEF CompletedOf
<1>4. CancelledOf' = [CancelledOf EXCEPT ![m] = mig'[m].cancelled]
  BY DEF CancelledOf
<1>5. /\ mig'[m].deleting = mig[m].deleting => Marked' = Marked
      /\ mig'[m].deleting => Marked' = Marked \cup {m}
  BY DEF Marked
<1>6. Stage(mig'[m].phase) = Stage(mig[m].phase) => StageOf' = StageOf
  BY DEF StageOf
<1>7. /\ mig'[m].running = mig[m].running => RunningOf' = RunningOf
      /\ mig'[m].completed = mig[m].completed => CompletedOf' = CompletedOf
      /\ mig'[m].cancelled = mig[m].cancelled => CancelledOf' = CancelledOf
  BY DEF RunningOf, CompletedOf, CancelledOf
<1>. QED BY <1>1, <1>2, <1>3, <1>4, <1>5, <1>6, <1>7 DEF SameStatus

\* Nothing changes for the migrations.
LEMMA NoneChanges ==
  ASSUME UNCHANGED mig
  PROVE  SameMigrations
BY DEF SameMigrations, StageOf, Marked, RunningOf, CompletedOf, CancelledOf

\* A status is written: each way is a step of the abstract specification.
LEMMA StatusStep ==
  ASSUME NEW m \in Migs, \A n \in Migs : n # m => mig'[n] = mig[n],
         mig'[m].deleting = mig[m].deleting, SamePlaces, plan'.exists = plan.exists,
         plan.exists \in BOOLEAN, mig[m] \in MigObj,
         Follows(OnTarget, mig[m], mig'[m]),
         Stage(mig'[m].phase) = "swapping" => plan.exists,
         mig[m].phase = "CleanupMigrationResources" => mig[m].running = {},
         mig[m].phase = "CleanupCancelledMigrations" => mig[m].deleting
  PROVE  [Lifecycle!Next]_(Lifecycle!lifecycleVars)
<1>1. /\ StageOf' = [StageOf EXCEPT ![m] = Stage(mig'[m].phase)]
      /\ RunningOf' = [RunningOf EXCEPT ![m] = mig'[m].running]
      /\ CompletedOf' = [CompletedOf EXCEPT ![m] = mig'[m].completed]
      /\ CancelledOf' = [CancelledOf EXCEPT ![m] = mig'[m].cancelled]
      /\ Marked' = Marked
      /\ Stage(mig'[m].phase) = Stage(mig[m].phase) => StageOf' = StageOf
      /\ mig'[m].running = mig[m].running => RunningOf' = RunningOf
      /\ mig'[m].completed = mig[m].completed => CompletedOf' = CompletedOf
      /\ mig'[m].cancelled = mig[m].cancelled => CancelledOf' = CancelledOf
  BY OneChanges
<1>2. /\ StageOf[m] = Stage(mig[m].phase) /\ RunningOf[m] = mig[m].running
      /\ CompletedOf[m] = mig[m].completed /\ CancelledOf[m] = mig[m].cancelled
      /\ m \in Marked <=> mig[m].deleting
  BY DEF StageOf, RunningOf, CompletedOf, CancelledOf, Marked
<1>3. CASE SameStatus(mig[m], mig'[m]) /\ Stage(mig'[m].phase) = Stage(mig[m].phase)
  BY <1>1, <1>3, LifecycleStutters DEF SameMigrations, SameStatus
<1>4. CASE SameStatus(mig[m], mig'[m]) /\ Stage(mig[m].phase) = "waiting" /\ Stage(mig'[m].phase) = "swapping"
  <2>1. Lifecycle!Begin(m)
    BY <1>1, <1>2, <1>4 DEF SamePlaces, SameStatus, Lifecycle!Begin, Lifecycle!Moves, Lifecycle!lists,
       StageOf, RunningOf, CompletedOf, CancelledOf, Marked, OnTarget, ClaimsOf, Undeleted
  <2>. QED BY <2>1 DEF Lifecycle!Next
<1>5. CASE Swaps(OnTarget, mig[m], mig'[m])
  <2>1. Stage(mig[m].phase) = "swapping" /\ Stage(mig'[m].phase) \in {"swapping", "moving"}
    BY <1>5 DEF Swaps, Stage
  <2>2. PICK vms \in SUBSET OnTarget : RunningOf' = [RunningOf EXCEPT ![m] = @ \cup vms]
    <3>1. mig'[m].running = RunningOf[m] \cup (mig'[m].running \ mig[m].running)
      BY <1>2, <1>5 DEF Swaps
    <3>. QED BY <1>1, <1>5, <3>1 DEF Swaps
  <2>3. StageOf' = [StageOf EXCEPT ![m] = "moving"] \/ StageOf' = StageOf
    BY <1>1, <2>1
  <2>4. CompletedOf' = CompletedOf /\ CancelledOf' = CancelledOf
    BY <1>1, <1>5 DEF Swaps
  <2>5. StageOf[m] = "swapping"
    BY <1>2, <2>1
  <2>6. Lifecycle!List(m)
    BY <1>1, <2>2, <2>3, <2>4, <2>5 DEF SamePlaces, Lifecycle!List, Lifecycle!Moves,
       StageOf, RunningOf, CompletedOf, CancelledOf, Marked, OnTarget, ClaimsOf, Undeleted
  <2>. QED BY <2>6 DEF Lifecycle!Next
<1>6. CASE Advances(mig[m], mig'[m])
  <2>1. StageOf[m] = "moving" /\ CancelledOf' = CancelledOf
    BY <1>1, <1>2, <1>6 DEF Advances, Stage
  <2>2. PICK done \in SUBSET RunningOf[m] :
          /\ CompletedOf' = [CompletedOf EXCEPT ![m] = @ \cup done]
          /\ \/ StageOf' = [StageOf EXCEPT ![m] = "moving"] /\ RunningOf' = RunningOf
             \/ /\ StageOf' = [StageOf EXCEPT ![m] = IF RunningOf[m] = done THEN "finishing" ELSE "moving"]
                /\ RunningOf' = [RunningOf EXCEPT ![m] = @ \ done]
    <3>1. PICK done \in SUBSET mig[m].running :
            /\ mig'[m].completed = mig[m].completed \cup done
            /\ \/ mig'[m].running = mig[m].running /\ mig'[m].phase = mig[m].phase
               \/ /\ mig'[m].running = mig[m].running \ done
                  /\ mig'[m].phase = IF mig[m].running = done THEN "CleanupMigrationResources" ELSE mig[m].phase
      BY <1>6 DEF Advances
    <3>2. /\ Stage("CleanupMigrationResources") = "finishing"
          /\ Stage("WaitForLiveMigrationToComplete") = "moving"
          /\ mig[m].phase = "WaitForLiveMigrationToComplete"
      BY <1>6 DEF Stage, Advances
    <3>3. CompletedOf' = [CompletedOf EXCEPT ![m] = @ \cup done]
      BY <1>1, <1>2, <3>1
    <3>4. CASE mig'[m].running = mig[m].running /\ mig'[m].phase = mig[m].phase
      <4>1. StageOf' = [StageOf EXCEPT ![m] = "moving"] /\ RunningOf' = RunningOf
        BY <1>1, <3>2, <3>4
      <4>2. done \in SUBSET RunningOf[m]
        BY <1>2
      <4>. QED BY <3>3, <4>1, <4>2
    <3>5. CASE /\ mig'[m].running = mig[m].running \ done
               /\ mig'[m].phase = IF mig[m].running = done THEN "CleanupMigrationResources" ELSE mig[m].phase
      <4>1. Stage(mig'[m].phase) = IF RunningOf[m] = done THEN "finishing" ELSE "moving"
        BY <1>2, <3>2, <3>5
      <4>. QED BY <1>1, <1>2, <3>1, <3>3, <3>5, <4>1
    <3>. QED BY <3>1, <3>4, <3>5
  <2>3. Lifecycle!Progress(m)
    BY <1>1, <2>1, <2>2 DEF SamePlaces, Lifecycle!Progress, Lifecycle!Moves,
       StageOf, RunningOf, CompletedOf, CancelledOf, Marked, OnTarget, ClaimsOf, Undeleted
  <2>. QED BY <2>3 DEF Lifecycle!Next
<1>7. CASE Ends(mig[m], mig'[m])
  <2>1. /\ RunningOf' = RunningOf /\ CompletedOf' = CompletedOf /\ CancelledOf' = CancelledOf
    BY <1>1, <1>7 DEF Ends, SameStatus
  <2>2. CASE mig[m].phase = "CleanupMigrationResources"
    <3>1. StageOf[m] = "finishing" /\ RunningOf[m] = {} /\ StageOf' = [StageOf EXCEPT ![m] = "completed"]
      BY <1>1, <1>2, <1>7, <2>2 DEF Ends, Stage
    <3>2. Lifecycle!Finish(m)
      BY <1>1, <2>1, <3>1 DEF SamePlaces, Lifecycle!Finish, Lifecycle!Moves, Lifecycle!lists,
         StageOf, RunningOf, CompletedOf, CancelledOf, Marked, OnTarget, ClaimsOf, Undeleted
    <3>. QED BY <3>2 DEF Lifecycle!Next
  <2>3. CASE mig[m].phase = "CleanupCancelledMigrations"
    <3>1. StageOf[m] = "reverted" /\ m \in Marked /\ StageOf' = [StageOf EXCEPT ![m] = "canceled"]
      BY <1>1, <1>2, <1>7, <2>3 DEF Ends, Stage
    <3>2. Lifecycle!EndCancel(m)
      BY <1>1, <2>1, <3>1 DEF SamePlaces, Lifecycle!EndCancel, Lifecycle!Moves, Lifecycle!lists,
         StageOf, RunningOf, CompletedOf, CancelledOf, Marked, OnTarget, ClaimsOf, Undeleted
    <3>. QED BY <3>2 DEF Lifecycle!Next
  <2>. QED BY <1>7, <2>2, <2>3 DEF Ends
<1>8. CASE Cancels(OnTarget, mig[m], mig'[m])
  <2>1. m \in Marked /\ StageOf[m] \in {"waiting", "swapping", "moving", "finishing", "canceling"}
    BY <1>2, <1>8 DEF Cancels, Cancellable, Stage, Phases, MigObj
  <2>2. CompletedOf' = CompletedOf
    BY <1>1, <1>8 DEF Cancels, SameStatus
  <2>3. Stage("Canceling") = "canceling" /\ Stage("CleanupCancelledMigrations") = "reverted"
    BY DEF Stage
  <2>4. CASE SameStatus(mig[m], mig'[m]) /\ mig'[m].phase = "Canceling"
    <3>1. StageOf' = [StageOf EXCEPT ![m] = "canceling"] /\ RunningOf' = RunningOf /\ CancelledOf' = CancelledOf
      BY <1>1, <2>3, <2>4 DEF SameStatus
    <3>2. Lifecycle!Cancel(m)
      BY <1>1, <2>1, <2>2, <3>1 DEF SamePlaces, Lifecycle!Cancel, Lifecycle!Moves, Lifecycle!lists,
         StageOf, RunningOf, CompletedOf, CancelledOf, Marked, OnTarget, ClaimsOf, Undeleted
    <3>. QED BY <3>2 DEF Lifecycle!Next
  <2>5. CASE \E back \in SUBSET (mig[m].running \ OnTarget) :
               /\ mig'[m].running = mig[m].running \ back /\ mig'[m].cancelled = back
               /\ mig'[m].phase = IF mig[m].running = back THEN "CleanupCancelledMigrations" ELSE "Canceling"
    <3>1. PICK back \in SUBSET (RunningOf[m] \ OnTarget) :
               /\ mig'[m].running = RunningOf[m] \ back /\ mig'[m].cancelled = back
               /\ mig'[m].phase = IF RunningOf[m] = back THEN "CleanupCancelledMigrations" ELSE "Canceling"
      BY <1>2, <2>5
    <3>2. /\ StageOf' = [StageOf EXCEPT ![m] = IF RunningOf[m] = back THEN "reverted" ELSE "canceling"]
          /\ RunningOf' = [RunningOf EXCEPT ![m] = @ \ back]
          /\ CancelledOf' = [CancelledOf EXCEPT ![m] = back]
      BY <1>1, <2>3, <3>1
    <3>3. Lifecycle!Cancel(m)
      BY <1>1, <2>1, <2>2, <3>1, <3>2 DEF SamePlaces, Lifecycle!Cancel, Lifecycle!Moves, Lifecycle!lists,
         StageOf, RunningOf, CompletedOf, CancelledOf, Marked, OnTarget, ClaimsOf, Undeleted
    <3>. QED BY <3>3 DEF Lifecycle!Next
  <2>. QED BY <1>8, <2>4, <2>5 DEF Cancels
<1>. QED BY <1>3, <1>4, <1>5, <1>6, <1>7, <1>8 DEF Follows, Refreshes, SameStatus

\* Only claims change: a task ends.
LEMMA OnlyClaims ==
  ASSUME UNCHANGED <<mig, vm>>, plan'.exists = plan.exists
  PROVE  SameMigrations /\ OnTarget' = OnTarget
BY NoneChanges DEF OnTarget

\* Only the spec of a VM changes.
LEMMA SwapStep ==
  ASSUME NEW m \in Migs, NEW v \in VMs, UNCHANGED mig, plan'.exists = plan.exists, plan.exists \in BOOLEAN,
         mig[m].phase = "BeginLiveMigration", plan.exists, UNCHANGED ClaimsOf,
         OnTarget' = OnTarget \cup {v}
  PROVE  [Lifecycle!Next]_(Lifecycle!lifecycleVars)
<1>1. StageOf[m] = "swapping" /\ SameMigrations
  BY NoneChanges DEF StageOf, Stage
<1>2. Lifecycle!Swapping
  BY <1>1 DEF Lifecycle!Swapping, StageOf
<1>3. Lifecycle!Swap(v)
  BY <1>1, <1>2 DEF Lifecycle!Swap, Lifecycle!lists, SameMigrations,
     StageOf, RunningOf, CompletedOf, CancelledOf, Marked, OnTarget, ClaimsOf, Undeleted
<1>. QED BY <1>3 DEF Lifecycle!Next

\* A target is made, or is there already.
LEMMA TargetStep ==
  ASSUME NEW m \in Migs, NEW v \in VMs, NEW state \in {"bound", "pending"}, NEW c,
         UNCHANGED <<mig, vm>>, plan'.exists = plan.exists,
         plan.exists \in BOOLEAN, ClusterTypeOK,
         mig[m].phase = "BeginLiveMigration", plan.exists, CreateTargetDV(v, state, c)
  PROVE  [Lifecycle!Next]_(Lifecycle!lifecycleVars)
<1>1. StageOf[m] = "swapping" /\ SameMigrations /\ OnTarget' = OnTarget
  BY OnlyClaims DEF StageOf, Stage
<1>2. Lifecycle!Swapping
  BY <1>1 DEF Lifecycle!Swapping, StageOf
<1>3. claim' = [claim EXCEPT ![v]["tgt"] = IF claim[v]["tgt"] = "none" THEN state ELSE claim[v]["tgt"]]
  BY DEF CreateTargetDV
<1>4. \A w \in VMs : w # v => claim'[w] = claim[w]
  BY <1>3 DEF ClusterTypeOK
<1>5. claim[v]["tgt"] # "none" => claim' = claim
  BY <1>3 DEF ClusterTypeOK, Claims
<1>6. claim[v]["tgt"] = "none" => claim'[v]["tgt"] = state /\ claim'[v]["src"] = claim[v]["src"]
  BY <1>3 DEF ClusterTypeOK, Claims
<1>7. CASE claim' = claim
  <2>1. SamePlaces
    BY <1>1, <1>7 DEF SamePlaces, ClaimsOf, Undeleted
  <2>. QED BY <1>1, <2>1, LifecycleStutters
<1>8. CASE claim[v]["tgt"] = "none"
  <2>1. Undeleted(v)' = Undeleted(v) \cup {"tgt"}
    BY <1>6, <1>8 DEF Undeleted, Claims
  <2>2. \A w \in VMs : w # v => Undeleted(w)' = Undeleted(w)
    BY <1>4 DEF Undeleted
  <2>3. ClaimsOf' = [ClaimsOf EXCEPT ![v] = @ \cup {"tgt"}]
    BY <2>1, <2>2 DEF ClaimsOf
  <2>4. Lifecycle!MakeTarget(v)
    BY <1>1, <1>2, <2>3 DEF Lifecycle!MakeTarget, Lifecycle!lists, SameMigrations,
       StageOf, RunningOf, CompletedOf, CancelledOf, Marked, OnTarget, ClaimsOf, Undeleted
  <2>. QED BY <2>4 DEF Lifecycle!Next
<1>. QED BY <1>5, <1>7, <1>8

\* Deleted claims are not undeleted, and no others go.
LEMMA ClaimsDeleted ==
  ASSUME ClusterTypeOK, NEW D, DeleteClaims(D), NEW v \in VMs
  PROVE  /\ Undeleted(v)' \subseteq Undeleted(v)
         /\ \A c \in Claims : <<v, c>> \notin D => (c \in Undeleted(v)' <=> c \in Undeleted(v))
<1>1. \A c \in Claims : claim'[v][c] = IF <<v, c>> \notin D \/ claim[v][c] = "none" THEN claim[v][c]
                                       ELSE IF InUse(v, c) THEN "terminating" ELSE "none"
  BY DEF DeleteClaims
<1>. QED BY <1>1 DEF Undeleted

\* A cleanup deletes the claims of the VMs its migration completed, or the
\* targets of those it cancelled.
LEMMA DropStep ==
  ASSUME NEW m \in Migs, UNCHANGED <<mig, vm>>, plan'.exists = plan.exists, ClusterTypeOK,
         NEW D, DeleteClaims(D), DeleteSource \in BOOLEAN,
         \/ /\ DeleteSource /\ mig[m].phase \in {"CleanupMigrationResources", "Gone"}
            /\ \A e \in D : e[1] \in mig[m].completed
         \/ /\ mig[m].deleting /\ mig[m].phase = "CleanupCancelledMigrations"
            /\ \A e \in D : e[1] \in mig[m].cancelled /\ e[2] = "tgt"
  PROVE  [Lifecycle!Next]_(Lifecycle!lifecycleVars)
<1>1. SameMigrations /\ OnTarget' = OnTarget
  BY OnlyClaims
<1>2. ClaimsOf' \in [VMs -> SUBSET {"src", "tgt"}]
  BY DEF ClaimsOf, Undeleted, Claims
<1>3. ASSUME NEW v \in VMs
      PROVE  /\ ClaimsOf'[v] \subseteq ClaimsOf[v]
             /\ \/ ClaimsOf'[v] = ClaimsOf[v]
                \/ /\ DeleteSource /\ StageOf[m] \in {"finishing", "gone"}
                   /\ v \in CompletedOf[m]
                \/ /\ m \in Marked /\ StageOf[m] = "reverted"
                   /\ v \in CancelledOf[m] /\ ClaimsOf[v] \subseteq ClaimsOf'[v] \cup {"tgt"}
  <2>1. /\ Undeleted(v)' \subseteq Undeleted(v)
        /\ \A c \in Claims : <<v, c>> \notin D => (c \in Undeleted(v)' <=> c \in Undeleted(v))
    BY ClaimsDeleted
  <2>2. ClaimsOf'[v] = Undeleted(v)' /\ ClaimsOf[v] = Undeleted(v) /\ Undeleted(v) \subseteq Claims
    BY DEF ClaimsOf, Undeleted
  <2>3. CASE \A c \in Claims : <<v, c>> \notin D
    <3>1. \A c \in Claims : c \in Undeleted(v)' <=> c \in Undeleted(v)
      BY <2>1, <2>3
    <3>2. Undeleted(v) \subseteq Undeleted(v)'
      BY <2>2, <3>1
    <3>. QED BY <2>1, <2>2, <3>2
  <2>4. ASSUME NEW c \in Claims, <<v, c>> \in D
        PROVE  \/ /\ DeleteSource /\ StageOf[m] \in {"finishing", "gone"}
                  /\ v \in CompletedOf[m]
               \/ /\ m \in Marked /\ StageOf[m] = "reverted"
                  /\ v \in CancelledOf[m] /\ \A d \in Claims : <<v, d>> \in D => d = "tgt"
    <3>1. <<v, c>>[1] = v
      OBVIOUS
    <3>2. \A d \in Claims : <<v, d>>[2] = d
      OBVIOUS
    <3>3. CASE /\ DeleteSource /\ mig[m].phase \in {"CleanupMigrationResources", "Gone"}
               /\ \A e \in D : e[1] \in mig[m].completed
      <4>1. v \in mig[m].completed
        BY <2>4, <3>1, <3>3
      <4>. QED BY <3>3, <4>1 DEF StageOf, CompletedOf, Stage
    <3>4. CASE /\ mig[m].deleting /\ mig[m].phase = "CleanupCancelledMigrations"
               /\ \A e \in D : e[1] \in mig[m].cancelled /\ e[2] = "tgt"
      <4>1. v \in mig[m].cancelled /\ \A d \in Claims : <<v, d>> \in D => d = "tgt"
        BY <2>4, <3>1, <3>2, <3>4
      <4>. QED BY <3>4, <4>1 DEF StageOf, CancelledOf, Stage, Marked
    <3>. QED BY <3>3, <3>4
  <2>. QED BY <2>1, <2>2, <2>3, <2>4
<1>4. Lifecycle!DropClaims(m)
  BY <1>1, <1>2, <1>3 DEF Lifecycle!DropClaims, Lifecycle!lists, SameMigrations,
     StageOf, RunningOf, CompletedOf, CancelledOf, Marked, OnTarget, ClaimsOf, Undeleted
<1>. QED BY <1>4 DEF Lifecycle!Next

\* The owner creates a migration, marks it or removes it.
LEMMA OwnerStep ==
  ASSUME TypeInv, CopyInv, FinalizerInv, LifecycleInv, NEW m \in Migs,
         CreateMigration(m) \/ DeleteMigration(m) \/ CollectGarbage(m)
  PROVE  [Lifecycle!Next]_(Lifecycle!lifecycleVars)
<1>1. /\ UNCHANGED <<plan, mw, vm, claim>>
      /\ \A n \in Migs : n # m => mig'[n] = mig[n]
      /\ SameStatus(mig[m], mig'[m])
      /\ \/ mig[m].phase = "Absent" /\ mig'[m].phase = "" /\ mig'[m].deleting = mig[m].deleting
         \/ /\ Exists(m) /\ ~mig[m].deleting
            /\ \/ mig[m].fin /\ mig'[m].phase = mig[m].phase /\ mig'[m].deleting
               \/ ~mig[m].fin /\ mig'[m].phase = "Gone" /\ ~mig'[m].deleting
  BY OwnerMarks
<1>2. SamePlaces
  BY <1>1 DEF SamePlaces, OnTarget, ClaimsOf, Undeleted
<1>3. /\ StageOf' = [StageOf EXCEPT ![m] = Stage(mig'[m].phase)]
      /\ mig'[m].deleting = mig[m].deleting => Marked' = Marked
      /\ mig'[m].deleting => Marked' = Marked \cup {m}
      /\ Stage(mig'[m].phase) = Stage(mig[m].phase) => StageOf' = StageOf
      /\ RunningOf' = RunningOf /\ CompletedOf' = CompletedOf /\ CancelledOf' = CancelledOf
  BY <1>1, OneChanges
<1>4. StageOf[m] = Stage(mig[m].phase) /\ RunningOf[m] = mig[m].running
  BY DEF StageOf, RunningOf
<1>5. mig[m] \in MigObj
  BY DEF TypeInv, TypeOK
<1>6. CASE mig[m].phase = "Absent" /\ mig'[m].phase = "" /\ mig'[m].deleting = mig[m].deleting
  <2>1. StageOf[m] = "absent" /\ StageOf' = [StageOf EXCEPT ![m] = "waiting"]
    BY <1>3, <1>4, <1>6 DEF Stage
  <2>2. Lifecycle!Create(m)
    BY <1>1, <1>2, <1>3, <1>6, <2>1 DEF SamePlaces, Lifecycle!Create, Lifecycle!Moves, Lifecycle!lists,
       StageOf, RunningOf, CompletedOf, CancelledOf, Marked, OnTarget, ClaimsOf, Undeleted
  <2>. QED BY <2>2 DEF Lifecycle!Next
<1>7. CASE Exists(m) /\ mig'[m].phase = mig[m].phase /\ mig'[m].deleting
  <2>1. StageOf[m] \notin {"absent", "gone"} /\ StageOf' = StageOf
    BY <1>3, <1>4, <1>5, <1>7 DEF Stage, Exists, MigObj, Phases
  <2>2. Lifecycle!Mark(m)
    BY <1>1, <1>2, <1>3, <1>7, <2>1 DEF SamePlaces, Lifecycle!Mark, Lifecycle!lists,
       StageOf, RunningOf, CompletedOf, CancelledOf, Marked, OnTarget, ClaimsOf, Undeleted
  <2>. QED BY <2>2 DEF Lifecycle!Next
<1>8. CASE Exists(m) /\ ~mig[m].deleting /\ ~mig[m].fin /\ mig'[m].phase = "Gone" /\ ~mig'[m].deleting
  <2>1. mig[m].phase \in {"", "Started", "CleanupMigrationResources", "Completed"}
    BY <1>5, <1>8 DEF LifecycleInv, MarkedInv, FinalizerInv, FinalizedPhases, CancelingPhases, CancelPhases,
       Exists, MigObj, Phases
  <2>2. mig[m].running = {}
    BY <2>1 DEF CopyInv, RunningInPhase, RunningPhases
  <2>3. /\ StageOf[m] \in {"waiting", "finishing", "completed", "canceled"} /\ RunningOf[m] = {}
        /\ StageOf' = [StageOf EXCEPT ![m] = "gone"]
    BY <1>3, <1>4, <1>8, <2>1, <2>2 DEF Stage
  <2>4. Marked' = Marked
    BY <1>1, <1>8 DEF Marked
  <2>5. Lifecycle!Leave(m)
    BY <1>1, <1>2, <1>3, <2>3, <2>4 DEF SamePlaces, Lifecycle!Leave, Lifecycle!Moves, Lifecycle!lists,
       StageOf, RunningOf, CompletedOf, CancelledOf, Marked, OnTarget, ClaimsOf, Undeleted
  <2>. QED BY <2>5 DEF Lifecycle!Next
<1>. QED BY <1>1, <1>6, <1>7, <1>8

\* A write of the migration worker.
LEMMA WriteStep ==
  ASSUME TypeInv, CopyInv, PlanInv, LifecycleInv, PersistMeta \/ PersistStatus
  PROVE  [Lifecycle!Next]_(Lifecycle!lifecycleVars)
<1>1. mw.m \in Migs /\ UNCHANGED <<plan, vm, claim>>
  BY MetaWritten, StatusWritten
<1>2. SamePlaces
  BY <1>1 DEF SamePlaces, OnTarget, ClaimsOf, Undeleted
<1>3. mig[mw.m] \in MigObj /\ plan.exists \in BOOLEAN
  BY <1>1 DEF TypeInv, TypeOK, PlanObj
<1>4. CASE mig' = mig
  BY <1>1, <1>2, <1>4, NoneChanges, LifecycleStutters
<1>5. CASE PersistMeta /\ mig' # mig
  <2>1. /\ mw.pc = "meta" /\ \A n \in Migs : n # mw.m => mig'[n] = mig[n]
        /\ SameStatus(mig[mw.m], mig'[mw.m]) /\ mig'[mw.m].deleting = mig[mw.m].deleting
        /\ \/ /\ mw.m \notin stale /\ mig'[mw.m].phase = "Gone" /\ ~mw.obj.fin /\ mig[mw.m].deleting
           \/ mig'[mw.m].phase = mig[mw.m].phase
    BY <1>5, MetaWritten
  <2>2. /\ StageOf' = [StageOf EXCEPT ![mw.m] = Stage(mig'[mw.m].phase)]
        /\ Marked' = Marked
        /\ Stage(mig'[mw.m].phase) = Stage(mig[mw.m].phase) => StageOf' = StageOf
        /\ RunningOf' = RunningOf /\ CompletedOf' = CompletedOf /\ CancelledOf' = CancelledOf
    BY <1>1, <2>1, OneChanges
  <2>3. CASE mig'[mw.m].phase = mig[mw.m].phase
    BY <1>1, <1>2, <2>2, <2>3, LifecycleStutters DEF SameMigrations
  <2>4. CASE mw.m \notin stale /\ mig'[mw.m].phase = "Gone" /\ ~mw.obj.fin /\ mig[mw.m].deleting
    <3>1. mig[mw.m].phase \in {"CleanupMigrationResources", "Completed", "Canceled"}
      BY <2>1, <2>4 DEF LifecycleInv, WriteInv, Writing
    <3>2. mig[mw.m].running = {}
      BY <1>1, <3>1 DEF CopyInv, RunningInPhase, RunningPhases
    <3>3. /\ StageOf[mw.m] \in {"waiting", "finishing", "completed", "canceled"} /\ RunningOf[mw.m] = {}
          /\ StageOf' = [StageOf EXCEPT ![mw.m] = "gone"]
      BY <1>1, <2>2, <2>4, <3>1, <3>2 DEF Stage, StageOf, RunningOf
    <3>4. Lifecycle!Leave(mw.m)
      BY <1>1, <1>2, <2>2, <3>3 DEF SamePlaces, Lifecycle!Leave, Lifecycle!Moves, Lifecycle!lists,
         StageOf, RunningOf, CompletedOf, CancelledOf, Marked, OnTarget, ClaimsOf, Undeleted
    <3>. QED BY <1>1, <3>4 DEF Lifecycle!Next
  <2>. QED BY <2>1, <2>3, <2>4
<1>6. CASE PersistStatus /\ mig' # mig
  <2>1. /\ mw.pc = "status" /\ \A n \in Migs : n # mw.m => mig'[n] = mig[n]
        /\ mw.m \notin stale /\ mig'[mw.m] = mw.obj
    BY <1>6, StatusWritten
  <2>2. Writing /\ Current
    BY <2>1 DEF Writing, Current
  <2>3. Follows(OnTarget, mig[mw.m], mig'[mw.m]) /\ mig'[mw.m].deleting = mig[mw.m].deleting
    BY <2>1, <2>2 DEF LifecycleInv, WriteInv
  <2>4. Stage(mig'[mw.m].phase) = "swapping" => plan.exists
    <3>1. Stage(mw.obj.phase) = "swapping" => mw.obj.phase = "BeginLiveMigration"
      BY DEF Stage
    <3>2. mw.obj.phase = "BeginLiveMigration" => ~NoWork
      BY <2>2 DEF NoWork, Harmless, WorkPhases
    <3>. QED BY <2>1, <3>1, <3>2 DEF PlanInv
  <2>5. /\ mig[mw.m].phase = "CleanupMigrationResources" => mig[mw.m].running = {}
        /\ mig[mw.m].phase = "CleanupCancelledMigrations" => mig[mw.m].deleting
    BY <1>1 DEF CopyInv, RunningInPhase, RunningPhases, LifecycleInv, MarkedInv, CancelingPhases, CancelPhases
  <2>. QED BY <1>1, <1>2, <1>3, <2>1, <2>3, <2>4, <2>5, StatusStep
<1>. QED BY <1>4, <1>5, <1>6

\* The plan is dropped only when nobody works on it.
LEMMA PlanGoesStep ==
  ASSUME TypeInv, UNCHANGED <<mig, vm, claim>>, plan.exists, plan'.exists = FALSE,
         \A m \in Existing : Harmless(mig[m])
  PROVE  [Lifecycle!Next]_(Lifecycle!lifecycleVars)
<1>1. SameMigrations /\ SamePlaces
  BY NoneChanges DEF SamePlaces, OnTarget, ClaimsOf, Undeleted
<1>2. ASSUME NEW m \in Migs, StageOf[m] \notin {"absent", "gone"}
      PROVE  RunningOf[m] = {} /\ StageOf[m] \notin {"swapping", "moving", "finishing"}
  <2>1. StageOf[m] = Stage(mig[m].phase) /\ RunningOf[m] = mig[m].running
    BY DEF StageOf, RunningOf
  <2>2. Exists(m)
    BY <1>2, <2>1 DEF Exists, Stage
  <2>3. Harmless(mig[m])
    BY <2>2 DEF Existing
  <2>. QED BY <2>1, <2>3 DEF Harmless, WorkPhases, Stage
<1>3. Lifecycle!DropPlan
  BY <1>1, <1>2 DEF SamePlaces, SameMigrations, Lifecycle!DropPlan, Lifecycle!lists,
     StageOf, RunningOf, CompletedOf, CancelledOf, Marked, OnTarget, ClaimsOf, Undeleted
<1>. QED BY <1>3 DEF Lifecycle!Next

\* A step of the loop that swaps.
LEMMA SwapLoopStep ==
  ASSUME TypeInv, CopyInv, PlanInv, FinalizerInv, LifecycleInv, NEW v \in VMs,
         BeginSkipVM(v) \/ LiveMigrateCreateDV(v) \/ OfflineMigrateSwap(v)
           \/ LiveMigrateSwap \/ OfflineMigrateCreateDV
  PROVE  [Lifecycle!Next]_(Lifecycle!lifecycleVars)
<1>1. mw.pc \in SwapPCs /\ UNCHANGED <<mig, plan>>
  BY DEF BeginSkipVM, LiveMigrateCreateDV, OfflineMigrateSwap, LiveMigrateSwap, OfflineMigrateCreateDV, SwapPCs
<1>2. mw.m \in Migs /\ (mw.pc # "BeginLiveMigration" => mw.at \in VMs) /\ ClusterTypeOK
      /\ plan.exists \in BOOLEAN /\ vm \in [VMs -> VMType]
  BY <1>1 DEF TypeInv, TypeOK, SwapPCs, PlanObj, ClusterTypeOK
<1>3. mig[mw.m].phase = "BeginLiveMigration"
  BY <1>1, SwapsInBegin
<1>4. plan.exists
  <2>1. ~NoWork
    BY <1>2, <1>3 DEF NoWork, Existing, Exists, Harmless, WorkPhases
  <2>. QED BY <2>1 DEF PlanInv
<1>5. ASSUME NEW w \in VMs, NEW strategy, PatchVM(w, "tgt", strategy), UNCHANGED claim
      PROVE  [Lifecycle!Next]_(Lifecycle!lifecycleVars)
  <2>1. OnTarget' = OnTarget \cup {w}
    BY <1>2, <1>5 DEF PatchVM, OnTarget, VMType
  <2>2. UNCHANGED ClaimsOf
    BY <1>5 DEF ClaimsOf, Undeleted
  <2>. QED BY <1>1, <1>2, <1>3, <1>4, <2>1, <2>2, SwapStep
<1>6. CASE BeginSkipVM(v)
  <2>1. SamePlaces
    BY <1>6 DEF BeginSkipVM, clusterVars, SamePlaces, OnTarget, ClaimsOf, Undeleted
  <2>. QED BY <1>1, <2>1, NoneChanges, LifecycleStutters
<1>7. CASE LiveMigrateCreateDV(v)
  <2>1. CreateTargetDV(v, "bound", mw.sources[v]) /\ UNCHANGED vm
    BY <1>7 DEF LiveMigrateCreateDV
  <2>. QED BY <1>1, <1>2, <1>3, <1>4, <2>1, TargetStep
<1>8. CASE OfflineMigrateSwap(v)
  BY <1>5, <1>8 DEF OfflineMigrateSwap
<1>9. CASE LiveMigrateSwap
  BY <1>2, <1>5, <1>9 DEF LiveMigrateSwap
<1>10. CASE OfflineMigrateCreateDV
  <2>1. CreateTargetDV(mw.at, "pending", mw.sources[mw.at]) /\ UNCHANGED vm /\ mw.at \in VMs
    BY <1>2, <1>10 DEF OfflineMigrateCreateDV
  <2>. QED BY <1>1, <1>2, <1>3, <1>4, <2>1, TargetStep
<1>. QED BY <1>6, <1>7, <1>8, <1>9, <1>10

\* A step of the loop that cancels.
LEMMA CancelLoopStep ==
  ASSUME TypeInv, CopyInv, LifecycleInv, NEW v \in VMs, CancelVM(v)
  PROVE  [Lifecycle!Next]_(Lifecycle!lifecycleVars)
<1>1. /\ v \in mig[mw.m].running /\ Cancellable(mig[mw.m]) /\ mw.m \in Migs
      /\ OnTarget' = OnTarget \/ OnTarget' = OnTarget \ {v}
  BY CancelLoopInv
<1>2. UNCHANGED <<mig, plan, claim>>
  BY DEF CancelVM
<1>3. UNCHANGED ClaimsOf /\ SameMigrations
  BY <1>2, NoneChanges DEF ClaimsOf, Undeleted
<1>4. CASE OnTarget' = OnTarget
  BY <1>2, <1>3, <1>4, LifecycleStutters DEF SamePlaces
<1>5. CASE OnTarget' = OnTarget \ {v}
  <2>1. mig[mw.m].phase \in {"BeginLiveMigration", "WaitForLiveMigrationToComplete", "Canceling"}
    BY <1>1 DEF CopyInv, RunningInPhase, RunningPhases, Cancellable
  <2>2. /\ mw.m \in Marked /\ v \in RunningOf[mw.m]
        /\ StageOf[mw.m] \in {"swapping", "moving", "canceling"}
    BY <1>1, <2>1 DEF Marked, RunningOf, StageOf, Stage, Cancellable
  <2>3. Lifecycle!Revert(v)
    BY <1>2, <1>3, <1>5, <2>2 DEF Lifecycle!Revert, Lifecycle!lists, SameMigrations,
       StageOf, RunningOf, CompletedOf, CancelledOf, Marked, OnTarget, ClaimsOf, Undeleted
  <2>. QED BY <2>3 DEF Lifecycle!Next
<1>. QED BY <1>1, <1>4, <1>5

\* The end of a task.
LEMMA TaskStep ==
  ASSUME TypeInv, CopyInv, FinalizerInv, LifecycleInv,
         \/ RunStarted \/ RunRefresh \/ RunWaitForRefresh \/ BeginFails \/ BeginDone
         \/ RunWaitForLiveMigration \/ RunCleanupWaits \/ RunCleanupFails \/ RunCleanup
         \/ CancelFails \/ CancelDone \/ RunCleanupCancelled
  PROVE  [Lifecycle!Next]_(Lifecycle!lifecycleVars)
<1>1. UNCHANGED <<mig, vm>> /\ plan'.exists = plan.exists /\ ClusterTypeOK /\ DeleteSource \in BOOLEAN
  <2>1. UNCHANGED <<mig, vm>>
    BY DEF RunStarted, RunRefresh, RunWaitForRefresh, BeginFails, BeginDone, RunWaitForLiveMigration,
       RunCleanupWaits, RunCleanupFails, RunCleanup, CancelFails, CancelDone, RunCleanupCancelled, clusterVars
  <2>2. plan \in PlanObj
    BY DEF TypeInv, TypeOK
  <2>3. UNCHANGED plan \/ plan' = [plan EXCEPT !.refresh = "started"]
    BY DEF RunStarted, RunRefresh, RunWaitForRefresh, BeginFails, BeginDone, RunWaitForLiveMigration,
       RunCleanupWaits, RunCleanupFails, RunCleanup, CancelFails, CancelDone, RunCleanupCancelled
  <2>4. plan'.exists = plan.exists
    BY <2>2, <2>3 DEF PlanObj
  <2>. QED BY <2>1, <2>4, StorageMigAssumption DEF TypeInv, TypeOK
<1>2. CASE UNCHANGED claim
  <2>1. SamePlaces
    BY <1>1, <1>2 DEF SamePlaces, OnTarget, ClaimsOf, Undeleted
  <2>. QED BY <1>1, <2>1, NoneChanges, LifecycleStutters
<1>3. ASSUME mw.pc = "CleanupMigrationResources"
      PROVE  /\ mw.m \in Migs /\ mw.obj.completed = mig[mw.m].completed
             /\ mig[mw.m].phase \in {"CleanupMigrationResources", "Gone"}
  <2>1. Busy /\ mw.pc \in OwnPhasePCs /\ mw.obj.phase = mw.pc
    BY <1>3 DEF Busy, OwnPhasePCs, TaskPhases, Phases, CopyInv, TaskOfPhase
  <2>. QED BY <1>3, <2>1 DEF TypeInv, LifecycleInv, TaskInv, FinalizerInv
<1>4. ASSUME mw.pc = "CleanupCancelledMigrations"
      PROVE  /\ mw.m \in Migs /\ mw.obj.cancelled = mig[mw.m].cancelled
             /\ mig[mw.m].phase = "CleanupCancelledMigrations" /\ mig[mw.m].deleting
  <2>1. Busy
    BY <1>4 DEF Busy, TaskPhases, Phases
  <2>. QED BY <1>4, <2>1 DEF TypeInv, LifecycleInv, TaskInv
<1>5. CASE RunCleanupFails \/ RunCleanup
  <2>1. mw.pc = "CleanupMigrationResources"
    BY <1>5 DEF RunCleanupFails, RunCleanup
  <2>2. UNCHANGED claim \/ (DeleteSource /\ \E D \in SUBSET SourcePVCs(mw.obj.completed) : DeleteClaims(D))
    BY <1>5 DEF RunCleanupFails, RunCleanup
  <2>3. ASSUME NEW D \in SUBSET SourcePVCs(mw.obj.completed), DeleteClaims(D), DeleteSource
        PROVE  [Lifecycle!Next]_(Lifecycle!lifecycleVars)
    <3>1. \A e \in D : e[1] \in mig[mw.m].completed
      BY <1>3, <2>1 DEF SourcePVCs
    <3>. QED BY <1>1, <1>3, <2>1, <2>3, <3>1, DropStep
  <2>. QED BY <1>2, <2>2, <2>3
<1>6. CASE RunCleanupCancelled
  <2>1. mw.pc = "CleanupCancelledMigrations" /\ \E D \in SUBSET CancelledTargets : DeleteClaims(D)
    BY <1>6 DEF RunCleanupCancelled
  <2>2. PICK D \in SUBSET CancelledTargets : DeleteClaims(D)
    BY <2>1
  <2>3. \A e \in D : e[1] \in mig[mw.m].cancelled /\ e[2] = "tgt"
    BY <1>4, <2>1 DEF CancelledTargets
  <2>. QED BY <1>1, <1>4, <2>1, <2>2, <2>3, DropStep
<1>. QED
  BY <1>2, <1>5, <1>6 DEF RunStarted, RunRefresh, RunWaitForRefresh, BeginFails, BeginDone,
     RunWaitForLiveMigration, RunCleanupWaits, CancelFails, CancelDone, clusterVars

\* A step of the plan controller, or a delete of the plan.
LEMMA PlanStep ==
  ASSUME TypeInv, CopyInv, PlanInv, PlanReconcile \/ PlanWorkerStep \/ DeletePlan
  PROVE  [Lifecycle!Next]_(Lifecycle!lifecycleVars)
<1>1. UNCHANGED <<mig, vm, claim>> /\ plan \in PlanObj /\ plan.exists \in BOOLEAN
  BY PlanSteps DEF DeletePlan, clusterVars, TypeInv, TypeOK, PlanObj
<1>0. ~NoPlan.exists
  BY DEF NoPlan
<1>2. CASE plan'.exists = plan.exists
  <2>1. SamePlaces
    BY <1>1 DEF SamePlaces, OnTarget, ClaimsOf, Undeleted
  <2>. QED BY <1>1, <1>2, <2>1, NoneChanges, LifecycleStutters
<1>3. CASE PlanReconcile
  BY <1>2, <1>3, PlanReconcileShape
<1>4. CASE PlanWorkerStep
  <2>1. CASE plan' = NoPlan /\ plan.exists
    <3>1. \A m \in Existing : Harmless(mig[m])
      <4>1. CASE PersistPlanStatus
        <5>1. PlanKey \notin stale /\ pw.pc = "status" /\ plan' = pw.obj
          <6>1. plan' # plan
            BY <1>0, <2>1
          <6>. QED BY <4>1, <6>1 DEF PersistPlanStatus
        <5>2. ~pw.obj.exists
          BY <1>0, <2>1, <5>1
        <5>. QED BY <5>1, <5>2 DEF PlanInv
      <4>2. CASE PersistPlanMeta
        <5>. DEFINE p == [plan EXCEPT !.fin = pw.obj.fin, !.refresh = pw.obj.refresh]
        <5>1. p.exists = plan.exists /\ p.fin = pw.obj.fin
          BY <1>1 DEF PlanObj
        <5>2. pw.pc = "meta" /\ PlanKey \notin stale /\ (~p.fin \/ plan' = p)
          BY <2>1, <4>2 DEF PersistPlanMeta, NoPlan
        <5>. HIDE DEF p
        <5>3. Removing
          BY <2>1, <5>1, <5>2 DEF Removing, NoPlan
        <5>. QED BY <5>3 DEF PlanInv, NoRefresh, Fresh
      <4>. QED BY <1>4, <4>1, <4>2 DEF PlanWorkerStep
    <3>. QED BY <1>1, <2>1, <3>1, PlanGoesStep DEF NoPlan
  <2>2. \/ plan' = plan
        \/ plan' = NoPlan
        \/ plan'.exists = plan.exists
    BY <1>4, PlanWriteShape
  <2>3. CASE plan' = NoPlan
    <3>1. CASE plan.exists
      BY <2>1, <2>3, <3>1
    <3>2. CASE ~plan.exists
      <4>1. plan'.exists = plan.exists
        BY <1>0, <1>1, <2>3, <3>2 DEF NoPlan
      <4>. QED BY <1>2, <4>1
    <3>. QED BY <3>1, <3>2
  <2>. QED BY <1>2, <2>2, <2>3
<1>5. CASE DeletePlan
  <2>1. plan.exists /\ plan' = IF plan.fin THEN [plan EXCEPT !.deleting = TRUE] ELSE NoPlan
    BY <1>5 DEF DeletePlan
  <2>2. CASE plan.fin
    BY <1>1, <1>2, <2>1, <2>2 DEF PlanObj
  <2>3. CASE ~plan.fin
    <3>1. \A m \in Existing : Harmless(mig[m])
      BY <2>3 DEF PlanInv, NoWork
    <3>. QED BY <1>1, <2>1, <2>3, <3>1, PlanGoesStep DEF NoPlan
  <2>. QED BY <2>2, <2>3
<1>. QED BY <1>3, <1>4, <1>5

\* KubeVirt and CDI neither change a spec nor delete a claim.
LEMMA ClusterStepStutters ==
  ASSUME TypeInv, ClusterMoves
  PROVE  [Lifecycle!Next]_(Lifecycle!lifecycleVars)
<1>1. UNCHANGED <<mig, plan>> /\ ClusterTypeOK
  BY DEF ClusterMoves, TypeInv, TypeOK
<1>2. OnTarget' = OnTarget
  BY ClusterSpecs DEF OnTarget
<1>3. ASSUME NEW v \in VMs, NEW w \in VMs, ClusterStep(w, Existing)
      PROVE  Undeleted(v)' = Undeleted(v)
  <2>1. \A c \in Claims : \/ claim'[v][c] = claim[v][c]
                          \/ claim[v][c] = "terminating" /\ claim'[v][c] \in {"none", "terminating"}
                          \/ claim[v][c] = "pending" /\ claim'[v][c] = "bound"
    <3>. TAKE c \in Claims
    <3>1. \/ claim'[v][c] = claim[v][c]
          \/ claim[v][c] = "terminating"
          \/ c = "tgt" /\ claim[v][c] = "pending" /\ claim'[v][c] = "bound"
      BY <1>1, <1>3, ClusterClaims
    <3>2. claim[v][c] = "terminating" => claim'[v][c] \in {"none", "terminating"}
      <4>1. ASSUME NEW d, NEW a, NEW latest, Release(w, d, a, latest), claim[v][c] = "terminating"
            PROVE  claim'[v][c] \in {"none", "terminating"}
        BY <1>1, <4>1 DEF Release, ClusterTypeOK
      <4>2. CASE VMIMSucceeds(w)
        BY <4>1, <4>2 DEF VMIMSucceeds
      <4>3. CASE VMIMFails(w)
        BY <4>1, <4>3 DEF VMIMFails
      <4>4. CASE StopVM(w)
        BY <4>1, <4>4 DEF StopVM
      <4>5. CASE CloneSucceeds(w)
        BY <1>1, <4>5 DEF CloneSucceeds, ClusterTypeOK, Claims
      <4>6. CASE CreateVMIM(w, Existing) \/ Evacuate(w, Existing) \/ StartVM(w) \/ FitnessChanges(w)
        BY <4>6 DEF CreateVMIM, Evacuate, StartVM, FitnessChanges
      <4>. QED BY <1>3, <4>2, <4>3, <4>4, <4>5, <4>6 DEF ClusterStep, ClusterProgress
    <3>. QED BY <3>1, <3>2
  <2>. QED BY <2>1 DEF Undeleted
<1>4. ClaimsOf' = ClaimsOf
  <2>1. CASE UNCHANGED clusterVars
    BY <2>1 DEF clusterVars, ClaimsOf, Undeleted
  <2>2. CASE \E w \in VMs : ClusterStep(w, Existing)
    BY <1>3, <2>2 DEF ClaimsOf
  <2>. QED BY <2>1, <2>2 DEF ClusterMoves
<1>. QED BY <1>1, <1>2, <1>4, NoneChanges, LifecycleStutters DEF SamePlaces

\* Every step of the system is a step of the abstract specification or none.
LEMMA LifecycleSteps ==
  ASSUME TypeInv, CopyInv, PlanInv, FinalizerInv, LifecycleInv, [Next]_vars
  PROVE  [Lifecycle!Next]_(Lifecycle!lifecycleVars)
<1>1. ASSUME UNCHANGED <<mig, vm, claim, plan>>
      PROVE  [Lifecycle!Next]_(Lifecycle!lifecycleVars)
  <2>1. SamePlaces /\ plan'.exists = plan.exists
    BY <1>1 DEF SamePlaces, OnTarget, ClaimsOf, Undeleted
  <2>. QED BY <1>1, <2>1, NoneChanges, LifecycleStutters
<1>2. CASE \E m \in Migs : Reconcile(m)
  BY <1>1, <1>2, ReadShape
<1>3. CASE MigWorkerStep
  <2>1. CASE RunBegin
    <3>1. CASE LiveMigrateSwap \/ OfflineMigrateCreateDV
      <4>1. mw.at \in VMs
        BY <3>1 DEF LiveMigrateSwap, OfflineMigrateCreateDV, TypeInv
      <4>. QED BY <3>1, <4>1, SwapLoopStep
    <3>. QED BY <2>1, <3>1, SwapLoopStep, TaskStep DEF RunBegin
  <2>2. CASE RunCanceling
    BY <2>2, CancelLoopStep, TaskStep DEF RunCanceling
  <2>. QED BY <1>3, <2>1, <2>2, TaskStep, WriteStep DEF MigWorkerStep
<1>4. CASE PlanReconcile \/ PlanWorkerStep \/ DeletePlan
  BY <1>4, PlanStep
<1>5. CASE \E v \in VMs : ClusterStep(v, Existing) /\ UNCHANGED <<mig, plan, stale, mw, pw>>
  BY <1>5, ClusterStepStutters DEF ClusterMoves
<1>6. CASE \E m \in Migs : CreateMigration(m) \/ DeleteMigration(m) \/ CollectGarbage(m)
  BY <1>6, OwnerStep
<1>7. CASE Crash \/ Restart
  BY <1>1, <1>7 DEF Crash, Restart, clusterVars
<1>8. CASE UNCHANGED vars
  BY <1>1, <1>8 DEF vars, clusterVars
<1>. QED BY <1>2, <1>3, <1>4, <1>5, <1>6, <1>7, <1>8 DEF Next

LEMMA LifecycleStarts == Init => Lifecycle!Init
<1>. SUFFICES ASSUME Init PROVE Lifecycle!Init
  OBVIOUS
<1>1. \A m \in Migs : /\ mig[m].phase \in {"Absent", ""} /\ ~mig[m].deleting
                      /\ mig[m].running = {} /\ mig[m].completed = {} /\ mig[m].cancelled = {}
  BY DEF Init, MigInit, NoMig
<1>2. \A v \in VMs : vm[v].spec = "src" /\ claim[v] = [c \in Claims |-> IF c = "src" THEN "bound" ELSE "none"]
  BY DEF Init, ClusterInit
<1>3. plan.exists = TRUE
  BY DEF Init, PlanInit, NoPlan
<1>4. Stage("Absent") = "absent" /\ Stage("") = "waiting"
  BY DEF Stage
<1>5. StageOf \in [Migs -> {"absent", "waiting"}]
  BY <1>1, <1>4 DEF StageOf
<1>6. /\ Marked = {}
      /\ RunningOf = [m \in Migs |-> {}]
      /\ CompletedOf = [m \in Migs |-> {}]
      /\ CancelledOf = [m \in Migs |-> {}]
  BY <1>1 DEF Marked, RunningOf, CompletedOf, CancelledOf
<1>7. OnTarget = {}
  BY <1>2 DEF OnTarget
<1>8. ClaimsOf = [v \in VMs |-> {"src"}]
  <2>1. ASSUME NEW v \in VMs PROVE Undeleted(v) = {"src"}
    BY <1>2, <2>1 DEF Undeleted, Claims
  <2>. QED BY <2>1 DEF ClaimsOf
<1>. QED
  BY <1>3, <1>5, <1>6, <1>7, <1>8 DEF Lifecycle!Init, StageOf, Marked, RunningOf, CompletedOf, CancelledOf,
     OnTarget, ClaimsOf, Undeleted

(***************************************************************************)
(* The controllers and their cluster implement MigrationLifecycle: with    *)
(* any number of VMs and of migrations of the plan at a time, under both   *)
(* retention policies, and whatever the environment deletes, stops, loses  *)
(* or refuses.                                                             *)
(***************************************************************************)
THEOREM SystemKeepsLifecycle == Spec => KeepsLifecycle
<1>. DEFINE Inv == TypeInv /\ CopyInv /\ PlanInv /\ FinalizerInv /\ LifecycleInv
<1>1. Init => Inv
  BY TypeInvInit, CopyInvInit, PlanInvInit, FinalizerInvInit, LifecycleInvInit
<1>2. Inv /\ [Next]_vars => Inv'
  BY TypeInvNext, CopyInvNext, PlanInvNext, FinalizerInvNext, LifecycleInvNext
<1>3. Inv /\ [Next]_vars => [Lifecycle!Next]_(Lifecycle!lifecycleVars)
  BY LifecycleSteps
<1>. HIDE DEF Inv
<1>. QED BY <1>1, <1>2, <1>3, LifecycleStarts, PTL DEF Spec, KeepsLifecycle, Lifecycle!Spec
=============================================================================
