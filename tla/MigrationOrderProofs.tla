------------------------- MODULE MigrationOrderProofs -------------------------
(***************************************************************************)
(* The order of the phases and of the two deletions: a cancel never turns  *)
(* back, and a plan goes only after the work on it, for every set of VMs   *)
(* and migrations, overlapping ones too, and every environment.            *)
(***************************************************************************)
EXTENDS MigrationSystemProofs

-----------------------------------------------------------------------------
(* The worker's copy and the object it was made of *)

\* The worker is at work on a copy that it can still write.
Current == mw.pc \notin {"idle", "down"} /\ mw.m \notin stale

\* Phases in which a migration may list running VMs.
RunningPhases == {"BeginLiveMigration", "WaitForLiveMigrationToComplete", "Canceling", "Gone"}

TaskOfPhase ==
  /\ mw.pc \in TaskPhases => mw.obj.phase = mw.pc
  /\ mw.pc \in SwapPCs => mw.obj.phase = "BeginLiveMigration"
  /\ mw.pc = "Canceling" => mw.todo \cup mw.kept \subseteq mw.obj.running

RunningInPhase ==
  /\ \A m \in Migs : mig[m].running # {} => mig[m].phase \in RunningPhases
  /\ mw.obj.running # {} => mw.obj.phase \in RunningPhases

\* A copy that can be written is not behind its object.
CopyAhead ==
  Current => /\ Exists(mw.m)
             /\ mig[mw.m].phase \in OverPhases => mw.obj.phase \in OverPhases
             /\ CancelRank(mig[mw.m].phase) <= CancelRank(mw.obj.phase)

CopyInv == TaskOfPhase /\ RunningInPhase /\ CopyAhead

-----------------------------------------------------------------------------
(* The plan and its finalizer *)

WorkPhases == {"BeginLiveMigration", "WaitForLiveMigrationToComplete", "CleanupMigrationResources"}

\* The migration has nothing to do with the VMs of the plan.
Harmless(o) == o.running = {} /\ o.phase \notin WorkPhases

\* And it has not asked for a refresh.
Fresh(o) == Harmless(o) /\ o.phase # "WaitForStorageMigrationPlanRefreshCompletion"

NoWork ==
  /\ \A m \in Existing : Harmless(mig[m])
  /\ Current => Harmless(mw.obj)

NoRefresh ==
  /\ \A m \in Existing : Fresh(mig[m])
  /\ Current => Fresh(mw.obj)

\* The worker is about to remove the finalizer, and can.
Removing == pw.pc = "meta" /\ ~pw.obj.fin /\ PlanKey \notin stale

PlanInv ==
  /\ ~plan.exists => ~plan.fin
  /\ ~plan.fin => plan.refresh # "done" /\ NoWork
  /\ Removing => NoRefresh
  /\ pw.pc = "meta" /\ ~pw.obj.fin => plan.deleting \/ ~plan.exists
  /\ pw.pc \in {"meta", "status"} /\ PlanKey \notin stale => plan.exists /\ pw.obj.exists
  /\ pw.pc = "status" /\ PlanKey \notin stale =>
       pw.obj.fin = plan.fin /\ pw.obj.refresh = plan.refresh

-----------------------------------------------------------------------------
(* How a task ends *)

\* What a returned copy o keeps of the copy the task worked on: the
\* finalizer comes with the first phase and goes with the last, completed VMs
\* are only added, and a running VM is dropped only by a cancel.
Carries(o) ==
  /\ o.deleting = mw.obj.deleting
  /\ \/ o.fin = mw.obj.fin
     \/ mw.obj.phase = "Started" /\ o.fin
     \/ mw.obj.phase = "CleanupMigrationResources" /\ o.phase = "Completed"
  /\ mw.obj.completed \subseteq o.completed
  /\ \A v \in o.completed \ mw.obj.completed :
       mw.obj.phase = "WaitForLiveMigrationToComplete" /\ TRUE \in MigrationCompleted(v)
  /\ mw.obj.running \subseteq o.running \cup o.completed \/ mw.obj.phase = "Canceling"
  /\ \/ o.cancelled = mw.obj.cancelled
     \/ mw.obj.phase = "Canceling" /\ o.cancelled \subseteq mw.obj.running

\* Two copies that differ in their phase only.
SameWork(o, p) ==
  /\ o.running = p.running /\ o.completed = p.completed /\ o.cancelled = p.cancelled
  /\ o.fin = p.fin /\ o.deleting = p.deleting

\* What a returned copy o may be, of the copy the task worked on.
EndOfTask(o) ==
  /\ Carries(o)
  /\ o.running \subseteq mw.obj.running
  /\ \/ o.phase = mw.obj.phase
     \/ mw.obj.phase = "Started" /\ o.phase = "RefreshStorageMigrationPlan" /\ o.fin
     \/ /\ mw.obj.phase = "RefreshStorageMigrationPlan"
        /\ o.phase = "WaitForStorageMigrationPlanRefreshCompletion"
        /\ PlanKey \in stale'
     \/ /\ mw.obj.phase = "WaitForStorageMigrationPlanRefreshCompletion"
        /\ o.phase = "BeginLiveMigration"
        /\ plan.refresh = "done"
     \/ /\ mw.obj.phase = "BeginLiveMigration"
        /\ o.phase = "WaitForLiveMigrationToComplete"
        /\ mw.todo = {}
     \/ /\ mw.obj.phase = "WaitForLiveMigrationToComplete"
        /\ o.phase = "CleanupMigrationResources"
        /\ o.running = {}
     \/ mw.obj.phase = "CleanupMigrationResources" /\ o.phase = "Completed"
     \/ mw.obj.phase = "Canceling" /\ o.phase = "CleanupCancelledMigrations" /\ o.running = {}
     \/ mw.obj.phase = "CleanupCancelledMigrations" /\ o.phase = "Canceled"

\* A loop goes on to its next VM.
LoopGoesOn ==
  /\ mw'.m = mw.m /\ mw'.obj.phase = mw.obj.phase
  /\ mw'.obj.completed = mw.obj.completed /\ mw'.obj.cancelled = mw.obj.cancelled
  /\ mw'.obj.fin = mw.obj.fin /\ mw'.obj.deleting = mw.obj.deleting
  /\ mw'.sources = mw.sources /\ mw'.sourcesDone = mw.sourcesDone
  /\ \/ mw.pc \in SwapPCs /\ mw'.pc \in SwapPCs
     \/ /\ mw.pc = "Canceling" /\ mw'.pc = "Canceling" /\ mw'.obj = mw.obj
        /\ mw'.todo \cup mw'.kept \subseteq mw.obj.running

\* A task writes the plan only to ask for a refresh.
PlanAsked ==
  \/ UNCHANGED <<plan, stale>>
  \/ /\ plan.exists /\ plan' = [plan EXCEPT !.refresh = "started"]
     /\ stale' = stale \cup {PlanKey}

\* The loop of BeginLiveMigration goes on or ends.
LEMMA BeginSteps ==
  ASSUME TypeInv, CopyInv, RunBegin
  PROVE  /\ mw.pc \in SwapPCs /\ UNCHANGED <<mig, plan, stale>>
         /\ LoopGoesOn \/ \E o \in MigObj : Return(o) /\ EndOfTask(o)
<1>1. mw \in Worker /\ mw.obj \in MigObj
  BY DEF TypeInv, TypeOK, Worker
<1>2. mw.pc \in SwapPCs /\ UNCHANGED <<mig, plan, stale>>
  BY DEF RunBegin, BeginSkipVM, LiveMigrateCreateDV, OfflineMigrateSwap, LiveMigrateSwap,
         OfflineMigrateCreateDV, BeginFails, BeginDone, SwapPCs
<1>3. mw.obj.phase = "BeginLiveMigration"
  BY <1>2 DEF CopyInv, TaskOfPhase
<1>4. ASSUME NEW v \in VMs, BeginSkipVM(v) \/ LiveMigrateCreateDV(v) \/ OfflineMigrateSwap(v)
      PROVE  LoopGoesOn
  BY <1>1, <1>2, <1>4 DEF BeginSkipVM, LiveMigrateCreateDV, OfflineMigrateSwap, LoopGoesOn, SwapPCs, Worker
<1>5. CASE LiveMigrateSwap \/ OfflineMigrateCreateDV
  <2>1. mw' = Swapped(mw.at)
    BY <1>5 DEF LiveMigrateSwap, OfflineMigrateCreateDV
  <2>2. /\ Swapped(mw.at).pc = "BeginLiveMigration" /\ Swapped(mw.at).m = mw.m
        /\ Swapped(mw.at).obj.phase = mw.obj.phase
        /\ Swapped(mw.at).obj.completed = mw.obj.completed
        /\ Swapped(mw.at).obj.cancelled = mw.obj.cancelled
        /\ Swapped(mw.at).obj.fin = mw.obj.fin /\ Swapped(mw.at).obj.deleting = mw.obj.deleting
        /\ Swapped(mw.at).sources = mw.sources /\ Swapped(mw.at).sourcesDone = mw.sourcesDone
    BY <1>1 DEF Swapped, Worker, MigObj
  <2>. QED BY <1>2, <2>1, <2>2 DEF LoopGoesOn, SwapPCs
<1>6. CASE BeginFails
  <2>1. Return(mw.obj)
    BY <1>6 DEF BeginFails
  <2>2. EndOfTask(mw.obj)
    BY DEF EndOfTask, Carries
  <2>. QED BY <1>1, <1>2, <2>1, <2>2
<1>7. CASE BeginDone
  <2>. DEFINE o == [mw.obj EXCEPT !.phase = "WaitForLiveMigrationToComplete"]
  <2>1. o \in MigObj /\ o.phase = "WaitForLiveMigrationToComplete" /\ SameWork(o, mw.obj)
    BY <1>1 DEF MigObj, Phases, SameWork
  <2>2. Return(o) /\ mw.todo = {}
    BY <1>7 DEF BeginDone
  <2>. HIDE DEF o
  <2>3. EndOfTask(o)
    BY <1>3, <2>1, <2>2 DEF EndOfTask, Carries, SameWork
  <2>. QED BY <1>2, <2>1, <2>2, <2>3
<1>. QED BY <1>2, <1>4, <1>5, <1>6, <1>7 DEF RunBegin

\* The loop of Canceling goes on or ends.
LEMMA CancelingSteps ==
  ASSUME TypeInv, CopyInv, RunCanceling
  PROVE  /\ mw.pc = "Canceling" /\ UNCHANGED <<mig, plan, stale>>
         /\ LoopGoesOn \/ \E o \in MigObj : Return(o) /\ EndOfTask(o)
<1>1. mw \in Worker /\ mw.obj \in MigObj
  BY DEF TypeInv, TypeOK, Worker
<1>2. mw.pc = "Canceling" /\ UNCHANGED <<mig, plan, stale>>
  BY DEF RunCanceling, CancelVM, CancelFails, CancelDone
<1>3. mw.obj.phase = "Canceling" /\ mw.todo \cup mw.kept \subseteq mw.obj.running
  BY <1>2 DEF CopyInv, TaskOfPhase, TaskPhases, Phases
<1>4. ASSUME NEW v \in VMs, CancelVM(v)
      PROVE  LoopGoesOn
  <2>1. v \in mw.todo /\ \/ mw' = [mw EXCEPT !.todo = @ \ {v}, !.kept = @ \cup {v}]
                         \/ mw' = [mw EXCEPT !.todo = @ \ {v}]
    BY <1>4, Zenon DEF CancelVM
  <2>2. /\ mw'.m = mw.m /\ mw'.obj = mw.obj /\ mw'.pc = mw.pc
        /\ mw'.sources = mw.sources /\ mw'.sourcesDone = mw.sourcesDone
        /\ mw'.todo = mw.todo \ {v} /\ mw'.kept \in {mw.kept, mw.kept \cup {v}}
    BY <1>1, <2>1 DEF Worker
  <2>. QED BY <1>2, <1>3, <2>1, <2>2 DEF LoopGoesOn
<1>5. CASE CancelFails
  <2>1. Return(mw.obj)
    BY <1>5 DEF CancelFails
  <2>2. EndOfTask(mw.obj)
    BY DEF EndOfTask, Carries
  <2>. QED BY <1>1, <1>2, <2>1, <2>2
<1>6. CASE CancelDone
  <2>. DEFINE o == [mw.obj EXCEPT !.running = mw.kept, !.cancelled = mw.obj.running \ mw.kept,
                      !.phase = IF mw.kept = {} THEN "CleanupCancelledMigrations" ELSE @]
  <2>1. mw.kept \in SUBSET VMs /\ mw.obj.running \ mw.kept \in SUBSET VMs
    BY <1>1 DEF Worker, MigObj
  <2>2. "CleanupCancelledMigrations" \in Phases
    BY DEF Phases
  <2>3. /\ o \in MigObj /\ o.running = mw.kept /\ o.cancelled = mw.obj.running \ mw.kept
        /\ o.completed = mw.obj.completed /\ o.fin = mw.obj.fin /\ o.deleting = mw.obj.deleting
        /\ o.phase = IF mw.kept = {} THEN "CleanupCancelledMigrations" ELSE mw.obj.phase
    BY <1>1, <2>1, <2>2 DEF MigObj
  <2>4. Return(o)
    BY <1>6 DEF CancelDone
  <2>. HIDE DEF o
  <2>5. EndOfTask(o)
    BY <1>3, <2>3 DEF EndOfTask, Carries
  <2>. QED BY <1>2, <2>3, <2>4, <2>5
<1>. QED BY <1>2, <1>4, <1>5, <1>6 DEF RunCanceling

\* The phases that are a single step end.
LEMMA SingleSteps ==
  ASSUME TypeInv, CopyInv,
         RunStarted \/ RunRefresh \/ RunWaitForRefresh \/ RunWaitForLiveMigration
           \/ RunCleanupWaits \/ RunCleanupFails \/ RunCleanup \/ RunCleanupCancelled
  PROVE  /\ mw.pc \in TaskPhases /\ UNCHANGED mig /\ PlanAsked
         /\ \E o \in MigObj : Return(o) /\ EndOfTask(o)
<1>1. mw \in Worker /\ mw.obj \in MigObj
  BY DEF TypeInv, TypeOK, Worker
<1>2. mw.pc \in TaskPhases /\ UNCHANGED mig
  BY DEF RunStarted, RunRefresh, RunWaitForRefresh, RunWaitForLiveMigration, RunCleanupWaits,
         RunCleanupFails, RunCleanup, RunCleanupCancelled, TaskPhases, Phases
<1>3. mw.obj.phase = mw.pc
  BY <1>2 DEF CopyInv, TaskOfPhase
<1>4. PlanAsked
  BY DEF RunStarted, RunRefresh, RunWaitForRefresh, RunWaitForLiveMigration, RunCleanupWaits,
         RunCleanupFails, RunCleanup, RunCleanupCancelled, PlanAsked
<1>5. ASSUME Return(mw.obj) PROVE \E o \in MigObj : Return(o) /\ EndOfTask(o)
  BY <1>1, <1>5 DEF EndOfTask, Carries
<1>6. ASSUME NEW p \in Phases
      PROVE  LET o == [mw.obj EXCEPT !.phase = p]
             IN  o \in MigObj /\ o.phase = p /\ SameWork(o, mw.obj)
  BY <1>1 DEF MigObj, SameWork
<1>7. CASE RunStarted
  <2>. DEFINE o == [mw.obj EXCEPT !.fin = TRUE, !.phase = "RefreshStorageMigrationPlan"]
  <2>1. /\ o \in MigObj /\ o.phase = "RefreshStorageMigrationPlan" /\ o.running = mw.obj.running
        /\ o.fin /\ o.completed = mw.obj.completed /\ o.cancelled = mw.obj.cancelled
        /\ o.deleting = mw.obj.deleting
    BY <1>1 DEF MigObj, Phases
  <2>2. Return(o) /\ mw.obj.phase = "Started"
    BY <1>3, <1>7 DEF RunStarted
  <2>. HIDE DEF o
  <2>. QED BY <1>2, <1>4, <2>1, <2>2 DEF EndOfTask, Carries
<1>8. CASE RunRefresh
  <2>. DEFINE o == [mw.obj EXCEPT !.phase = "WaitForStorageMigrationPlanRefreshCompletion"]
  <2>1. /\ o \in MigObj /\ o.phase = "WaitForStorageMigrationPlanRefreshCompletion"
        /\ SameWork(o, mw.obj)
    BY <1>1 DEF MigObj, Phases, SameWork
  <2>2. /\ Return(mw.obj) \/ (Return(o) /\ PlanKey \in stale')
        /\ mw.obj.phase = "RefreshStorageMigrationPlan"
    BY <1>3, <1>8 DEF RunRefresh
  <2>. HIDE DEF o
  <2>. QED BY <1>2, <1>4, <1>5, <2>1, <2>2 DEF EndOfTask, Carries, SameWork
<1>9. CASE RunWaitForRefresh
  <2>. DEFINE o == [mw.obj EXCEPT !.phase = "BeginLiveMigration"]
  <2>1. o \in MigObj /\ o.phase = "BeginLiveMigration" /\ SameWork(o, mw.obj)
    BY <1>1 DEF MigObj, Phases, SameWork
  <2>2. /\ Return(mw.obj) \/ (Return(o) /\ plan.refresh = "done")
        /\ mw.obj.phase = "WaitForStorageMigrationPlanRefreshCompletion"
    BY <1>3, <1>9 DEF RunWaitForRefresh
  <2>. HIDE DEF o
  <2>. QED BY <1>2, <1>4, <1>5, <2>1, <2>2 DEF EndOfTask, Carries, SameWork
<1>10. CASE RunWaitForLiveMigration
  <2>. DEFINE o(done) == [mw.obj EXCEPT !.completed = @ \cup done]
              next(done) == [o(done) EXCEPT !.running = mw.obj.running \ done,
                !.phase = IF mw.obj.running \ done = {} THEN "CleanupMigrationResources" ELSE @]
  <2>1. PICK done \in SUBSET mw.obj.running :
           /\ \A v \in done : TRUE \in MigrationCompleted(v)
           /\ Return(o(done)) \/ Return(next(done))
    BY <1>10, Zenon DEF RunWaitForLiveMigration
  <2>2. mw.obj.phase = "WaitForLiveMigrationToComplete"
    BY <1>3, <1>10 DEF RunWaitForLiveMigration
  <2>3. /\ mw.obj.running \ done \in SUBSET VMs /\ mw.obj.completed \cup done \in SUBSET VMs
        /\ "CleanupMigrationResources" \in Phases
    BY <1>1 DEF MigObj, Phases
  <2>4. /\ o(done) \in MigObj /\ o(done).phase = mw.obj.phase /\ o(done).running = mw.obj.running
        /\ o(done).completed = mw.obj.completed \cup done /\ o(done).cancelled = mw.obj.cancelled
        /\ o(done).fin = mw.obj.fin /\ o(done).deleting = mw.obj.deleting
    BY <1>1, <2>3 DEF MigObj
  <2>5. /\ next(done) \in MigObj /\ next(done).running = mw.obj.running \ done
        /\ next(done).completed = mw.obj.completed \cup done /\ next(done).cancelled = mw.obj.cancelled
        /\ next(done).fin = mw.obj.fin /\ next(done).deleting = mw.obj.deleting
        /\ next(done).phase = IF mw.obj.running \ done = {} THEN "CleanupMigrationResources"
                              ELSE mw.obj.phase
    BY <1>1, <2>3 DEF MigObj
  <2>. HIDE DEF o, next
  <2>6. EndOfTask(o(done))
    BY <2>1, <2>2, <2>4 DEF EndOfTask, Carries
  <2>7. EndOfTask(next(done))
    BY <2>1, <2>2, <2>5 DEF EndOfTask, Carries
  <2>. QED BY <1>2, <1>4, <2>1, <2>4, <2>5, <2>6, <2>7
<1>11. CASE RunCleanupWaits \/ RunCleanupFails
  BY <1>2, <1>4, <1>5, <1>11 DEF RunCleanupWaits, RunCleanupFails
<1>12. CASE RunCleanup
  <2>. DEFINE o == [mw.obj EXCEPT !.fin = FALSE, !.phase = "Completed"]
  <2>1. /\ o \in MigObj /\ o.phase = "Completed" /\ o.running = mw.obj.running
        /\ o.completed = mw.obj.completed /\ o.cancelled = mw.obj.cancelled
        /\ o.deleting = mw.obj.deleting
    BY <1>1 DEF MigObj, Phases
  <2>2. Return(o) /\ mw.obj.phase = "CleanupMigrationResources"
    BY <1>3, <1>12 DEF RunCleanup
  <2>. HIDE DEF o
  <2>. QED BY <1>2, <1>4, <2>1, <2>2 DEF EndOfTask, Carries
<1>13. CASE RunCleanupCancelled
  <2>. DEFINE o == [mw.obj EXCEPT !.phase = IF PodsCleaned(mw.obj.completed) THEN "Canceled" ELSE @]
  <2>1. "Canceled" \in Phases
    BY DEF Phases
  <2>2. o \in MigObj /\ o.phase \in {"Canceled", mw.obj.phase} /\ SameWork(o, mw.obj)
    BY <1>1, <2>1 DEF MigObj, SameWork
  <2>3. Return(o) \/ Return(mw.obj)
    BY <1>13, Zenon DEF RunCleanupCancelled
  <2>4. mw.obj.phase = "CleanupCancelledMigrations"
    BY <1>3, <1>13 DEF RunCleanupCancelled
  <2>. HIDE DEF o
  <2>. QED BY <1>2, <1>4, <1>5, <2>2, <2>3, <2>4 DEF EndOfTask, Carries, SameWork
<1>. QED BY <1>7, <1>8, <1>9, <1>10, <1>11, <1>12, <1>13

\* A step of the worker: a loop goes on, a task ends, or the copy is written.
LEMMA WorkerSteps ==
  ASSUME TypeInv, CopyInv, MigWorkerStep
  PROVE  \/ PersistMeta
         \/ PersistStatus
         \/ /\ mw.pc \in TaskPhases \cup SwapPCs /\ UNCHANGED mig /\ PlanAsked
            /\ \/ LoopGoesOn /\ UNCHANGED <<plan, stale>>
               \/ \E o \in MigObj : Return(o) /\ EndOfTask(o)
<1>1. CASE RunBegin
  BY <1>1, BeginSteps DEF PlanAsked
<1>2. CASE RunCanceling
  <2>1. "Canceling" \in TaskPhases
    BY DEF TaskPhases, Phases
  <2>. QED BY <1>2, <2>1, CancelingSteps DEF PlanAsked
<1>3. CASE RunStarted \/ RunRefresh \/ RunWaitForRefresh \/ RunWaitForLiveMigration
           \/ RunCleanupWaits \/ RunCleanupFails \/ RunCleanup \/ RunCleanupCancelled
  BY <1>3, SingleSteps
<1>. QED BY <1>1, <1>2, <1>3 DEF MigWorkerStep

-----------------------------------------------------------------------------
(* The copy stays ahead of its object *)

\* The rank of a phase.
Ranked(p) ==
  \/ p = "Canceling" /\ CancelRank(p) = 1
  \/ p = "CleanupCancelledMigrations" /\ CancelRank(p) = 2
  \/ p = "Canceled" /\ CancelRank(p) = 3
  \/ p = "Gone" /\ CancelRank(p) = 4
  \/ p \notin {"Canceling", "CleanupCancelledMigrations", "Canceled", "Gone"} /\ CancelRank(p) = 0

\* CancelRank case by case.
LEMMA Ranks ==
  ASSUME NEW p
  PROVE  Ranked(p)
<1>. USE DEF Ranked
<1>1. CASE p = "Canceling"
  BY <1>1 DEF CancelRank
<1>2. CASE p = "CleanupCancelledMigrations"
  BY <1>2 DEF CancelRank
<1>3. CASE p = "Canceled"
  BY <1>3 DEF CancelRank
<1>4. CASE p = "Gone"
  BY <1>4 DEF CancelRank
<1>5. CASE p \notin {"Canceling", "CleanupCancelledMigrations", "Canceled", "Gone"}
  BY <1>5 DEF CancelRank
<1>. QED BY <1>1, <1>2, <1>3, <1>4, <1>5

\* From phase a to phase b the rank does not fall.
LEMMA RankRises ==
  ASSUME NEW a, NEW b,
         \/ a = b
         \/ b = "Gone"
         \/ a \notin {"Canceling", "CleanupCancelledMigrations", "Canceled", "Gone"}
         \/ a = "Canceling" /\ b = "CleanupCancelledMigrations"
         \/ a = "CleanupCancelledMigrations" /\ b = "Canceled"
  PROVE  CancelRank(a) <= CancelRank(b)
<1>1. Ranked(a) /\ Ranked(b)
  BY Ranks
<1>. QED BY <1>1 DEF Ranked

\* What is left to persist of the copy o of m: nothing, or o itself.
LEMMA ToPersistShape ==
  ASSUME TypeInv, NEW m \in Migs, NEW o \in MigObj, mw' = ToPersist(m, o)
  PROVE  \/ mw'.pc = "idle" /\ mw'.obj.running = {}
         \/ mw'.pc \in {"meta", "status"} /\ mw'.m = m /\ mw'.obj = o
BY ToPersistType DEF IdleWorker, NoMig

\* A copy that is about to be written, or none.
LEMMA PersistingCopy ==
  ASSUME RunningInPhase, UNCHANGED mig,
         \/ mw'.pc = "idle" /\ mw'.obj.running = {}
         \/ /\ mw'.pc \in {"meta", "status"}
            /\ mw'.obj.running # {} => mw'.obj.phase \in RunningPhases
            /\ mw'.m \notin stale' =>
                 /\ Exists(mw'.m)
                 /\ mig[mw'.m].phase \in OverPhases => mw'.obj.phase \in OverPhases
                 /\ CancelRank(mig[mw'.m].phase) <= CancelRank(mw'.obj.phase)
  PROVE  CopyInv'
<1>1. TaskOfPhase'
  BY DEF TaskOfPhase, TaskPhases, Phases, SwapPCs
<1>2. RunningInPhase'
  BY DEF RunningInPhase
<1>3. CopyAhead'
  BY DEF CopyAhead, Current, Exists
<1>. QED BY <1>1, <1>2, <1>3 DEF CopyInv

\* The end of a task.
LEMMA ReturnCopy ==
  ASSUME TypeInv, CopyInv, mw.pc \in TaskPhases \cup SwapPCs, UNCHANGED mig, stale \subseteq stale',
         NEW o \in MigObj, Return(o), EndOfTask(o)
  PROVE  CopyInv'
<1>1. mw.pc \notin {"idle", "down"} /\ mw.m \in Migs
  BY DEF TaskPhases, Phases, SwapPCs, TypeInv
<1>2. mw.obj.phase \in TaskPhases
  BY DEF CopyInv, TaskOfPhase, TaskPhases, Phases, SwapPCs
<1>3. \/ mw'.pc = "idle" /\ mw'.obj.running = {}
      \/ mw'.pc \in {"meta", "status"} /\ mw'.m = mw.m /\ mw'.obj = o
  BY <1>1, ToPersistShape DEF Return
<1>4. o.running # {} => o.phase \in RunningPhases
  BY DEF CopyInv, RunningInPhase, EndOfTask, RunningPhases
<1>5. CancelRank(mw.obj.phase) <= CancelRank(o.phase)
  <2>1. \/ mw.obj.phase = o.phase
        \/ mw.obj.phase \notin {"Canceling", "CleanupCancelledMigrations", "Canceled", "Gone"}
        \/ mw.obj.phase = "Canceling" /\ o.phase = "CleanupCancelledMigrations"
        \/ mw.obj.phase = "CleanupCancelledMigrations" /\ o.phase = "Canceled"
    BY DEF EndOfTask
  <2>. QED BY <2>1, RankRises, Zenon
<1>6. CancelRank(o.phase) \in Nat /\ CancelRank(mw.obj.phase) \in Nat /\ CancelRank(mig[mw.m].phase) \in Nat
  <2>1. Ranked(mw.obj.phase) /\ Ranked(o.phase) /\ Ranked(mig[mw.m].phase)
    BY Ranks
  <2>. QED BY <2>1 DEF Ranked
<1>7. mw.m \notin stale' => /\ Exists(mw.m)
                            /\ mig[mw.m].phase \notin OverPhases
                            /\ CancelRank(mig[mw.m].phase) <= CancelRank(o.phase)
  <2>. SUFFICES ASSUME mw.m \notin stale'
                PROVE  /\ Exists(mw.m)
                       /\ mig[mw.m].phase \notin OverPhases
                       /\ CancelRank(mig[mw.m].phase) <= CancelRank(o.phase)
    OBVIOUS
  <2>1. Current
    BY <1>1 DEF Current
  <2>2. mw.obj.phase \notin OverPhases
    BY <1>2 DEF TaskPhases, OverPhases
  <2>3. CancelRank(mig[mw.m].phase) <= CancelRank(mw.obj.phase)
    BY <2>1 DEF CopyInv, CopyAhead
  <2>4. CancelRank(mig[mw.m].phase) <= CancelRank(o.phase)
    BY <1>5, <1>6, <2>3
  <2>. QED BY <2>1, <2>2, <2>4 DEF CopyInv, CopyAhead
<1>. QED BY <1>3, <1>4, <1>7, PersistingCopy DEF CopyInv

\* Picking a task: the copy is the object, or one phase further.
LEMMA ReconcileCopy ==
  ASSUME TypeInv, CopyInv, NEW m \in Migs, Reconcile(m)
  PROVE  CopyInv'
<1>. DEFINE owned == [mig[m] EXCEPT !.owned = @ \/ plan.exists]
            o == [owned EXCEPT !.phase = TaskPhase(owned)]
            fresh == [IdleWorker EXCEPT !.pc = o.phase, !.m = m, !.obj = o,
                        !.sources = ReadSources, !.sourcesDone = ReadCompleted,
                        !.todo = LoopOver(o, ReadSources)]
<1>1. mig[m] \in MigObj /\ UNCHANGED mig /\ Exists(m) /\ RunningInPhase
  BY DEF TypeInv, TypeOK, Reconcile, CopyInv
<1>2. ASSUME NEW p \in MigObj, mw' = ToPersist(m, p), p.phase = mig[m].phase, p.running = mig[m].running
      PROVE  CopyInv'
  <2>1. \/ mw'.pc = "idle" /\ mw'.obj.running = {}
        \/ mw'.pc \in {"meta", "status"} /\ mw'.m = m /\ mw'.obj = p
    BY <1>2, ToPersistShape
  <2>2. CancelRank(p.phase) <= CancelRank(p.phase)
    BY RankRises, Zenon
  <2>. QED BY <1>1, <1>2, <2>1, <2>2, PersistingCopy DEF RunningInPhase
<1>3. CASE mw' = ToPersist(m, [mig[m] EXCEPT !.fin = FALSE])
  <2>1. /\ [mig[m] EXCEPT !.fin = FALSE] \in MigObj
        /\ [mig[m] EXCEPT !.fin = FALSE].phase = mig[m].phase
        /\ [mig[m] EXCEPT !.fin = FALSE].running = mig[m].running
    BY <1>1 DEF MigObj
  <2>. QED BY <1>2, <1>3, <2>1
<1>4. owned \in MigObj /\ owned.phase = mig[m].phase /\ owned.running = mig[m].running
  BY <1>1 DEF MigObj, TypeInv, TypeOK, PlanObj
<1>5. CASE mw' = ToPersist(m, owned)
  <2>. HIDE DEF owned
  <2>. QED BY <1>2, <1>4, <1>5
<1>6. CASE mig[m].phase \notin OverPhases /\ mw' = fresh
  <2>. HIDE DEF owned
  <2>1. o.phase = TaskPhase(owned) /\ o.running = mig[m].running
    BY <1>4 DEF MigObj
  <2>2. /\ o.phase \in TaskPhases
        /\ CancelRank(mig[m].phase) <= CancelRank(o.phase)
        /\ o.phase \in {mig[m].phase, "Started", "Canceling"}
        /\ o.phase = "Started" => mig[m].phase \in {"", "Started"}
    <3>. HIDE DEF o
    <3>1. mig[m].phase \in Phases \ {"Absent", "Gone", "Completed", "Canceled"}
      BY <1>1, <1>6 DEF Exists, OverPhases, MigObj
    <3>2. \/ o.phase = "Canceling" /\ mig[m].phase # "CleanupCancelledMigrations"
          \/ mig[m].phase = "" /\ o.phase = "Started"
          \/ mig[m].phase # "" /\ o.phase = mig[m].phase
      BY <1>4, <2>1 DEF TaskPhase
    <3>3. CancelRank(mig[m].phase) <= CancelRank(o.phase)
      <4>1. \/ mig[m].phase = o.phase
            \/ mig[m].phase \notin {"Canceling", "CleanupCancelledMigrations", "Canceled", "Gone"}
        BY <3>1, <3>2
      <4>. QED BY <4>1, RankRises, Zenon
    <3>. QED BY <3>1, <3>2, <3>3 DEF TaskPhases, Phases
  <2>3. o.phase = "Canceling" => LoopOver(o, ReadSources) = o.running
    BY DEF LoopOver
  <2>. HIDE DEF o
  <2>4. /\ mw'.pc = o.phase /\ mw'.m = m /\ mw'.obj = o
        /\ mw'.todo = LoopOver(o, ReadSources) /\ mw'.kept = {}
    BY <1>6 DEF IdleWorker
  <2>5. TaskOfPhase'
    BY <2>2, <2>3, <2>4 DEF TaskOfPhase, SwapPCs, TaskPhases, Phases
  <2>6. RunningInPhase'
    BY <1>1, <2>1, <2>2, <2>4 DEF RunningInPhase, RunningPhases
  <2>7. CopyAhead'
    BY <1>1, <1>6, <2>2, <2>4 DEF CopyAhead, Exists
  <2>. QED BY <2>5, <2>6, <2>7 DEF CopyInv
<1>. QED BY <1>3, <1>5, <1>6 DEF Reconcile

\* The two writes: the object keeps its status, becomes the copy, or goes.
LEMMA PersistShape ==
  ASSUME TypeInv, CopyInv, PersistMeta \/ PersistStatus
  PROVE  /\ UNCHANGED <<plan, stale>> /\ mw.pc \in {"meta", "status"} /\ mw.m \in Migs
         /\ \/ mw'.pc = "idle" /\ mw'.obj.running = {}
            \/ mw.pc = "meta" /\ mw'.pc = "status" /\ mw'.m = mw.m /\ mw'.obj = mw.obj
         /\ \A m \in Migs : \/ mig'[m].phase = mig[m].phase /\ mig'[m].running = mig[m].running
                            \/ m = mw.m /\ mw.m \notin stale /\ mig'[m].phase = "Gone" /\ mw'.pc = "idle"
                            \/ m = mw.m /\ mw.m \notin stale /\ mig'[m] = mw.obj /\ mw'.pc = "idle"
<1>1. /\ mw \in Worker /\ mw.obj \in MigObj /\ mig \in [Migs -> MigObj]
      /\ mw.m \in Migs /\ mig[mw.m] \in MigObj
      /\ UNCHANGED <<plan, stale>> /\ mw.pc \in {"meta", "status"}
  BY DEF TypeInv, TypeOK, Worker, PersistMeta, PersistStatus
<1>2. IdleWorker.pc = "idle" /\ IdleWorker.obj.running = {}
  BY DEF IdleWorker, NoMig
<1>3. CASE PersistMeta
  <2>. DEFINE o == [mig[mw.m] EXCEPT !.fin = mw.obj.fin, !.owned = mw.obj.owned]
  <2>1. /\ o.phase = mig[mw.m].phase /\ o.running = mig[mw.m].running
        /\ [o EXCEPT !.phase = "Gone"].phase = "Gone"
    BY <1>1 DEF MigObj
  <2>2. /\ mw.pc = "meta"
        /\ \/ mig' = mig /\ mw' = IdleWorker
           \/ /\ mig' = [mig EXCEPT ![mw.m] = o]
              /\ mw' = IdleWorker \/ mw' = [mw EXCEPT !.pc = "status"]
           \/ mw.m \notin stale /\ mig' = [mig EXCEPT ![mw.m] = [o EXCEPT !.phase = "Gone"]] /\ mw' = IdleWorker
    BY <1>3, Zenon DEF PersistMeta
  <2>3. LET u == [mw EXCEPT !.pc = "status"] IN u.pc = "status" /\ u.m = mw.m /\ u.obj = mw.obj
    BY <1>1 DEF Worker
  <2>. HIDE DEF o
  <2>. QED BY <1>1, <1>2, <2>1, <2>2, <2>3
<1>4. CASE PersistStatus
  <2>1. /\ mw' = IdleWorker
        /\ mig' = mig \/ (mw.m \notin stale /\ mig' = [mig EXCEPT ![mw.m] = mw.obj])
    BY <1>4 DEF PersistStatus
  <2>. QED BY <1>1, <1>2, <2>1
<1>. QED BY <1>3, <1>4

\* Writing keeps the invariant.
LEMMA PersistCopy ==
  ASSUME TypeInv, CopyInv, PersistMeta \/ PersistStatus
  PROVE  CopyInv'
<1>1. TaskOfPhase'
  BY PersistShape DEF TaskOfPhase, TaskPhases, Phases, SwapPCs
<1>2. RunningInPhase'
  BY PersistShape DEF CopyInv, RunningInPhase, RunningPhases
<1>3. CopyAhead'
  <2>. SUFFICES ASSUME Current'
                PROVE  /\ mig'[mw'.m].phase \notin {"Absent", "Gone"}
                       /\ mig'[mw'.m].phase \in OverPhases => mw'.obj.phase \in OverPhases
                       /\ CancelRank(mig'[mw'.m].phase) <= CancelRank(mw'.obj.phase)
    BY DEF CopyAhead, Exists
  <2>1. mw'.pc = "status" /\ mw'.m = mw.m /\ mw'.obj = mw.obj /\ mw.m \in Migs
    BY PersistShape DEF Current
  <2>2. mig'[mw.m].phase = mig[mw.m].phase
    BY <2>1, PersistShape
  <2>3. Current
    BY <2>1, PersistShape DEF Current
  <2>. QED BY <2>1, <2>2, <2>3 DEF CopyInv, CopyAhead, Exists
<1>. QED BY <1>1, <1>2, <1>3 DEF CopyInv

\* A step that leaves the worker alone.
LEMMA BystanderCopy ==
  ASSUME TypeInv, CopyInv, UNCHANGED mw,
         mw.m \in Migs /\ mw.m \notin stale' => mw.m \notin stale,
         \A m \in Migs :
           \/ mig'[m].phase = mig[m].phase /\ mig'[m].running = mig[m].running
           \/ mig[m].phase = "Absent" /\ mig'[m].phase = "" /\ mig'[m].running = mig[m].running
           \/ mig'[m].phase = "Gone" /\ m \in stale'
  PROVE  CopyInv'
<1>1. TaskOfPhase'
  BY DEF CopyInv, TaskOfPhase
<1>2. RunningInPhase'
  BY DEF CopyInv, RunningInPhase, RunningPhases
<1>3. CopyAhead'
  <2>. SUFFICES ASSUME Current'
                PROVE  /\ mig'[mw.m].phase \notin {"Absent", "Gone"}
                       /\ mig'[mw.m].phase \in OverPhases => mw.obj.phase \in OverPhases
                       /\ CancelRank(mig'[mw.m].phase) <= CancelRank(mw.obj.phase)
    BY DEF CopyAhead, Exists
  <2>1. mw.m \in Migs /\ mw.m \notin stale' /\ Current
    BY DEF Current, TypeInv
  <2>2. Exists(mw.m) /\ mig'[mw.m].phase = mig[mw.m].phase
    BY <2>1 DEF CopyInv, CopyAhead, Exists
  <2>. QED BY <2>1, <2>2 DEF CopyInv, CopyAhead, Exists
<1>. QED BY <1>1, <1>2, <1>3 DEF CopyInv

\* The steps that neither controller's worker nor a crash takes.
LEMMA OthersSteps ==
  ASSUME TypeInv, [Next]_vars
  PROVE  \/ \E m \in Migs : Reconcile(m) /\ UNCHANGED pw
         \/ MigWorkerStep /\ UNCHANGED pw
         \/ PlanReconcile
         \/ PlanWorkerStep
         \/ Crash \/ Restart
         \/ DeletePlan
         \/ /\ UNCHANGED <<plan, pw, mw>>
            /\ stale \subseteq stale' /\ (PlanKey \in stale' => PlanKey \in stale)
            /\ \A m \in Migs :
                 \/ mig'[m].phase = mig[m].phase /\ mig'[m].running = mig[m].running
                 \/ mig[m].phase = "Absent" /\ mig'[m].phase = "" /\ mig'[m].running = mig[m].running
                 \/ mig'[m].phase = "Gone" /\ m \in stale'
<1>1. mig \in [Migs -> MigObj]
  BY DEF TypeInv, TypeOK
<1>2. ASSUME NEW m \in Migs, CreateMigration(m)
      PROVE  \A n \in Migs :
                 \/ mig'[n].phase = mig[n].phase /\ mig'[n].running = mig[n].running
                 \/ mig[n].phase = "Absent" /\ mig'[n].phase = "" /\ mig'[n].running = mig[n].running
  BY <1>1, <1>2 DEF CreateMigration, MigObj
<1>3. ASSUME NEW m \in Migs, DeleteMigration(m) \/ CollectGarbage(m)
      PROVE  /\ UNCHANGED <<plan, pw, mw>>
             /\ stale \subseteq stale' /\ (PlanKey \in stale' => PlanKey \in stale)
             /\ \A n \in Migs :
                 \/ mig'[n].phase = mig[n].phase /\ mig'[n].running = mig[n].running
                 \/ mig'[n].phase = "Gone" /\ n \in stale'
  <2>1. MarkDeleted(m) /\ UNCHANGED <<plan, pw, mw>>
    BY <1>3 DEF DeleteMigration, CollectGarbage
  <2>2. m # PlanKey
    BY ClusterAssumption DEF PlanKey
  <2>. QED BY <1>1, <2>1, <2>2 DEF MarkDeleted, MigObj
<1>4. CASE \E v \in VMs : ClusterStep(v, Existing) /\ UNCHANGED <<mig, plan, stale, mw, pw>>
  BY <1>4
<1>5. CASE UNCHANGED vars
  BY <1>5 DEF vars
<1>6. ASSUME NEW m \in Migs, CreateMigration(m)
      PROVE  UNCHANGED <<plan, pw, mw, stale>>
  BY <1>6 DEF CreateMigration
<1>. QED BY <1>2, <1>3, <1>4, <1>5, <1>6 DEF Next

\* Every step keeps the copy ahead.
LEMMA CopyInvNext ==
  ASSUME TypeInv, CopyInv, [Next]_vars
  PROVE  CopyInv'
<1>1. CASE \E m \in Migs : Reconcile(m)
  BY <1>1, ReconcileCopy
<1>2. CASE MigWorkerStep
  <2>1. CASE PersistMeta \/ PersistStatus
    BY <2>1, PersistCopy
  <2>2. CASE /\ mw.pc \in TaskPhases \cup SwapPCs /\ UNCHANGED mig /\ PlanAsked
             /\ \E o \in MigObj : Return(o) /\ EndOfTask(o)
    <3>1. stale \subseteq stale'
      BY <2>2 DEF PlanAsked
    <3>. QED BY <2>2, <3>1, ReturnCopy
  <2>3. CASE mw.pc \in TaskPhases \cup SwapPCs /\ UNCHANGED <<mig, stale>> /\ LoopGoesOn
    <3>1. mw.pc \notin {"idle", "down"}
      BY <2>3 DEF TaskPhases, Phases, SwapPCs
    <3>2. mw.obj.phase = IF mw.pc = "Canceling" THEN "Canceling" ELSE "BeginLiveMigration"
      BY <2>3 DEF LoopGoesOn, CopyInv, TaskOfPhase, SwapPCs, TaskPhases, Phases
    <3>3. TaskOfPhase'
      BY <2>3, <3>2 DEF LoopGoesOn, TaskOfPhase, SwapPCs, TaskPhases, Phases
    <3>4. RunningInPhase'
      BY <2>3, <3>2 DEF LoopGoesOn, CopyInv, RunningInPhase, RunningPhases
    <3>5. CopyAhead'
      BY <2>3, <3>1 DEF LoopGoesOn, CopyInv, CopyAhead, Current, Exists
    <3>. QED BY <3>3, <3>4, <3>5 DEF CopyInv
  <2>. QED BY <1>2, <2>1, <2>2, <2>3, WorkerSteps
<1>3. CASE PlanReconcile \/ PlanWorkerStep
  <2>1. UNCHANGED <<mig, mw>> /\ (UNCHANGED stale \/ stale' = stale \ {PlanKey})
    BY <1>3 DEF PlanReconcile, PlanReconcileDeleting, PlanReconcileCompleted,
       PlanReconcileOpen, PlanReconcileFails, PlanReconcileStarts,
       PlanWorkerStep, PersistPlanMeta, PersistPlanStatus
  <2>2. PlanKey \notin Migs
    BY ClusterAssumption DEF PlanKey
  <2>. QED BY <2>1, <2>2, BystanderCopy
<1>4. CASE DeletePlan
  BY <1>4, BystanderCopy DEF DeletePlan
<1>5. CASE Crash \/ Restart
  <2>1. mw'.pc \in {"idle", "down"} /\ mw'.obj.running = {} /\ UNCHANGED mig
    BY <1>5 DEF Crash, Restart, IdleWorker, NoMig
  <2>. QED BY <2>1 DEF CopyInv, TaskOfPhase, RunningInPhase, CopyAhead, Current, TaskPhases, Phases, SwapPCs
<1>. QED BY <1>1, <1>2, <1>3, <1>4, <1>5, OthersSteps, BystanderCopy

\* In an initial state nothing is copied.
LEMMA CopyInvInit == Init => CopyInv
<1>. SUFFICES ASSUME Init PROVE CopyInv
  OBVIOUS
<1>1. mw.pc = "idle" /\ mw.obj.running = {}
  BY DEF Init, MigInit, IdleWorker, NoMig
<1>2. \A m \in Migs : mig[m].running = {}
  BY DEF Init, MigInit, NoMig
<1>. QED BY <1>1, <1>2 DEF CopyInv, TaskOfPhase, RunningInPhase, CopyAhead, Current, TaskPhases, Phases, SwapPCs

(***************************************************************************)
(* A cancel never turns back and its phases only move forward, for any     *)
(* number of migrations that overlap, lost writes and restarts included    *)
(* (maybeTransitionToCanceling, persistMigration).                         *)
(***************************************************************************)
THEOREM CancelsMoveOn == Spec => CancelMovesOn
<1>. DEFINE Forward == \A m \in Migs : CancelRank(mig[m].phase) <= CancelRank(mig'[m].phase)
<1>1. TypeInv /\ CopyInv /\ [Next]_vars => CopyInv'
  BY CopyInvNext
<1>2. TypeInv /\ CopyInv /\ [Next]_vars => [Forward]_vars
  <2>. SUFFICES ASSUME TypeInv, CopyInv, [Next]_vars, NEW m \in Migs
                PROVE  CancelRank(mig[m].phase) <= CancelRank(mig'[m].phase)
    OBVIOUS
  <2>2. ASSUME \/ mig'[m].phase = mig[m].phase
               \/ mig[m].phase = "Absent" /\ mig'[m].phase = ""
               \/ mig'[m].phase = "Gone"
        PROVE  CancelRank(mig[m].phase) <= CancelRank(mig'[m].phase)
    <3>1. \/ mig[m].phase = mig'[m].phase
          \/ mig'[m].phase = "Gone"
          \/ mig[m].phase \notin {"Canceling", "CleanupCancelledMigrations", "Canceled", "Gone"}
      BY <2>2
    <3>. QED BY <3>1, RankRises, Zenon
  <2>3. CASE MigWorkerStep
    <3>1. CASE PersistMeta \/ PersistStatus
      <4>1. CASE m = mw.m /\ mw.m \notin stale /\ mig'[m] = mw.obj
        <5>1. Current
          BY <3>1, <4>1, PersistShape DEF Current
        <5>. QED BY <4>1, <5>1 DEF CopyInv, CopyAhead
      <4>. QED BY <2>2, <3>1, <4>1, PersistShape
    <3>. QED BY <2>2, <2>3, <3>1, WorkerSteps
  <2>4. CASE UNCHANGED mig
    BY <2>2, <2>4
  <2>5. \/ MigWorkerStep
        \/ UNCHANGED mig
        \/ mig'[m].phase = mig[m].phase
        \/ mig[m].phase = "Absent" /\ mig'[m].phase = ""
        \/ mig'[m].phase = "Gone"
    BY OthersSteps DEF Reconcile, PlanReconcile, PlanReconcileDeleting, PlanReconcileCompleted,
       PlanReconcileOpen, PlanReconcileFails, PlanReconcileStarts,
       PlanWorkerStep, PersistPlanMeta, PersistPlanStatus, DeletePlan, Crash, Restart
  <2>. QED BY <2>2, <2>3, <2>4, <2>5
<1>. QED BY <1>1, <1>2, CopyInvInit, TypeInvInit, TypeInvNext, PTL DEF Spec, CancelMovesOn

-----------------------------------------------------------------------------
(* The plan goes last *)

\* The plan as a reconcile of a plan that is not deleting has it.
Kept(p) == p \in PlanObj /\ p.fin /\ p.exists /\ p.deleting = plan.deleting

\* Validation keeps the finalizer.
LEMMA ValidationKeeps ==
  ASSUME TypeInv, NEW p, Kept(p)
  PROVE  /\ \A now : Kept(Checked(p, now))
         /\ Kept(ProcessMigrations(p))
         /\ Kept(Refreshed(p))
         /\ Kept(Heal(p))
         /\ Kept(SetReconcileFailed(p))
         /\ \A st, seen, source : source \in [VMs -> Sources] => Kept(Validated(p, st, seen, source))
<1>. DEFINE Held(q) == q.fin /\ q.exists /\ q.deleting = plan.deleting
<1>1. p \in PlanObj /\ p.fin /\ p.exists /\ p.deleting = plan.deleting
  BY DEF Kept
<1>2. ASSUME NEW a, NEW b
      PROVE  /\ Held([p EXCEPT !.crit = a])
             /\ Held([p EXCEPT !.list = b, !.crit = a])
  BY <1>1 DEF PlanObj
<1>3. ASSUME NEW a, NEW b, NEW c, NEW d
      PROVE  /\ Held([p EXCEPT !.completed = a, !.list = b, !.rec = c])
             /\ Held([p EXCEPT !.completed = a, !.list = b, !.rec = c, !.crit = d])
  BY <1>1 DEF PlanObj
<1>4. ASSUME NEW now PROVE Kept(Checked(p, now))
  <2>1. \E a, b : Checked(p, now) = [p EXCEPT !.crit = a] \/ Checked(p, now) = [p EXCEPT !.list = b, !.crit = a]
    BY Zenon DEF Checked
  <2>. QED BY <1>1, <1>2, <2>1, PlanStepTypes DEF Kept
<1>5. Kept(ProcessMigrations(p))
  <2>1. \E a, b, c : ProcessMigrations(p) = [p EXCEPT !.completed = a, !.list = b, !.rec = c]
    BY Zenon DEF ProcessMigrations
  <2>. QED BY <1>1, <1>3, <2>1, PlanStepTypes DEF Kept
<1>6. Kept(Refreshed(p))
  BY <1>1, PlanStepTypes DEF Kept, Refreshed, PlanObj
<1>7. Kept(Heal(p))
  BY <1>1, PlanStepTypes DEF Kept, Heal, PlanObj
<1>8. Kept(SetReconcileFailed(p))
  <2>1. SetReconcileFailed(p) \in PlanObj
    BY <1>1 DEF PlanObj, CriticalTypes, SetReconcileFailed
  <2>. QED BY <1>1, <1>2, <2>1 DEF Kept, SetReconcileFailed
<1>9. ASSUME NEW st, NEW seen, NEW source \in [VMs -> Sources]
      PROVE  Kept(Validated(p, st, seen, source))
  <2>1. \E a, b, c, d : Validated(p, st, seen, source)
                          = [p EXCEPT !.completed = a, !.list = b, !.rec = c, !.crit = d]
    BY Zenon DEF Validated
  <2>. QED BY <1>1, <1>3, <2>1, ValidatedType DEF Kept
<1>. QED BY <1>4, <1>5, <1>6, <1>7, <1>8, <1>9

\* What persistPlan has to write.
LEMMA PlanToPersistShape ==
  ASSUME NEW p
  PROVE  \/ PlanToPersist(p).pc = "idle"
         \/ PlanToPersist(p).pc = "meta" /\ PlanToPersist(p).obj = p
         \/ /\ PlanToPersist(p).pc = "status" /\ PlanToPersist(p).obj = p
            /\ p.fin = plan.fin /\ p.refresh = plan.refresh
BY DEF PlanToPersist, planMeta, IdlePlanWorker

\* A reconcile of a plan that is not deleting writes it with its finalizer.
LEMMA AfterValidationKeeps ==
  ASSUME TypeInv, NEW p, Kept(p), AfterValidation(p)
  PROVE  \/ pw'.pc = "idle"
         \/ pw'.pc = "meta" /\ Kept(pw'.obj)
         \/ /\ pw'.pc = "status" /\ Kept(pw'.obj)
            /\ pw'.obj.fin = plan.fin /\ pw'.obj.refresh = plan.refresh
<1>1. PICK q \in Processed(p) : pw' = PlanToPersist(Refreshed(q))
  BY DEF AfterValidation
<1>2. Kept(Refreshed(q))
  <2>1. Kept(q)
    BY ValidationKeeps DEF Processed
  <2>. QED BY <2>1, ValidationKeeps
<1>. QED BY <1>1, <1>2, PlanToPersistShape

\* The outcome of a plan reconcile: nothing, the plan with its finalizer, or
\* the removal of the finalizer when no migration is active.
LEMMA PlanReconcileShape ==
  ASSUME TypeInv, PlanReconcile
  PROVE  /\ UNCHANGED <<mig, plan, mw>> /\ plan.exists /\ stale' = stale \ {PlanKey}
         /\ \/ pw'.pc = "idle"
            \/ pw'.pc = "meta" /\ Kept(pw'.obj)
            \/ /\ pw'.pc = "status" /\ pw'.obj.exists /\ pw'.obj.deleting = plan.deleting
               /\ pw'.obj.fin = plan.fin /\ pw'.obj.refresh = plan.refresh
            \/ /\ pw'.pc = "meta" /\ pw'.obj.exists /\ pw'.obj.deleting = plan.deleting
               /\ plan.deleting /\ ~HasActiveMigrations
<1>1. plan \in PlanObj
  BY DEF TypeInv, TypeOK
<1>2. PlanReconcileStarts
  BY DEF PlanReconcile, PlanReconcileDeleting, PlanReconcileCompleted, PlanReconcileOpen, PlanReconcileFails
<1>3. UNCHANGED <<mig, plan, mw>> /\ plan.exists /\ stale' = stale \ {PlanKey}
  BY <1>2 DEF PlanReconcileStarts
<1>4. ASSUME NEW p, Kept(p), AfterValidation(p)
      PROVE  \/ pw'.pc = "idle"
             \/ pw'.pc = "meta" /\ Kept(pw'.obj)
             \/ /\ pw'.pc = "status" /\ pw'.obj.exists /\ pw'.obj.deleting = plan.deleting
                /\ pw'.obj.fin = plan.fin /\ pw'.obj.refresh = plan.refresh
  BY <1>4, AfterValidationKeeps DEF Kept
<1>5. Kept([plan EXCEPT !.fin = TRUE]) /\ Kept([plan EXCEPT !.fin = TRUE, !.crit = @ \ {"ReconcileFailed"}])
  BY <1>1, <1>3 DEF Kept, PlanObj
<1>6. CASE PlanReconcileDeleting
  <2>. DEFINE q == [plan EXCEPT !.fin = FALSE]
  <2>1. q.exists /\ q.deleting = plan.deleting
    BY <1>1, <1>3 DEF PlanObj
  <2>2. pw' = IF HasActiveMigrations THEN IdlePlanWorker ELSE PlanToPersist(q)
    BY <1>6 DEF PlanReconcileDeleting
  <2>3. plan.deleting /\ IdlePlanWorker.pc = "idle"
    BY <1>6 DEF PlanReconcileDeleting, IdlePlanWorker
  <2>. HIDE DEF q
  <2>. QED BY <1>3, <2>1, <2>2, <2>3, PlanToPersistShape
<1>7. CASE PlanReconcileCompleted
  <2>. DEFINE read == [plan EXCEPT !.fin = TRUE, !.crit = @ \ {"ReconcileFailed"}]
  <2>1. AfterValidation(Heal(read))
    BY <1>7 DEF PlanReconcileCompleted
  <2>2. Kept(Heal(read))
    <3>. HIDE DEF read
    <3>1. Kept(read)
      BY <1>5 DEF read
    <3>. QED BY <3>1, ValidationKeeps
  <2>. HIDE DEF read
  <2>. QED BY <1>3, <1>4, <2>1, <2>2
<1>8. ASSUME NEW st, NEW knows
      PROVE  [v \in VMs |-> CreateStatusVM(v, st, knows[v])] \in [VMs -> Sources]
  BY SourceTypes
<1>9. CASE PlanReconcileOpen
  <2>. DEFINE read == [plan EXCEPT !.fin = TRUE]
              source(st, knows) == [v \in VMs |-> CreateStatusVM(v, st, knows[v])]
  <2>1. PICK st, now, knows : AfterValidation(Checked(Validated(read, st, VMs, source(st, knows)), now))
    BY <1>9, Zenon DEF PlanReconcileOpen
  <2>2. Kept(read) /\ source(st, knows) \in [VMs -> Sources]
    BY <1>5, <1>8
  <2>. HIDE DEF read, source
  <2>3. Kept(Validated(read, st, VMs, source(st, knows)))
    BY <2>2, ValidationKeeps
  <2>4. Kept(Checked(Validated(read, st, VMs, source(st, knows)), now))
    BY <2>3, ValidationKeeps
  <2>. QED BY <1>3, <1>4, <2>1, <2>4
<1>10. CASE PlanReconcileFails
  <2>. DEFINE read == [plan EXCEPT !.fin = TRUE]
              source(st, knows) == [v \in VMs |-> CreateStatusVM(v, st, knows[v])]
  <2>1. PICK st, seen, knows :
           \/ AfterValidation(SetReconcileFailed(read))
           \/ AfterValidation(SetReconcileFailed(Validated(read, st, seen, source(st, knows))))
    BY <1>10, Zenon DEF PlanReconcileFails
  <2>2. Kept(read) /\ source(st, knows) \in [VMs -> Sources]
    BY <1>5, <1>8
  <2>. HIDE DEF read, source
  <2>3. Kept(Validated(read, st, seen, source(st, knows)))
    BY <2>2, ValidationKeeps
  <2>4. /\ Kept(SetReconcileFailed(read))
        /\ Kept(SetReconcileFailed(Validated(read, st, seen, source(st, knows))))
    BY <2>2, <2>3, ValidationKeeps
  <2>. QED BY <1>3, <1>4, <2>1, <2>4
<1>. QED BY <1>6, <1>7, <1>9, <1>10 DEF PlanReconcile

\* A copy that was just read: the object, or its first or last detour.
LEMMA ReconcileShape ==
  ASSUME TypeInv, NEW m \in Migs, Reconcile(m)
  PROVE  /\ UNCHANGED <<mig, plan>> /\ Exists(m) /\ stale' = stale \ {m}
         /\ \/ mw'.pc = "idle"
            \/ /\ mw'.m = m /\ mw'.obj.running = mig[m].running
               /\ mw'.obj.phase \in {mig[m].phase, "Started", "Canceling"}
<1>. DEFINE owned == [mig[m] EXCEPT !.owned = @ \/ plan.exists]
            o == [owned EXCEPT !.phase = TaskPhase(owned)]
            fresh == [IdleWorker EXCEPT !.pc = o.phase, !.m = m, !.obj = o,
                        !.sources = ReadSources, !.sourcesDone = ReadCompleted,
                        !.todo = LoopOver(o, ReadSources)]
<1>1. mig[m] \in MigObj /\ UNCHANGED <<mig, plan>> /\ Exists(m) /\ stale' = stale \ {m}
  BY DEF TypeInv, TypeOK, Reconcile
<1>2. CASE mw' = ToPersist(m, [mig[m] EXCEPT !.fin = FALSE])
  <2>1. /\ [mig[m] EXCEPT !.fin = FALSE] \in MigObj
        /\ [mig[m] EXCEPT !.fin = FALSE].phase = mig[m].phase
        /\ [mig[m] EXCEPT !.fin = FALSE].running = mig[m].running
    BY <1>1 DEF MigObj
  <2>. QED BY <1>1, <1>2, <2>1, ToPersistShape
<1>3. owned \in MigObj /\ owned.phase = mig[m].phase /\ owned.running = mig[m].running
  BY <1>1 DEF MigObj, TypeInv, TypeOK, PlanObj
<1>4. CASE mw' = ToPersist(m, owned)
  <2>. HIDE DEF owned
  <2>. QED BY <1>1, <1>3, <1>4, ToPersistShape
<1>5. CASE mw' = fresh
  <2>. HIDE DEF owned
  <2>1. o.phase = TaskPhase(owned) /\ o.running = mig[m].running
    BY <1>3 DEF MigObj
  <2>2. TaskPhase(owned) \in {mig[m].phase, "Started", "Canceling"}
    BY <1>3 DEF TaskPhase
  <2>. HIDE DEF o
  <2>3. mw'.m = m /\ mw'.obj = o
    BY <1>5 DEF IdleWorker
  <2>. QED BY <1>1, <2>1, <2>2, <2>3
<1>. QED BY <1>2, <1>4, <1>5 DEF Reconcile

\* Reading a migration that does not work starts no work.
LEMMA ReadKept ==
  ASSUME TypeInv, NEW m \in Migs, Reconcile(m)
  PROVE  (NoWork => NoWork') /\ (NoRefresh => NoRefresh')
<1>1. \A n \in Migs : n \in Existing' <=> n \in Existing
  BY ReconcileShape DEF Existing, Exists
<1>2. m \in Existing /\ \A n \in Existing : n \in Migs /\ mig'[n] = mig[n]
  BY ReconcileShape DEF Existing
<1>3. ASSUME NoWork PROVE NoWork'
  <2>1. Harmless(mig[m])
    BY <1>2, <1>3 DEF NoWork
  <2>2. Current' => Harmless(mw'.obj)
    BY <2>1, ReconcileShape DEF Current, Harmless, WorkPhases
  <2>3. \A n \in Existing' : Harmless(mig'[n])
    BY <1>1, <1>2, <1>3 DEF NoWork, Existing
  <2>. QED BY <2>2, <2>3 DEF NoWork, Harmless
<1>4. ASSUME NoRefresh PROVE NoRefresh'
  <2>1. Fresh(mig[m])
    BY <1>2, <1>4 DEF NoRefresh
  <2>2. Current' => Fresh(mw'.obj)
    BY <2>1, ReconcileShape DEF Current, Fresh, Harmless, WorkPhases
  <2>3. \A n \in Existing' : Fresh(mig'[n])
    BY <1>1, <1>2, <1>4 DEF NoRefresh, Existing
  <2>. QED BY <2>2, <2>3 DEF NoRefresh, Fresh, Harmless
<1>. QED BY <1>3, <1>4

\* No work begins before a refresh is done, and asking for one makes the
\* plan stale.
LEMMA WorkKept ==
  ASSUME TypeInv, CopyInv, MigWorkerStep
  PROVE  /\ NoWork /\ plan.refresh # "done" => NoWork'
         /\ NoRefresh /\ PlanKey \notin stale' => NoRefresh'
<1>1. CASE PersistMeta \/ PersistStatus
  <2>1. Current' => Current /\ mw'.obj = mw.obj
    BY <1>1, PersistShape DEF Current
  <2>2. ASSUME NEW m \in Existing'
        PROVE  \/ m \in Existing /\ mig'[m].phase = mig[m].phase /\ mig'[m].running = mig[m].running
               \/ Current /\ mig'[m] = mw.obj
    BY <1>1, <2>2, PersistShape DEF Current, Existing, Exists
  <2>. QED BY <2>1, <2>2 DEF NoWork, NoRefresh, Fresh, Harmless
<1>2. CASE /\ mw.pc \in TaskPhases \cup SwapPCs /\ UNCHANGED mig /\ PlanAsked
           /\ \E o \in MigObj : Return(o) /\ EndOfTask(o)
  <2>1. PICK o \in MigObj : Return(o) /\ EndOfTask(o)
    BY <1>2
  <2>2. mw.pc \notin {"idle", "down"} /\ mw.m \in Migs
    BY <1>2 DEF TaskPhases, Phases, SwapPCs, TypeInv
  <2>3. \/ mw'.pc = "idle"
        \/ mw'.m = mw.m /\ mw'.obj = o
    BY <2>1, <2>2, ToPersistShape DEF Return
  <2>4. Current' => Current /\ mw'.obj = o
    BY <1>2, <2>2, <2>3 DEF Current, PlanAsked
  <2>5. Harmless(mw.obj) /\ plan.refresh # "done" => Harmless(o)
    BY <2>1 DEF EndOfTask, Harmless, WorkPhases
  <2>6. Fresh(mw.obj) /\ PlanKey \notin stale' => Fresh(o)
    BY <2>1 DEF EndOfTask, Fresh, Harmless, WorkPhases
  <2>7. \A m : m \in Existing' <=> m \in Existing
    BY <1>2 DEF Existing, Exists
  <2>8. NoWork /\ plan.refresh # "done" => NoWork'
    BY <1>2, <2>4, <2>5, <2>7 DEF NoWork, Harmless
  <2>9. NoRefresh /\ PlanKey \notin stale' => NoRefresh'
    BY <1>2, <2>4, <2>6, <2>7 DEF NoRefresh, Fresh, Harmless
  <2>. QED BY <2>8, <2>9
<1>3. CASE mw.pc \in TaskPhases \cup SwapPCs /\ UNCHANGED <<mig, stale>> /\ LoopGoesOn
  <2>1. mw.pc \notin {"idle", "down"}
    BY <1>3 DEF TaskPhases, Phases, SwapPCs
  <2>2. Current' => Current
    BY <1>3, <2>1 DEF LoopGoesOn, Current
  <2>3. mw'.obj = mw.obj \/ mw.obj.phase = "BeginLiveMigration"
    BY <1>3 DEF LoopGoesOn, CopyInv, TaskOfPhase
  <2>4. \A m : m \in Existing' <=> m \in Existing
    BY <1>3 DEF Existing, Exists
  <2>5. NoWork => NoWork'
    BY <1>3, <2>2, <2>3, <2>4 DEF NoWork, Harmless, WorkPhases
  <2>6. NoRefresh => NoRefresh'
    BY <1>3, <2>2, <2>3, <2>4 DEF NoRefresh, Fresh, Harmless, WorkPhases
  <2>. QED BY <2>5, <2>6
<1>. QED BY <1>1, <1>2, <1>3, WorkerSteps

\* A step that leaves the migration worker alone.
LEMMA BystanderKept ==
  ASSUME TypeInv, CopyInv, UNCHANGED mw,
         mw.m \in Migs /\ mw.m \notin stale' => mw.m \notin stale,
         \A m \in Migs :
           \/ mig'[m].phase = mig[m].phase /\ mig'[m].running = mig[m].running
           \/ mig[m].phase = "Absent" /\ mig'[m].phase = "" /\ mig'[m].running = mig[m].running
           \/ mig'[m].phase = "Gone" /\ m \in stale'
  PROVE  (NoWork => NoWork') /\ (NoRefresh => NoRefresh')
<1>1. Current' => Current /\ mw'.obj = mw.obj
  BY DEF Current, TypeInv
<1>2. ASSUME NEW m \in Existing'
      PROVE  \/ m \in Existing /\ mig'[m].phase = mig[m].phase /\ mig'[m].running = mig[m].running
             \/ mig'[m].phase = "" /\ mig'[m].running = {}
  BY <1>2 DEF Existing, Exists, CopyInv, RunningInPhase, RunningPhases
<1>3. NoWork => NoWork'
  BY <1>1, <1>2 DEF NoWork, Harmless, WorkPhases
<1>4. NoRefresh => NoRefresh'
  BY <1>1, <1>2 DEF NoRefresh, Fresh, Harmless, WorkPhases
<1>. QED BY <1>3, <1>4

\* A step that leaves the plan worker alone, and the plan too unless a
\* migration asks for a refresh.
LEMMA PlanLeft ==
  ASSUME TypeInv, PlanInv, UNCHANGED pw, PlanKey \in stale => PlanKey \in stale',
         \/ plan' = plan
         \/ plan.exists /\ plan' = [plan EXCEPT !.refresh = "started"] /\ PlanKey \in stale',
         NoWork /\ plan.refresh # "done" => NoWork',
         NoRefresh /\ PlanKey \notin stale' => NoRefresh'
  PROVE  PlanInv'
<1>1. plan \in PlanObj
  BY DEF TypeInv, TypeOK
<1>2. /\ plan'.exists = plan.exists /\ plan'.fin = plan.fin /\ plan'.deleting = plan.deleting
      /\ plan'.refresh = plan.refresh \/ (plan'.refresh = "started" /\ PlanKey \in stale')
  BY <1>1 DEF PlanObj
<1>3. Removing' => Removing
  BY DEF Removing
<1>. QED BY <1>2, <1>3 DEF PlanInv, Removing

\* A reconcile of the plan removes the finalizer only if no migration is active.
LEMMA PlanReconcileKeeps ==
  ASSUME TypeInv, CopyInv, PlanInv, PlanReconcile
  PROVE  PlanInv'
<1>1. /\ UNCHANGED <<mig, plan, mw>> /\ plan.exists /\ stale' = stale \ {PlanKey}
      /\ PlanKey \notin Migs
  BY PlanReconcileShape, ClusterAssumption DEF PlanKey
<1>2. (NoWork => NoWork') /\ (NoRefresh => NoRefresh')
  BY <1>1, BystanderKept
<1>3. ASSUME ~HasActiveMigrations PROVE NoRefresh
  <2>1. \A m \in Existing : mig[m].phase \in OverPhases
    BY <1>3 DEF HasActiveMigrations, OverPhases
  <2>2. \A m \in Existing : mig[m].running = {}
    BY <2>1 DEF CopyInv, RunningInPhase, RunningPhases, OverPhases, Existing
  <2>3. Current => mw.obj.phase \in OverPhases
    <3>1. Current => mw.m \in Existing
      BY DEF Current, CopyInv, CopyAhead, TypeInv, Existing
    <3>. QED BY <2>1, <3>1 DEF CopyInv, CopyAhead
  <2>4. Current => mw.obj.running = {}
    BY <2>3 DEF CopyInv, RunningInPhase, RunningPhases, OverPhases
  <2>. QED BY <2>1, <2>2, <2>3, <2>4 DEF NoRefresh, Fresh, Harmless, WorkPhases, OverPhases
<1>4. pw'.pc = "meta" /\ ~pw'.obj.fin => plan.deleting /\ NoRefresh
  BY <1>3, PlanReconcileShape DEF Kept
<1>5. pw'.pc \in {"meta", "status"} => pw'.obj.exists
  BY PlanReconcileShape DEF Kept
<1>6. pw'.pc = "status" => pw'.obj.fin = plan.fin /\ pw'.obj.refresh = plan.refresh
  BY PlanReconcileShape
<1>. QED BY <1>1, <1>2, <1>4, <1>5, <1>6 DEF PlanInv, Removing

\* The two writes of the plan.
LEMMA PersistPlanKeeps ==
  ASSUME TypeInv, CopyInv, PlanInv, PlanWorkerStep
  PROVE  PlanInv'
<1>1. plan \in PlanObj /\ pw \in PlanWorker /\ UNCHANGED <<mig, stale, mw>>
  BY DEF TypeInv, TypeOK, PlanWorkerStep, PersistPlanMeta, PersistPlanStatus
<1>2. NoWork => NoWork'
  BY <1>1, BystanderKept
<1>3. IdlePlanWorker.pc = "idle" /\ ~NoPlan.exists /\ ~NoPlan.fin /\ NoPlan.refresh = "none"
  BY DEF IdlePlanWorker, NoPlan
<1>4. CASE PlanKey \in stale
  <2>1. plan' = plan /\ pw' = IdlePlanWorker
    BY <1>4 DEF PlanWorkerStep, PersistPlanMeta, PersistPlanStatus
  <2>. QED BY <1>2, <1>3, <2>1 DEF PlanInv, Removing
<1>5. CASE PlanKey \notin stale /\ PersistPlanMeta
  <2>. DEFINE p == [plan EXCEPT !.fin = pw.obj.fin, !.refresh = pw.obj.refresh]
  <2>1. /\ p.exists = plan.exists /\ p.deleting = plan.deleting
        /\ p.fin = pw.obj.fin /\ p.refresh = pw.obj.refresh
    BY <1>1 DEF PlanObj
  <2>2. plan.exists /\ pw.obj.exists /\ pw.pc = "meta"
    BY <1>5 DEF PlanInv, PersistPlanMeta
  <2>3. CASE plan' = NoPlan /\ pw' = IdlePlanWorker /\ ~p.fin
    <3>1. Removing
      BY <1>5, <2>1, <2>2, <2>3 DEF Removing
    <3>2. NoWork
      BY <3>1 DEF PlanInv, NoRefresh, NoWork, Fresh
    <3>. QED BY <1>2, <1>3, <2>3, <3>2 DEF PlanInv, Removing
  <2>4. CASE /\ plan' = p /\ (p.fin \/ ~p.deleting)
             /\ pw' = [pw EXCEPT !.pc = "status"] \/ pw' = IdlePlanWorker
    <3>1. p.fin
      BY <2>1, <2>2, <2>4 DEF PlanInv
    <3>2. pw'.pc = "idle" \/ (pw'.pc = "status" /\ pw'.obj = pw.obj)
      BY <1>1, <1>3, <2>4 DEF PlanWorker
    <3>. HIDE DEF p
    <3>. QED BY <2>1, <2>2, <2>4, <3>1, <3>2 DEF PlanInv, Removing
  <2>. QED BY <1>5, <2>3, <2>4 DEF PersistPlanMeta
<1>6. CASE PlanKey \notin stale /\ PersistPlanStatus
  <2>1. plan' = pw.obj /\ pw' = IdlePlanWorker /\ pw.pc = "status"
    BY <1>6 DEF PersistPlanStatus
  <2>. QED BY <1>2, <1>3, <1>6, <2>1 DEF PlanInv, Removing
<1>. QED BY <1>4, <1>5, <1>6 DEF PlanWorkerStep

\* Every step keeps what is known of the plan and its finalizer.
LEMMA PlanInvNext ==
  ASSUME TypeInv, CopyInv, PlanInv, [Next]_vars
  PROVE  PlanInv'
<1>1. ASSUME NEW m \in Migs, Reconcile(m), UNCHANGED pw
      PROVE  PlanInv'
  <2>1. UNCHANGED plan /\ stale' = stale \ {m} /\ m # PlanKey
    BY <1>1, ReconcileShape, ClusterAssumption DEF PlanKey
  <2>. QED BY <1>1, <2>1, ReadKept, PlanLeft
<1>2. CASE MigWorkerStep /\ UNCHANGED pw
  <2>1. /\ PlanKey \in stale => PlanKey \in stale'
        /\ \/ plan' = plan
           \/ plan.exists /\ plan' = [plan EXCEPT !.refresh = "started"] /\ PlanKey \in stale'
    BY <1>2, WorkerSteps, PersistShape DEF PlanAsked
  <2>. QED BY <1>2, <2>1, WorkKept, PlanLeft
<1>3. CASE DeletePlan
  <2>1. plan \in PlanObj /\ UNCHANGED <<mig, mw, pw>> /\ stale' = stale \cup {PlanKey}
    BY <1>3 DEF TypeInv, TypeOK, DeletePlan
  <2>2. NoWork => NoWork'
    BY <2>1, BystanderKept
  <2>3. \/ plan.fin /\ plan'.fin /\ plan'.deleting /\ plan'.exists = plan.exists
        \/ ~plan.fin /\ ~plan'.fin /\ ~plan'.exists /\ plan'.refresh = "none"
    BY <1>3, <2>1 DEF DeletePlan, PlanObj, NoPlan
  <2>. QED BY <2>1, <2>2, <2>3 DEF PlanInv, Removing
<1>4. CASE Crash \/ Restart
  <2>1. /\ mw'.pc \in {"idle", "down"} /\ pw'.pc \in {"idle", "down"}
        /\ UNCHANGED <<mig, plan, stale>>
    BY <1>4 DEF Crash, Restart, IdleWorker, IdlePlanWorker
  <2>2. NoWork => NoWork'
    BY <2>1 DEF NoWork, Current, Harmless, Existing, Exists
  <2>. QED BY <2>1, <2>2 DEF PlanInv, Removing
<1>5. CASE /\ UNCHANGED <<plan, pw, mw>>
           /\ stale \subseteq stale' /\ (PlanKey \in stale' => PlanKey \in stale)
           /\ \A m \in Migs :
                \/ mig'[m].phase = mig[m].phase /\ mig'[m].running = mig[m].running
                \/ mig[m].phase = "Absent" /\ mig'[m].phase = "" /\ mig'[m].running = mig[m].running
                \/ mig'[m].phase = "Gone" /\ m \in stale'
  <2>1. (NoWork => NoWork') /\ (NoRefresh => NoRefresh')
    BY <1>5, BystanderKept
  <2>. QED BY <1>5, <2>1, PlanLeft
<1>. QED BY <1>1, <1>2, <1>3, <1>4, <1>5, PlanReconcileKeeps, PersistPlanKeeps, OthersSteps

\* In an initial state no migration has begun.
LEMMA PlanInvInit == Init => PlanInv
<1>. SUFFICES ASSUME Init PROVE PlanInv
  OBVIOUS
<1>1. mw.pc = "idle" /\ pw.pc = "idle" /\ plan.exists /\ plan.refresh = "none"
  BY DEF Init, MigInit, IdleWorker, PlanInit, IdlePlanWorker, NoPlan
<1>2. \A m \in Migs : mig[m].running = {} /\ mig[m].phase \in {"Absent", ""}
  BY DEF Init, MigInit, NoMig
<1>3. NoWork
  BY <1>1, <1>2 DEF NoWork, Current, Harmless, WorkPhases, Existing
<1>. QED BY <1>1, <1>3 DEF PlanInv, Removing

(***************************************************************************)
(* A plan is gone only when no migration has work on it, for any number of *)
(* migrations, in every environment (hasActiveMigrations, persistPlan): a  *)
(* migration that asks for its refresh after the plan controller looked    *)
(* makes the removal of the finalizer fail.                                *)
(***************************************************************************)
THEOREM PlanGoesLast == Spec => []PlanOutlivesSwaps
<1>1. TypeInv /\ CopyInv /\ [Next]_vars => CopyInv'
  BY CopyInvNext
<1>2. TypeInv /\ CopyInv /\ PlanInv /\ [Next]_vars => PlanInv'
  BY PlanInvNext
<1>3. PlanInv => PlanOutlivesSwaps
  BY DEF PlanInv, PlanOutlivesSwaps, NoWork, Harmless, WorkPhases
<1>. QED BY <1>1, <1>2, <1>3, TypeInvInit, TypeInvNext, CopyInvInit, PlanInvInit, PTL DEF Spec
===============================================================================
