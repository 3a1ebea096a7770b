----------------------- MODULE MultiNamespacePlanProofs -----------------------
(***************************************************************************)
(* What the multi-namespace plan controller does to the plans of the       *)
(* namespaces, for every set of namespaces and of parents, every           *)
(* disturbance and any number of failing calls and restarts.               *)
(***************************************************************************)
EXTENDS MultiNamespacePlan, FiniteSetTheorems, TLAPS

\* What the values a step may write have for types.
LEMMA PlanFanValues ==
  /\ Idle \in PlanFanWorker
  /\ NoChild \in ChildPlan
  /\ NoStatus \in Status
  /\ NoParent \in Parent
  /\ \A p \in Parents \cup {User} : NewChild(p) \in ChildPlan
  /\ \A st \in ChildStates : Report(st) \in Reports
<1>1. NoStatus \in Status
  BY DEF NoStatus, Status, Reports
<1>2. QED
  BY <1>1 DEF Idle, PlanFanWorker, NoChild, NewChild, ChildPlan, ChildStates, NoParent, Parent, Report, Reports

\* A deletion of a child keeps the types.
LEMMA DeleteChildType ==
  ASSUME PlanFanTypeOK, NEW n \in Namespaces, DeleteChild(n)
  PROVE  child' \in [Namespaces -> ChildPlan] /\ queue' \subseteq Parents
<1>1. Deleted(child[n]) \in ChildPlan
  BY PlanFanValues DEF Deleted, PlanFanTypeOK, ChildPlan
<1>2. QED
  BY <1>1 DEF DeleteChild, ParentOf, PlanFanTypeOK

\* The next namespace of the loop.
LEMMA NextNamespaceType ==
  ASSUME PlanFanTypeOK
  PROVE  NextNamespace \in PlanFanWorker
  BY DEF NextNamespace, PlanFanTypeOK, PlanFanWorker, CreatePCs

\* So does a creation.
LEMMA CreatedType ==
  ASSUME PlanFanTypeOK, NEW n \in Namespaces, w.p \in Parents, Created(n)
  PROVE  child' \in [Namespaces -> ChildPlan] /\ queue' \subseteq Parents /\ w' \in PlanFanWorker
  BY PlanFanValues, NextNamespaceType DEF Created, PlanFanTypeOK

\* And the return of an error.
LEMMA FailsType ==
  ASSUME PlanFanTypeOK, w.p \in Parents, Fails
  PROVE  queue' \subseteq Parents /\ w' \in PlanFanWorker
  BY PlanFanValues DEF Fails, PlanFanTypeOK

\* A change of the program counter of the worker.
LEMMA WorkerType ==
  ASSUME PlanFanTypeOK, NEW pc \in CreatePCs \cup {"meta", "removeFinalizer"}
  PROVE  [w EXCEPT !.pc = pc] \in PlanFanWorker
  BY DEF PlanFanTypeOK, PlanFanWorker

\* A step of the worker keeps the types.
LEMMA PlanFanStepType ==
  ASSUME PlanFanTypeOK, NoOrphanPlansInv, PlanFanStep
  PROVE  PlanFanTypeOK'
<1>0. /\ w.pc # "idle" => w.p \in Parents
      /\ w.pc \in NamespacePCs => w.at \in Namespaces
      /\ UNCHANGED <<ns, byHand, faults>>
  BY DEF NoOrphanPlansInv, PlanFanStep
<1>1. CASE AddFinalizer
  <2>1. w.p \in Parents /\ UNCHANGED <<child, behind>>
    BY <1>0, <1>1 DEF AddFinalizer
  <2>2. CASE Fails /\ UNCHANGED parent
    BY <1>0, <2>1, <2>2, FailsType DEF PlanFanTypeOK
  <2>3. ASSUME parent' = [parent EXCEPT ![w.p].fin = TRUE],
               queue' = queue \cup {w.p}, w' = [w EXCEPT !.pc = "checkCompleted"]
        PROVE  PlanFanTypeOK'
    <3>1. w' \in PlanFanWorker
      BY <2>3, WorkerType DEF CreatePCs
    <3>2. parent' \in [Parents -> Parent]
      <4>1. ASSUME NEW q \in Parent PROVE [q EXCEPT !.fin = TRUE] \in Parent
        BY DEF Parent
      <4>2. QED
        BY <2>1, <2>3, <4>1 DEF PlanFanTypeOK
    <3>3. QED
      BY <1>0, <2>1, <2>3, <3>1, <3>2 DEF PlanFanTypeOK
  <2>4. QED
    BY <1>1, <2>2, <2>3 DEF AddFinalizer
<1>2. CASE CheckCompleted
  <2>1. w' \in PlanFanWorker
    BY <1>2, PlanFanValues DEF CheckCompleted, PlanFanTypeOK, PlanFanWorker, CreatePCs
  <2>2. QED
    BY <1>0, <1>2, <2>1 DEF CheckCompleted, PlanFanTypeOK
<1>3. ASSUME NEW n \in Namespaces, GetChild(n) PROVE PlanFanTypeOK'
  <2> DEFINE v == [w EXCEPT !.found = @ \/ InvalidNamespace(n), !.status.invalid = @ \/ InvalidNamespace(n)]
  <2>1. v \in PlanFanWorker
    <3>1. [w.status EXCEPT !.invalid = @ \/ InvalidNamespace(n)] \in Status
      BY DEF PlanFanTypeOK, PlanFanWorker, Status
    <3>2. QED
      BY <3>1 DEF PlanFanTypeOK, PlanFanWorker
  <2>2. [v.status EXCEPT !.namespaces[n] = Report(child[n].st)] \in Status
    BY <2>1, PlanFanValues DEF PlanFanTypeOK, ChildPlan, PlanFanWorker, Status
  <2>3. w' \in PlanFanWorker
    <3> HIDE DEF v
    <3>1. [v EXCEPT !.pc = "create", !.at = n] \in PlanFanWorker /\ [v EXCEPT !.pc = "deleteStale", !.at = n] \in PlanFanWorker
      BY <2>1 DEF PlanFanWorker, CreatePCs, NamespacePCs
    <3>2. [v EXCEPT !.todo = @ \ {n}, !.status.namespaces[n] = Report(child[n].st)] \in PlanFanWorker
      BY <2>1, <2>2 DEF PlanFanWorker
    <3>3. w' \in {[v EXCEPT !.pc = "create", !.at = n], [v EXCEPT !.pc = "deleteStale", !.at = n],
                  [v EXCEPT !.todo = @ \ {n}, !.status.namespaces[n] = Report(child[n].st)]}
      BY <1>3 DEF GetChild, v
    <3>4. QED
      BY <3>1, <3>2, <3>3
  <2>4. QED
    BY <1>0, <1>3, <2>3 DEF GetChild, PlanFanTypeOK
<1>4. ASSUME NEW n \in Namespaces, FinalizeChild(n) PROVE PlanFanTypeOK'
  <2>1. w' \in PlanFanWorker
    BY <1>4 DEF FinalizeChild, PlanFanTypeOK, PlanFanWorker
  <2>2. QED
    BY <1>0, <1>4, <2>1, DeleteChildType DEF FinalizeChild, PlanFanTypeOK
<1>5. CASE DeleteStale
  BY <1>0, <1>5, DeleteChildType, WorkerType DEF DeleteStale, PlanFanTypeOK, CreatePCs, NamespacePCs
<1>6. CASE Create
  BY <1>0, <1>6, CreatedType, FailsType, WorkerType DEF Create, PlanFanTypeOK, CreatePCs, NamespacePCs
<1>7. CASE GetExisting
  <2>1. w' \in PlanFanWorker
    BY <1>7, NextNamespaceType, WorkerType DEF GetExisting, CreatePCs, NamespacePCs
  <2>2. QED
    BY <1>0, <1>7, <2>1 DEF GetExisting, PlanFanTypeOK
<1>8. CASE DeleteExisting
  BY <1>0, <1>8, DeleteChildType, WorkerType DEF DeleteExisting, PlanFanTypeOK, CreatePCs, NamespacePCs
<1>9. CASE CreateAgain
  BY <1>0, <1>9, CreatedType, FailsType DEF CreateAgain, PlanFanTypeOK, CreatePCs, NamespacePCs
<1>10. CASE UpdateStatus
  <2> DEFINE status == [w.status EXCEPT !.invalid = @ /\ w.found]
  <2>1. w.p \in Parents /\ status \in Status /\ UNCHANGED <<child, behind>>
    BY <1>0, <1>10 DEF UpdateStatus, PlanFanTypeOK, PlanFanWorker, Status
  <2>2. CASE w' = Idle /\ UNCHANGED <<parent, queue>>
    BY <1>0, <2>1, <2>2, PlanFanValues DEF PlanFanTypeOK
  <2>3. CASE Fails /\ UNCHANGED parent
    BY <1>0, <2>1, <2>3, FailsType DEF PlanFanTypeOK
  <2>4. ASSUME parent' = [parent EXCEPT ![w.p].status = status], queue' = queue \cup {w.p}, w' = [w EXCEPT !.pc = "meta"]
        PROVE  PlanFanTypeOK'
    <3> HIDE DEF status
    <3>1. [parent[w.p] EXCEPT !.status = status] \in Parent
      BY <2>1 DEF PlanFanTypeOK, Parent
    <3>2. parent' \in [Parents -> Parent]
      BY <2>1, <2>4, <3>1 DEF PlanFanTypeOK
    <3>3. w' \in PlanFanWorker
      BY <2>4, WorkerType
    <3>4. QED
      BY <1>0, <2>1, <2>4, <3>2, <3>3 DEF PlanFanTypeOK
  <2>5. QED
    BY <1>10, <2>2, <2>3, <2>4 DEF UpdateStatus
<1>11. CASE UpdateMeta
  BY <1>0, <1>11, FailsType, PlanFanValues DEF UpdateMeta, PlanFanTypeOK
<1>12. CASE ListAgain
  BY <1>0, <1>12, FailsType, WorkerType DEF ListAgain, PlanFanTypeOK
<1>13. CASE RemoveFinalizer
  <2>1. w.p \in Parents /\ UNCHANGED <<child, behind>>
    BY <1>0, <1>13 DEF RemoveFinalizer
  <2>2. CASE Fails /\ UNCHANGED parent
    BY <1>0, <2>1, <2>2, FailsType DEF PlanFanTypeOK
  <2>3. CASE parent' = [parent EXCEPT ![w.p].fin = FALSE, ![w.p].st = "gone"] /\ w' = Idle /\ UNCHANGED queue
    <3>1. [parent[w.p] EXCEPT !.fin = FALSE, !.st = "gone"] \in Parent
      <4>1. ASSUME NEW q \in Parent PROVE [q EXCEPT !.fin = FALSE, !.st = "gone"] \in Parent
        BY DEF Parent
      <4>2. QED
        BY <2>1, <4>1 DEF PlanFanTypeOK
    <3>2. parent' \in [Parents -> Parent]
      BY <2>1, <2>3, <3>1 DEF PlanFanTypeOK
    <3>3. QED
      BY <1>0, <2>1, <2>3, <3>2, PlanFanValues DEF PlanFanTypeOK
  <2>4. QED
    BY <1>13, <2>2, <2>3 DEF RemoveFinalizer
<1>14. QED
  BY <1>1, <1>2, <1>3, <1>4, <1>5, <1>6, <1>7, <1>8, <1>9, <1>10, <1>11, <1>12, <1>13 DEF PlanFanStep

\* No step changes the type of a variable.
LEMMA PlanFanNextType ==
  ASSUME PlanFanTypeOK, NoOrphanPlansInv, [PlanFanNext]_planFanVars
  PROVE  PlanFanTypeOK'
<1>1. ASSUME NEW p \in Parents, Dequeue(p), UNCHANGED <<ns, byHand, faults>> PROVE PlanFanTypeOK'
  <2>1. w' \in PlanFanWorker
    <3>1. CASE UNCHANGED w
      BY <3>1 DEF PlanFanTypeOK
    <3>2. CASE w' = [Idle EXCEPT !.pc = "finalize", !.p = p, !.todo = {n \in Owned(p) : ~child[n].deleting}]
      BY <3>2, PlanFanValues DEF PlanFanWorker, Owned
    <3>3. CASE w' = [Idle EXCEPT !.pc = FirstStep(p), !.p = p, !.spec = parent[p].spec, !.status = parent[p].status]
      BY <3>3, PlanFanValues DEF PlanFanTypeOK, Parent, PlanFanWorker, FirstStep, CreatePCs
    <3>4. QED
      BY <1>1, <3>1, <3>2, <3>3 DEF Dequeue
  <2>2. QED
    BY <1>1, <2>1 DEF Dequeue, PlanFanTypeOK
<1>2. ASSUME NEW p \in Parents, CreateParent(p) PROVE PlanFanTypeOK'
  <2>1. [parent[p] EXCEPT !.st = "present", !.spec = Namespaces] \in Parent
    BY DEF PlanFanTypeOK, Parent
  <2>2. parent' \in [Parents -> Parent]
    BY <1>2, <2>1 DEF CreateParent, PlanFanTypeOK
  <2>3. QED
    BY <1>2, <2>2 DEF CreateParent, PlanFanTypeOK
<1>3. ASSUME NEW p \in Parents, DeleteParent(p) PROVE PlanFanTypeOK'
  <2>1. parent' \in [Parents -> Parent]
    <3>1. PICK s \in {"present", "gone"} : parent' = [parent EXCEPT ![p].deleting = TRUE, ![p].st = s]
      BY <1>3 DEF DeleteParent
    <3>2. [parent[p] EXCEPT !.deleting = TRUE, !.st = s] \in Parent
      BY DEF PlanFanTypeOK, Parent
    <3>3. QED
      BY <3>1, <3>2 DEF PlanFanTypeOK
  <2>2. QED
    BY <1>3, <2>1 DEF DeleteParent, PlanFanTypeOK
<1>4. ASSUME NEW p \in Parents, NEW n \in Namespaces, EditSpec(p, n) PROVE PlanFanTypeOK'
  <2>1. parent' \in [Parents -> Parent]
    <3>1. PICK new \in SUBSET Namespaces : parent' = [parent EXCEPT ![p].spec = new]
      BY <1>4 DEF EditSpec, PlanFanTypeOK, Parent
    <3>2. QED
      BY <3>1 DEF PlanFanTypeOK, Parent
  <2>2. QED
    BY <1>4, <2>1 DEF EditSpec, Disturbance, PlanFanTypeOK
<1>5. CASE PlanFanStep
  BY <1>5, PlanFanStepType
<1>6. CASE CallFails
  BY <1>6, FailsType DEF CallFails, NoOrphanPlansInv, PlanFanTypeOK
<1>7. ASSUME NEW n \in Namespaces, ChildProgress(n) PROVE PlanFanTypeOK'
  BY <1>7, PlanFanValues DEF ChildProgress, ParentOf, PlanFanTypeOK, ChildPlan, ChildStates
<1>8. ASSUME NEW n \in Namespaces, UserCreates(n) PROVE PlanFanTypeOK'
  BY <1>8, PlanFanValues DEF UserCreates, Disturbance, PlanFanTypeOK
<1>9. ASSUME NEW n \in Namespaces, UserDeletes(n) PROVE PlanFanTypeOK'
  BY <1>9, DeleteChildType DEF UserDeletes, Disturbance, PlanFanTypeOK
<1>10. ASSUME NEW n \in Namespaces, NamespaceDeleted(n) \/ NamespaceComesBack(n) PROVE PlanFanTypeOK'
  BY <1>10, DeleteChildType DEF NamespaceDeleted, NamespaceComesBack, Disturbance, PlanFanTypeOK
<1>11. CASE PlanFanRestart
  BY <1>11, PlanFanValues DEF PlanFanRestart, PlanFanTypeOK
<1>12. CASE UNCHANGED planFanVars
  BY <1>12 DEF planFanVars, PlanFanTypeOK
<1>13. QED
  BY <1>1, <1>2, <1>3, <1>4, <1>5, <1>6, <1>7, <1>8, <1>9, <1>10, <1>11, <1>12 DEF PlanFanNext

\* A worker that stops leaves nothing to show about the worker.
LEMMA IdleWorker == Idle.pc = "idle" /\ "idle" \notin CreatePCs \cup NamespacePCs
  BY DEF Idle, CreatePCs, NamespacePCs

\* The deletion of a child leaves no child that was not there.
LEMMA DeleteChildOwners ==
  ASSUME PlanFanTypeOK, NEW n \in Namespaces, DeleteChild(n), NEW k \in Namespaces
  PROVE  child'[k].owner \in {child[k].owner, Nobody}
  BY DEF DeleteChild, Deleted, PlanFanTypeOK, ChildPlan, NoChild

\* What a look at a child makes of the worker.
LEMMA GetChildWorker ==
  ASSUME PlanFanTypeOK, NEW n \in Namespaces, GetChild(n)
  PROVE  /\ w'.p = w.p
         /\ \/ w'.pc = "loop"
            \/ w'.pc = "create" /\ w'.at = n
            \/ w'.pc = "deleteStale" /\ w'.at = n /\ child[n].owner # w.p
<1> DEFINE f == w.found \/ InvalidNamespace(n)
           s == [w.status EXCEPT !.invalid = @ \/ InvalidNamespace(n)]
           v == [w EXCEPT !.found = f, !.status = s]
<1>1. v = [pc |-> "loop", p |-> w.p, at |-> w.at, todo |-> w.todo, found |-> f, spec |-> w.spec, status |-> s]
  <2> HIDE DEF f, s
  <2>1. w \in PlanFanWorker /\ w.pc = "loop"
    BY DEF GetChild, PlanFanTypeOK
  <2>2. ASSUME NEW g, NEW t, NEW x, x = [w EXCEPT !.found = g, !.status = t]
        PROVE  x = [pc |-> w.pc, p |-> w.p, at |-> w.at, todo |-> w.todo, found |-> g, spec |-> w.spec, status |-> t]
    BY <2>1, <2>2 DEF PlanFanWorker
  <2>3. QED
    BY <2>1, <2>2
<1> HIDE DEF v
<1>2. \/ w' = [v EXCEPT !.pc = "create", !.at = n]
      \/ w' = [v EXCEPT !.todo = @ \ {n}, !.status.namespaces[n] = Report(child[n].st)]
      \/ w' = [v EXCEPT !.pc = "deleteStale", !.at = n] /\ child[n].owner # w.p
  BY DEF GetChild, IsOwnedByPlan, v
<1> HIDE DEF f, s
<1>3. CASE w' = [v EXCEPT !.pc = "create", !.at = n]
  BY <1>1, <1>3
<1>4. CASE w' = [v EXCEPT !.pc = "deleteStale", !.at = n] /\ child[n].owner # w.p
  BY <1>1, <1>4
<1>5. CASE w' = [v EXCEPT !.todo = @ \ {n}, !.status.namespaces[n] = Report(child[n].st)]
  BY <1>1, <1>5
<1>6. QED
  BY <1>2, <1>3, <1>4, <1>5

\* After a creation or a child that is there the loop goes on.
LEMMA NextNamespaceWorker ==
  ASSUME PlanFanTypeOK
  PROVE  NextNamespace.pc = "loop" /\ NextNamespace.p = w.p
  BY DEF NextNamespace, PlanFanTypeOK, PlanFanWorker

\* A step of the worker leaves no child without a parent.
LEMMA PlanFanStepOrphans ==
  ASSUME PlanFanTypeOK, NoOrphanPlansInv, PlanFanStep
  PROVE  NoOrphanPlansInv'
<1> USE PlanFanAssumption
<1>1. CASE AddFinalizer
  <2>1. UNCHANGED <<child, behind>> /\ w.p \in Parents
    BY <1>1 DEF AddFinalizer, NoOrphanPlansInv
  <2>2. CASE Fails /\ UNCHANGED parent
    BY <2>1, <2>2, IdleWorker DEF Fails, NoOrphanPlansInv
  <2>3. ASSUME w.p \notin behind,
               parent' = [parent EXCEPT ![w.p].fin = TRUE], w' = [w EXCEPT !.pc = "checkCompleted"]
        PROVE  NoOrphanPlansInv'
    <3>1. parent[w.p].st = "present"
      BY <1>1, <2>3 DEF AddFinalizer, NoOrphanPlansInv
    <3>2. parent'[w.p].fin /\ \A p \in Parents : parent'[p].st = parent[p].st /\ (parent[p].fin => parent'[p].fin)
      BY <2>1, <2>3 DEF PlanFanTypeOK, Parent
    <3>3. w'.pc = "checkCompleted" /\ w'.p = w.p
      BY <2>3 DEF PlanFanTypeOK, PlanFanWorker
    <3>4. QED
      BY <2>1, <3>1, <3>2, <3>3 DEF NoOrphanPlansInv, CreatePCs, NamespacePCs
  <2>4. QED
    BY <1>1, <2>2, <2>3 DEF AddFinalizer
<1>2. CASE CheckCompleted
  <2>1. CASE w' = Idle
    BY <1>2, <2>1, IdleWorker DEF CheckCompleted, NoOrphanPlansInv
  <2>2. CASE w' = [w EXCEPT !.pc = "loop", !.todo = w.spec]
    <3>1. w'.pc = "loop" /\ w'.p = w.p
      BY <2>2 DEF PlanFanTypeOK, PlanFanWorker
    <3>2. QED
      BY <1>2, <3>1 DEF CheckCompleted, NoOrphanPlansInv, CreatePCs, NamespacePCs
  <2>3. QED
    BY <1>2, <2>1, <2>2 DEF CheckCompleted
<1>3. ASSUME NEW n \in Namespaces, GetChild(n) PROVE NoOrphanPlansInv'
  BY <1>3, GetChildWorker DEF GetChild, NoOrphanPlansInv, CreatePCs, NamespacePCs
<1>4. ASSUME NEW n \in Namespaces, FinalizeChild(n) PROVE NoOrphanPlansInv'
  BY <1>4, DeleteChildOwners DEF FinalizeChild, NoOrphanPlansInv, PlanFanTypeOK, PlanFanWorker, CreatePCs, NamespacePCs
<1>5. CASE DeleteStale
  BY <1>5, DeleteChildOwners DEF DeleteStale, NoOrphanPlansInv, PlanFanTypeOK, PlanFanWorker, CreatePCs, NamespacePCs
<1>6. CASE Create
  BY <1>6, IdleWorker, NextNamespaceWorker DEF Create, Created, Fails, NewChild, NoOrphanPlansInv, PlanFanTypeOK, PlanFanWorker, CreatePCs, NamespacePCs
<1>7. CASE GetExisting
  BY <1>7, NextNamespaceWorker DEF GetExisting, NoOrphanPlansInv, PlanFanTypeOK, PlanFanWorker, CreatePCs, NamespacePCs
<1>8. CASE DeleteExisting
  BY <1>8, DeleteChildOwners DEF DeleteExisting, NoOrphanPlansInv, PlanFanTypeOK, PlanFanWorker, CreatePCs, NamespacePCs
<1>9. CASE CreateAgain
  BY <1>9, IdleWorker, NextNamespaceWorker DEF CreateAgain, Created, Fails, NewChild, NoOrphanPlansInv, PlanFanTypeOK, CreatePCs, NamespacePCs
<1>10. CASE UpdateStatus
  <2>1. w.p \in Parents /\ UNCHANGED child
    BY <1>10 DEF UpdateStatus, NoOrphanPlansInv
  <2>2. \A p \in Parents : parent'[p].st = parent[p].st /\ parent'[p].fin = parent[p].fin
    BY <1>10, <2>1 DEF UpdateStatus, PlanFanTypeOK, Parent
  <2>3. CASE w' = Idle
    BY <2>1, <2>2, <2>3, IdleWorker DEF NoOrphanPlansInv
  <2>4. CASE w' = [w EXCEPT !.pc = "meta"]
    <3>1. w'.pc = "meta" /\ w'.p = w.p
      BY <2>4 DEF PlanFanTypeOK, PlanFanWorker
    <3>2. QED
      BY <2>1, <2>2, <3>1 DEF NoOrphanPlansInv, CreatePCs, NamespacePCs
  <2>5. QED
    BY <1>10, <2>3, <2>4 DEF UpdateStatus, Fails
<1>14. CASE UpdateMeta
  BY <1>14, IdleWorker DEF UpdateMeta, Fails, NoOrphanPlansInv
<1>11. CASE ListAgain
  BY <1>11, IdleWorker DEF ListAgain, Fails, Owned, NoOrphanPlansInv, PlanFanTypeOK, PlanFanWorker, CreatePCs, NamespacePCs
<1>12. CASE RemoveFinalizer
  BY <1>12, IdleWorker DEF RemoveFinalizer, Fails, Owned, NoOrphanPlansInv, PlanFanTypeOK, Parent
<1>13. QED
  BY <1>1, <1>2, <1>3, <1>4, <1>5, <1>6, <1>7, <1>8, <1>9, <1>10, <1>11, <1>12, <1>14 DEF PlanFanStep

\* No step leaves a child without a parent.
LEMMA PlanFanNextOrphans ==
  ASSUME PlanFanTypeOK, NoOrphanPlansInv, [PlanFanNext]_planFanVars
  PROVE  NoOrphanPlansInv'
<1> USE PlanFanAssumption
<1>1. ASSUME NEW p \in Parents, Dequeue(p) PROVE NoOrphanPlansInv'
  <2>1. UNCHANGED <<parent, child>> /\ w.pc = "idle"
    BY <1>1 DEF Dequeue
  <2>2. CASE UNCHANGED w
    BY <2>1, <2>2 DEF NoOrphanPlansInv, CreatePCs, NamespacePCs
  <2>3. CASE w'.pc = "finalize" /\ w'.p = p
    BY <2>1, <2>3 DEF NoOrphanPlansInv, CreatePCs, NamespacePCs
  <2>4. CASE w'.pc = FirstStep(p) /\ w'.p = p /\ parent[p].st = "present"
    <3>1. CASE parent[p].fin
      BY <2>1, <2>4, <3>1 DEF FirstStep, NoOrphanPlansInv, CreatePCs, NamespacePCs
    <3>2. CASE ~parent[p].fin
      BY <2>1, <2>4, <3>2 DEF FirstStep, NoOrphanPlansInv, CreatePCs, NamespacePCs
    <3>3. QED
      BY <3>1, <3>2
  <2>5. QED
    BY <1>1, <2>2, <2>3, <2>4 DEF Dequeue, Idle
<1>2. ASSUME NEW p \in Parents, CreateParent(p) PROVE NoOrphanPlansInv'
  <2>1. \A q \in Parents : /\ parent'[q].fin = parent[q].fin
                           /\ parent[q].st = "present" => parent'[q].st = "present"
    BY <1>2 DEF CreateParent, PlanFanTypeOK, Parent
  <2>2. QED
    BY <1>2, <2>1, IdleWorker DEF CreateParent, Owned, NoOrphanPlansInv
<1>3. ASSUME NEW p \in Parents, DeleteParent(p) PROVE NoOrphanPlansInv'
  <2>1. UNCHANGED <<child, w>> /\ behind' = behind \cup {p}
    BY <1>3 DEF DeleteParent
  <2>2. \A q \in Parents : /\ parent[q].fin => parent'[q].fin
                           /\ q # p \/ parent[q].fin => parent'[q].st = parent[q].st
    BY <1>3 DEF DeleteParent, PlanFanTypeOK, Parent
  <2>3. w.pc = "addFinalizer" /\ w.p \notin behind' => parent'[w.p].st = "present"
    BY <2>1, <2>2 DEF NoOrphanPlansInv
  <2>4. w.pc \in CreatePCs => parent'[w.p].st = "present" /\ parent'[w.p].fin
    BY <2>2, IdleWorker DEF NoOrphanPlansInv
  <2>5. QED
    BY <2>1, <2>2, <2>3, <2>4 DEF Owned, NoOrphanPlansInv
<1>4. CASE PlanFanStep
  BY <1>4, PlanFanStepOrphans
<1>5. CASE CallFails
  BY <1>5, IdleWorker DEF CallFails, Fails, NoOrphanPlansInv
<1>6. ASSUME NEW n \in Namespaces, ChildProgress(n) PROVE NoOrphanPlansInv'
  BY <1>6 DEF ChildProgress, NoChild, Owned, NoOrphanPlansInv, PlanFanTypeOK, ChildPlan
<1>7. ASSUME NEW n \in Namespaces, UserCreates(n) PROVE NoOrphanPlansInv'
  BY <1>7 DEF UserCreates, NewChild, Owned, NoOrphanPlansInv, PlanFanTypeOK
<1>8. ASSUME NEW p \in Parents, NEW n \in Namespaces, EditSpec(p, n) PROVE NoOrphanPlansInv'
  <2>1. \A q \in Parents : parent'[q].st = parent[q].st /\ parent'[q].fin = parent[q].fin
    BY <1>8 DEF EditSpec, PlanFanTypeOK, Parent
  <2>2. QED
    BY <1>8, <2>1, IdleWorker DEF EditSpec, Owned, NoOrphanPlansInv
<1>12. ASSUME NEW n \in Namespaces, UserDeletes(n) \/ NamespaceDeleted(n) PROVE NoOrphanPlansInv'
  BY <1>12, DeleteChildOwners DEF UserDeletes, NamespaceDeleted, Owned, NoOrphanPlansInv
<1>13. ASSUME NEW n \in Namespaces, NamespaceComesBack(n) PROVE NoOrphanPlansInv'
  BY <1>13 DEF NamespaceComesBack, Owned, NoOrphanPlansInv
<1>9. CASE PlanFanRestart
  BY <1>9, IdleWorker DEF PlanFanRestart, NoOrphanPlansInv
<1>10. CASE UNCHANGED planFanVars
  BY <1>10 DEF planFanVars, Owned, NoOrphanPlansInv
<1>11. QED
  BY <1>1, <1>2, <1>3, <1>4, <1>5, <1>6, <1>7, <1>8, <1>9, <1>10, <1>12, <1>13 DEF PlanFanNext

\* The initial states satisfy the invariant.
LEMMA PlanFanInitInv == PlanFanInit => PlanFanTypeOK /\ NoOrphanPlansInv
<1>1. PlanFanInit => PlanFanTypeOK
  <2> SUFFICES ASSUME PlanFanInit PROVE PlanFanTypeOK
    OBVIOUS
  <2>1. parent \in [Parents -> Parent] /\ child \in [Namespaces -> ChildPlan]
    BY PlanFanValues DEF PlanFanInit
  <2>2. ns \in [Namespaces -> {"active", "terminating"}] /\ byHand \in BOOLEAN
    BY DEF PlanFanInit
  <2>3. QED
    BY <2>1, <2>2, PlanFanValues DEF PlanFanInit, PlanFanTypeOK
<1>2. PlanFanInit => NoOrphanPlansInv
  BY PlanFanAssumption, IdleWorker DEF PlanFanInit, NoOrphanPlansInv, NoChild
<1>3. QED
  BY <1>1, <1>2

(***************************************************************************)
(* Whatever fails and whoever creates and deletes parents, a child labelled *)
(* with a parent exists only while that parent does and carries the        *)
(* finalizer (Reconcile, runFinalizer).                                    *)
(***************************************************************************)
THEOREM ChildPlansGoFirst == PlanFanSpec => []NoOrphanPlansInv
<1>1. PlanFanTypeOK /\ NoOrphanPlansInv /\ [PlanFanNext]_planFanVars => (PlanFanTypeOK /\ NoOrphanPlansInv)'
  BY PlanFanNextType, PlanFanNextOrphans
<1>2. QED
  BY <1>1, PlanFanInitInv, PTL DEF PlanFanSpec

-----------------------------------------------------------------------------
(* With one live parent at a time *)

(***************************************************************************)
(* What keeps the children of a live parent: while the worker fans out for *)
(* a parent every other child has a parent that is being deleted, a child  *)
(* it is about to replace is not its own, and the finalizer has only its   *)
(* own children in hand.                                                   *)
(***************************************************************************)
OneLive == \A p, q \in Parents : Live(p) /\ Live(q) => p = q

OthersDeleting ==
  w.pc \in CreatePCs \cup {"addFinalizer"} =>
    \A n \in Namespaces : child[n].owner \in Parents \ {w.p} => parent[child[n].owner].deleting

StaleInHand == w.pc \in {"deleteStale", "deleteExisting"} => child[w.at].owner # w.p

FinalizesOwn ==
  w.pc = "finalize" =>
    parent[w.p].deleting /\ \A n \in w.todo : child[n].owner \in {w.p, User, Nobody}

\* A parent is created only when no other is live.
LEMMA CreateParentOneLive ==
  ASSUME LiveParents = 1, PlanFanTypeOK, NEW p \in Parents, CreateParent(p), NEW q \in Parents
  PROVE  ~Live(q)
<1> DEFINE L == {o \in Parents : Live(o)}
<1>1. IsFiniteSet(L)
  BY PlanFanAssumption, FS_Subset
<1>2. Cardinality(L) < 1 /\ Cardinality(L) \in Nat
  BY <1>1, FS_CardinalityType DEF CreateParent
<1>3. L = {}
  BY <1>1, <1>2, FS_EmptySet
<1>4. QED
  BY <1>3

\* A deleted parent stays deleted, and only CreateParent makes a parent live.
LEMMA ParentSteps ==
  ASSUME PlanFanTypeOK, NoOrphanPlansInv, [PlanFanNext]_planFanVars, NEW p \in Parents
  PROVE  /\ parent[p].deleting => parent'[p].deleting
         /\ Live(p)' => Live(p) \/ CreateParent(p)
<1>1. CASE UNCHANGED parent
  BY <1>1 DEF Live
<1>2. ASSUME NEW q \in Parents, CreateParent(q) PROVE (parent[p].deleting => parent'[p].deleting) /\ (Live(p)' => Live(p) \/ CreateParent(p))
  BY <1>2 DEF CreateParent, PlanFanTypeOK, Parent, Live
<1>3. ASSUME NEW q \in Parents, DeleteParent(q) PROVE (parent[p].deleting => parent'[p].deleting) /\ (Live(p)' => Live(p))
  BY <1>3 DEF DeleteParent, PlanFanTypeOK, Parent, Live
<1>4. CASE AddFinalizer
  BY <1>4 DEF AddFinalizer, NoOrphanPlansInv, PlanFanTypeOK, Parent, Live
<1>5. CASE UpdateStatus
  BY <1>5 DEF UpdateStatus, NoOrphanPlansInv, PlanFanTypeOK, Parent, Live
<1>6. CASE RemoveFinalizer
  BY <1>6 DEF RemoveFinalizer, NoOrphanPlansInv, PlanFanTypeOK, Parent, Live
<1>7. ASSUME NEW q \in Parents, NEW n \in Namespaces, EditSpec(q, n) PROVE parent'[p].deleting = parent[p].deleting /\ Live(p)' = Live(p)
  BY <1>7 DEF EditSpec, PlanFanTypeOK, Parent, Live
<1>8. QED
  BY <1>1, <1>2, <1>3, <1>4, <1>5, <1>6, <1>7
  DEF PlanFanNext, PlanFanStep, planFanVars, Dequeue, CheckCompleted, GetChild, FinalizeChild, DeleteStale, Create,
      GetExisting, DeleteExisting, CreateAgain, UpdateMeta, ListAgain, CallFails, ChildProgress, UserCreates, UserDeletes,
      NamespaceDeleted, NamespaceComesBack, PlanFanRestart

\* The parts of the invariant together.
KeepInv == OneLive /\ OthersDeleting /\ StaleInHand /\ FinalizesOwn

\* What a step may do to the owner of a child.
LEMMA OwnerSteps ==
  ASSUME PlanFanTypeOK, NoOrphanPlansInv, [PlanFanNext]_planFanVars, NEW n \in Namespaces
  PROVE  \/ child'[n].owner \in {child[n].owner, User, Nobody}
         \/ child'[n].owner = w.p /\ w'.pc = "loop" /\ w'.p = w.p
<1> DEFINE Goal == \/ child'[n].owner \in {child[n].owner, User, Nobody}
                   \/ child'[n].owner = w.p /\ w'.pc = "loop" /\ w'.p = w.p
<1>1. CASE UNCHANGED child
  BY <1>1
<1>2. ASSUME NEW k \in Namespaces, DeleteChild(k) PROVE Goal
  BY <1>2, DeleteChildOwners
<1>3. ASSUME NEW k \in Namespaces, Created(k) PROVE Goal
  BY <1>3, NextNamespaceWorker DEF Created, NewChild, PlanFanTypeOK
<1>4. ASSUME NEW k \in Namespaces, ChildProgress(k) PROVE Goal
  BY <1>4 DEF ChildProgress, NoChild, PlanFanTypeOK, ChildPlan
<1>5. ASSUME NEW k \in Namespaces, UserCreates(k) PROVE Goal
  BY <1>5 DEF UserCreates, NewChild, PlanFanTypeOK
<1>6. CASE DeleteStale \/ DeleteExisting
  BY <1>2, <1>6 DEF DeleteStale, DeleteExisting, NoOrphanPlansInv, NamespacePCs
<1>7. CASE Create \/ CreateAgain
  BY <1>1, <1>3, <1>7 DEF Create, CreateAgain, NoOrphanPlansInv, NamespacePCs
<1>8. ASSUME NEW k \in Namespaces, FinalizeChild(k) PROVE Goal
  BY <1>2, <1>8 DEF FinalizeChild
<1>9. ASSUME NEW k \in Namespaces, UserDeletes(k) \/ NamespaceDeleted(k) PROVE Goal
  BY <1>2, <1>9 DEF UserDeletes, NamespaceDeleted
<1>10. QED
  BY <1>1, <1>4, <1>5, <1>6, <1>7, <1>8, <1>9
  DEF PlanFanNext, PlanFanStep, planFanVars, Dequeue, CreateParent, DeleteParent, EditSpec, AddFinalizer, CheckCompleted, GetChild,
      GetExisting, UpdateStatus, UpdateMeta, ListAgain, RemoveFinalizer, CallFails, NamespaceComesBack, PlanFanRestart

\* There stays one live parent.
LEMMA OneLiveStep ==
  ASSUME LiveParents = 1, PlanFanTypeOK, NoOrphanPlansInv, OneLive, [PlanFanNext]_planFanVars
  PROVE  OneLive'
<1> SUFFICES ASSUME NEW p \in Parents, NEW q \in Parents, Live(p)', Live(q)' PROVE p = q
  BY DEF OneLive
<1>1. CASE Live(p) /\ Live(q)
  BY <1>1 DEF OneLive
<1>2. CASE CreateParent(p)
  BY <1>2, CreateParentOneLive DEF CreateParent, PlanFanTypeOK, Parent, Live
<1>3. CASE CreateParent(q)
  BY <1>3, CreateParentOneLive DEF CreateParent, PlanFanTypeOK, Parent, Live
<1>4. QED
  BY <1>1, <1>2, <1>3, ParentSteps

\* Where the worker can be after a step, and where it was before.
LEMMA WorkerSteps ==
  ASSUME PlanFanTypeOK, [PlanFanNext]_planFanVars
  PROVE  /\ w'.pc \in CreatePCs \cup {"addFinalizer"} =>
              \/ w.pc \in CreatePCs \cup {"addFinalizer"} /\ w'.p = w.p
              \/ \E p \in Parents : Live(p) /\ w'.p = p /\ UNCHANGED <<parent, child>>
         /\ w'.pc \in {"deleteStale", "deleteExisting"} =>
              \/ w.pc = w'.pc /\ w'.p = w.p /\ w'.at = w.at
              \/ child'[w'.at].owner # w'.p
         /\ w'.pc = "finalize" =>
              \/ w.pc = "finalize" /\ w'.p = w.p /\ w'.todo \subseteq w.todo
              \/ /\ \A n \in w'.todo : child'[n].owner = w'.p
                 /\ w'.p \in Parents /\ parent'[w'.p].deleting
<1> DEFINE G1 == w'.pc \in CreatePCs \cup {"addFinalizer"} =>
                   \/ w.pc \in CreatePCs \cup {"addFinalizer"} /\ w'.p = w.p
                   \/ \E p \in Parents : Live(p) /\ w'.p = p /\ UNCHANGED <<parent, child>>
           G2 == w'.pc \in {"deleteStale", "deleteExisting"} =>
                   \/ w.pc = w'.pc /\ w'.p = w.p /\ w'.at = w.at
                   \/ child'[w'.at].owner # w'.p
           G3 == w'.pc = "finalize" =>
                   \/ w.pc = "finalize" /\ w'.p = w.p /\ w'.todo \subseteq w.todo
                   \/ /\ \A n \in w'.todo : child'[n].owner = w'.p
                      /\ w'.p \in Parents /\ parent'[w'.p].deleting
<1>1. CASE UNCHANGED w
  BY <1>1
<1>2. CASE w' = Idle
  BY <1>2, IdleWorker
<1>3. ASSUME NEW p \in Parents, Dequeue(p) PROVE G1 /\ G2 /\ G3
  <2>1. UNCHANGED <<parent, child>>
    BY <1>3 DEF Dequeue
  <2>2. CASE w' = [Idle EXCEPT !.pc = "finalize", !.p = p, !.todo = {n \in Owned(p) : ~child[n].deleting}] /\ parent[p].deleting
    BY <2>1, <2>2 DEF Idle, Owned, CreatePCs, NamespacePCs
  <2>3. CASE w' = [Idle EXCEPT !.pc = FirstStep(p), !.p = p, !.spec = parent[p].spec, !.status = parent[p].status] /\ Live(p)
    BY <2>1, <2>3 DEF Idle, FirstStep
  <2>4. QED
    BY <1>1, <1>3, <2>2, <2>3 DEF Dequeue, Live
<1>4. ASSUME NEW n \in Namespaces, GetChild(n) PROVE G1 /\ G2 /\ G3
  BY <1>4, GetChildWorker DEF GetChild, CreatePCs, NamespacePCs
<1>12. CASE w' = NextNamespace /\ w.pc \in CreatePCs
  BY <1>12, NextNamespaceWorker DEF CreatePCs, NamespacePCs
<1>13. ASSUME NEW pc \in CreatePCs, w' = [w EXCEPT !.pc = pc], w.pc \in CreatePCs \cup {"addFinalizer"},
              pc # "deleteStale" /\ (pc = "deleteExisting" => child'[w.at].owner # w.p)
       PROVE  G1 /\ G2 /\ G3
  <2>1. w'.pc = pc /\ w'.p = w.p /\ w'.at = w.at
    BY <1>13 DEF PlanFanTypeOK, PlanFanWorker
  <2>2. QED
    BY <1>13, <2>1 DEF CreatePCs, NamespacePCs
<1>5. CASE GetExisting
  BY <1>5, <1>12, <1>13 DEF GetExisting, IsOwnedByPlan, CreatePCs, NamespacePCs
<1>6. CASE AddFinalizer
  BY <1>2, <1>6, <1>13 DEF AddFinalizer, Fails, CreatePCs
<1>14. CASE CheckCompleted
  <2>1. CASE w' = [w EXCEPT !.pc = "loop", !.todo = w.spec]
    <3>1. w'.pc = "loop" /\ w'.p = w.p
      BY <2>1 DEF PlanFanTypeOK, PlanFanWorker
    <3>2. QED
      BY <1>14, <3>1 DEF CheckCompleted, CreatePCs, NamespacePCs
  <2>2. QED
    BY <1>2, <1>14, <2>1 DEF CheckCompleted
<1>7. CASE DeleteStale \/ Create \/ DeleteExisting
  BY <1>2, <1>7, <1>12, <1>13 DEF DeleteStale, Create, DeleteExisting, Created, Fails, CreatePCs, NamespacePCs
<1>8. ASSUME NEW n \in Namespaces, FinalizeChild(n) PROVE G1 /\ G2 /\ G3
  BY <1>8 DEF FinalizeChild, PlanFanTypeOK, PlanFanWorker, CreatePCs, NamespacePCs
<1>9. CASE ListAgain
  BY <1>2, <1>9 DEF ListAgain, Fails, PlanFanTypeOK, PlanFanWorker, CreatePCs, NamespacePCs
<1>10. CASE CreateAgain \/ UpdateMeta \/ RemoveFinalizer \/ CallFails \/ PlanFanRestart
  BY <1>2, <1>10, <1>12 DEF CreateAgain, Created, UpdateMeta, RemoveFinalizer, CallFails, PlanFanRestart, Fails, CreatePCs, NamespacePCs
<1>15. CASE UpdateStatus
  <2>1. CASE w' = [w EXCEPT !.pc = "meta"]
    BY <2>1 DEF PlanFanTypeOK, PlanFanWorker, CreatePCs, NamespacePCs
  <2>2. QED
    BY <1>2, <1>15, <2>1 DEF UpdateStatus, Fails
<1>11. QED
  BY <1>1, <1>3, <1>4, <1>5, <1>6, <1>7, <1>8, <1>9, <1>10, <1>14, <1>15
  DEF PlanFanNext, PlanFanStep, planFanVars, CreateParent, DeleteParent, EditSpec, ChildProgress, UserCreates, UserDeletes,
      NamespaceDeleted, NamespaceComesBack

\* The invariant is kept.
LEMMA KeepStep ==
  ASSUME LiveParents = 1, PlanFanTypeOK, NoOrphanPlansInv, NoOrphanPlansInv', KeepInv, [PlanFanNext]_planFanVars
  PROVE  KeepInv'
<1>1. OneLive'
  BY OneLiveStep DEF KeepInv
<1>2. OthersDeleting'
  <2> SUFFICES ASSUME w'.pc \in CreatePCs \cup {"addFinalizer"}, NEW n \in Namespaces,
                      child'[n].owner \in Parents \ {w'.p}
               PROVE  parent'[child'[n].owner].deleting
    BY DEF OthersDeleting
  <2>1. child'[n].owner = child[n].owner
    BY OwnerSteps, IdleWorker, PlanFanAssumption DEF CreatePCs, NamespacePCs
  <2>2. CASE w.pc \in CreatePCs \cup {"addFinalizer"} /\ w'.p = w.p
    BY <2>1, <2>2, ParentSteps DEF KeepInv, OthersDeleting
  <2>3. ASSUME NEW p \in Parents, Live(p), w'.p = p, UNCHANGED <<parent, child>>
        PROVE  parent'[child'[n].owner].deleting
    <3>1. parent[child[n].owner].st = "present"
      BY <2>1 DEF NoOrphanPlansInv
    <3>2. QED
      BY <2>1, <2>3, <3>1 DEF KeepInv, OneLive, Live
  <2>4. QED
    BY <2>2, <2>3, WorkerSteps
<1>3. StaleInHand'
  <2> SUFFICES ASSUME w'.pc \in {"deleteStale", "deleteExisting"} PROVE child'[w'.at].owner # w'.p
    BY DEF StaleInHand
  <2>1. CASE w.pc = w'.pc /\ w'.p = w.p /\ w'.at = w.at
    <3>1. w.at \in Namespaces /\ w.p \in Parents /\ child[w.at].owner # w.p
      BY <2>1 DEF NoOrphanPlansInv, NamespacePCs, KeepInv, StaleInHand
    <3>2. child'[w.at].owner \in {child[w.at].owner, User, Nobody}
      BY <3>1, OwnerSteps, IdleWorker
    <3>3. QED
      BY <2>1, <3>1, <3>2, PlanFanAssumption
  <2>2. QED
    BY <2>1, WorkerSteps
<1>4. FinalizesOwn'
  <2> SUFFICES ASSUME w'.pc = "finalize"
               PROVE  parent'[w'.p].deleting /\ \A n \in w'.todo : child'[n].owner \in {w'.p, User, Nobody}
    BY DEF FinalizesOwn
  <2>1. CASE w.pc = "finalize" /\ w'.p = w.p /\ w'.todo \subseteq w.todo
    <3>1. w.p \in Parents /\ w.todo \subseteq Namespaces
      BY <2>1 DEF NoOrphanPlansInv, PlanFanTypeOK, PlanFanWorker
    <3>2. parent[w.p].deleting /\ \A n \in w.todo : child[n].owner \in {w.p, User, Nobody}
      BY <2>1 DEF KeepInv, FinalizesOwn
    <3>3. parent'[w.p].deleting
      BY <3>1, <3>2, ParentSteps
    <3>4. ASSUME NEW n \in w'.todo PROVE child'[n].owner \in {w.p, User, Nobody}
      BY <2>1, <3>1, <3>2, OwnerSteps
    <3>5. QED
      BY <2>1, <3>3, <3>4
  <2>2. QED
    BY <2>1, WorkerSteps
<1>5. QED
  BY <1>1, <1>2, <1>3, <1>4 DEF KeepInv

\* A step of the worker deletes a child only when its parent is being deleted.
LEMMA DeletesOnlyOrphans ==
  ASSUME PlanFanTypeOK, NoOrphanPlansInv, KeepInv, PlanFanStep,
         NEW n \in Namespaces, ChildDeleted(n), child[n].owner \in Parents
  PROVE  parent[child[n].owner].deleting
<1> USE PlanFanAssumption
<1>1. CASE UNCHANGED child
  BY <1>1 DEF ChildDeleted
<1>2. ASSUME NEW k \in Namespaces, DeleteChild(k) PROVE n = k
  BY <1>2 DEF ChildDeleted, DeleteChild, PlanFanTypeOK
<1>3. CASE DeleteStale \/ DeleteExisting
  <2>1. w.at \in Namespaces /\ DeleteChild(w.at)
    BY <1>3 DEF DeleteStale, DeleteExisting, NoOrphanPlansInv, NamespacePCs
  <2>2. n = w.at /\ child[n].owner # w.p
    BY <1>2, <1>3, <2>1 DEF DeleteStale, DeleteExisting, KeepInv, StaleInHand
  <2>3. QED
    BY <1>3, <2>2 DEF DeleteStale, DeleteExisting, KeepInv, OthersDeleting, CreatePCs, NamespacePCs
<1>4. ASSUME NEW k \in Namespaces, FinalizeChild(k) PROVE parent[child[n].owner].deleting
  BY <1>2, <1>4 DEF FinalizeChild, KeepInv, FinalizesOwn
<1>5. CASE Create \/ CreateAgain
  BY <1>1, <1>5 DEF Create, CreateAgain, Created, ChildDeleted, PlanFanTypeOK
<1>6. QED
  BY <1>1, <1>3, <1>4, <1>5
  DEF PlanFanStep, AddFinalizer, CheckCompleted, GetChild, GetExisting, UpdateStatus, UpdateMeta, ListAgain, RemoveFinalizer

\* The initial states satisfy the invariant.
LEMMA KeepInit == PlanFanInit => KeepInv
  BY IdleWorker DEF PlanFanInit, KeepInv, OneLive, OthersDeleting, StaleInHand, FinalizesOwn, Live, NoParent, Idle, CreatePCs, NamespacePCs

(***************************************************************************)
(* When no two parents of one name live at a time, the controller deletes  *)
(* a child only when its parent is being deleted, although it deletes by   *)
(* name what it read earlier (Reconcile, createNamespacePlan,              *)
(* runFinalizer).                                                          *)
(***************************************************************************)
THEOREM LiveChildPlansKept == ASSUME LiveParents = 1 PROVE PlanFanSpec => LiveChildPlanKept
<1> DEFINE Inv == PlanFanTypeOK /\ NoOrphanPlansInv /\ KeepInv
<1>1. PlanFanInit => Inv
  BY PlanFanInitInv, KeepInit
<1>2. Inv /\ [PlanFanNext]_planFanVars => Inv'
  BY PlanFanNextType, PlanFanNextOrphans, KeepStep
<1>3. Inv /\ [PlanFanNext]_planFanVars =>
        [\A n \in Namespaces : PlanFanStep /\ ChildDeleted(n) /\ child[n].owner \in Parents => parent[child[n].owner].deleting]_planFanVars
  BY DeletesOnlyOrphans
<1>4. QED
  BY <1>1, <1>2, <1>3, PTL DEF PlanFanSpec, LiveChildPlanKept

-----------------------------------------------------------------------------
(* The abstract specification *)

\* Others than the controller may remove children of a live parent.
Interfering == PlanEnv \cap {"userDelete", "namespace"} # {}

\* Otherwise a marked child has a parent that is being deleted, and so has
\* the worker that removes a finalizer.
MarkedOfDeleting ==
  ~Interfering => \A n \in Namespaces : child[n].owner \in Parents /\ child[n].deleting => parent[child[n].owner].deleting

FinalizerOfDeleting ==
  /\ \A p \in Parents : parent[p].st = "absent" => ~parent[p].deleting
  /\ w.pc = "removeFinalizer" => parent[w.p].deleting

\* The refinement holds in the states with these.
OwnershipInv == PlanFanTypeOK /\ NoOrphanPlansInv /\ KeepInv /\ MarkedOfDeleting /\ FinalizerOfDeleting

\* A new child is not marked.
LEMMA NewChildUnmarked ==
  ASSUME PlanFanTypeOK, NoOrphanPlansInv, [PlanFanNext]_planFanVars, NEW n \in Namespaces,
         child[n].owner = Nobody
  PROVE  child'[n].owner # Nobody => ~child'[n].deleting
<1> DEFINE Goal == child'[n].owner # Nobody => ~child'[n].deleting
<1>1. CASE child'[n] = child[n]
  BY <1>1
<1>2. ASSUME NEW k \in Namespaces, DeleteChild(k) PROVE Goal
  BY <1>2, DeleteChildOwners
<1>3. ASSUME NEW k \in Namespaces, NEW o, child' = [child EXCEPT ![k] = NewChild(o)] PROVE Goal
  BY <1>1, <1>3 DEF NewChild, PlanFanTypeOK
<1>4. ASSUME NEW k \in Namespaces, ChildProgress(k) PROVE Goal
  BY <1>4 DEF ChildProgress, NoChild, PlanFanTypeOK, ChildPlan
<1>5. CASE DeleteStale \/ DeleteExisting
  BY <1>2, <1>5 DEF DeleteStale, DeleteExisting, NoOrphanPlansInv, NamespacePCs
<1>6. CASE Create \/ CreateAgain
  BY <1>1, <1>3, <1>6 DEF Create, CreateAgain, Created, NoOrphanPlansInv, NamespacePCs
<1>7. QED
  BY <1>1, <1>2, <1>3, <1>4, <1>5, <1>6
  DEF PlanFanNext, PlanFanStep, planFanVars, Dequeue, CreateParent, DeleteParent, EditSpec, AddFinalizer, CheckCompleted, GetChild,
      FinalizeChild, GetExisting, UpdateStatus, UpdateMeta, ListAgain, RemoveFinalizer, CallFails, UserCreates, UserDeletes,
      NamespaceDeleted, NamespaceComesBack, PlanFanRestart

\* No step gives a child to another owner; it is nobody's in between.
LEMMA OwnerKept ==
  ASSUME PlanFanTypeOK, NoOrphanPlansInv, [PlanFanNext]_planFanVars, NEW n \in Namespaces,
         child[n].owner # Nobody, child'[n].owner # Nobody
  PROVE  child'[n].owner = child[n].owner
<1> DEFINE Goal == child'[n].owner = child[n].owner
<1>1. CASE child'[n] = child[n]
  BY <1>1
<1>2. ASSUME NEW k \in Namespaces, DeleteChild(k) PROVE Goal
  BY <1>2, DeleteChildOwners
<1>3. ASSUME NEW k \in Namespaces, NEW o, child[k].owner = Nobody, child' = [child EXCEPT ![k] = NewChild(o)] PROVE Goal
  BY <1>1, <1>3 DEF PlanFanTypeOK
<1>4. ASSUME NEW k \in Namespaces, ChildProgress(k) PROVE Goal
  BY <1>4 DEF ChildProgress, NoChild, PlanFanTypeOK, ChildPlan
<1>5. CASE DeleteStale \/ DeleteExisting
  BY <1>2, <1>5 DEF DeleteStale, DeleteExisting, NoOrphanPlansInv, NamespacePCs
<1>6. CASE Create \/ CreateAgain
  BY <1>1, <1>3, <1>6 DEF Create, CreateAgain, Created, NoOrphanPlansInv, NamespacePCs
<1>7. QED
  BY <1>1, <1>2, <1>3, <1>4, <1>5, <1>6
  DEF PlanFanNext, PlanFanStep, planFanVars, Dequeue, CreateParent, DeleteParent, EditSpec, AddFinalizer, CheckCompleted, GetChild,
      FinalizeChild, GetExisting, UpdateStatus, UpdateMeta, ListAgain, RemoveFinalizer, CallFails, UserCreates, UserDeletes,
      NamespaceDeleted, NamespaceComesBack, PlanFanRestart

\* A parent that does not exist yet has been left alone.
LEMMA AbsentStep ==
  ASSUME PlanFanTypeOK, NoOrphanPlansInv, [PlanFanNext]_planFanVars, NEW p \in Parents, parent'[p].st = "absent"
  PROVE  parent[p].st = "absent" /\ parent'[p].deleting = parent[p].deleting
<1> DEFINE Goal == parent[p].st = "absent" /\ parent'[p].deleting = parent[p].deleting
<1>1. CASE UNCHANGED parent
  BY <1>1
<1>2. ASSUME NEW q \in Parents, CreateParent(q) PROVE Goal
  BY <1>2 DEF CreateParent, PlanFanTypeOK, Parent
<1>3. ASSUME NEW q \in Parents, DeleteParent(q) PROVE Goal
  <2>1. PICK st \in {"present", "gone"} : parent' = [parent EXCEPT ![q].deleting = TRUE, ![q].st = st]
    BY <1>3 DEF DeleteParent
  <2>2. p # q
    BY <2>1 DEF PlanFanTypeOK, Parent
  <2>3. QED
    BY <2>1, <2>2 DEF PlanFanTypeOK
<1>4. CASE AddFinalizer
  BY <1>4 DEF AddFinalizer, NoOrphanPlansInv, PlanFanTypeOK, Parent
<1>5. CASE UpdateStatus
  BY <1>5 DEF UpdateStatus, NoOrphanPlansInv, PlanFanTypeOK, Parent
<1>6. CASE RemoveFinalizer
  BY <1>6 DEF RemoveFinalizer, NoOrphanPlansInv, PlanFanTypeOK, Parent
<1>7. ASSUME NEW q \in Parents, NEW n \in Namespaces, EditSpec(q, n) PROVE Goal
  BY <1>7 DEF EditSpec, PlanFanTypeOK, Parent
<1>8. QED
  BY <1>1, <1>2, <1>3, <1>4, <1>5, <1>6, <1>7
  DEF PlanFanNext, PlanFanStep, planFanVars, Dequeue, CheckCompleted, GetChild, FinalizeChild, DeleteStale, Create,
      GetExisting, DeleteExisting, CreateAgain, UpdateMeta, ListAgain, CallFails, ChildProgress, UserCreates, UserDeletes,
      NamespaceDeleted, NamespaceComesBack, PlanFanRestart

\* The worker comes to the removal of a finalizer from the deletion of the
\* children of the same parent.
LEMMA RemoverSteps ==
  ASSUME PlanFanTypeOK, [PlanFanNext]_planFanVars, w'.pc = "removeFinalizer"
  PROVE  w'.p = w.p /\ w.pc \in {"finalize", "removeFinalizer"}
<1>1. CASE UNCHANGED w
  BY <1>1
<1>2. CASE w' = Idle
  BY <1>2 DEF Idle
<1>3. ASSUME NEW p \in Parents, Dequeue(p) PROVE UNCHANGED w
  <2>1. CASE w' = [Idle EXCEPT !.pc = "finalize", !.p = p, !.todo = {n \in Owned(p) : ~child[n].deleting}]
    BY <2>1 DEF Idle
  <2>2. CASE w' = [Idle EXCEPT !.pc = FirstStep(p), !.p = p, !.spec = parent[p].spec, !.status = parent[p].status]
    BY <2>2 DEF Idle, FirstStep
  <2>3. QED
    BY <1>3, <2>1, <2>2 DEF Dequeue
<1>4. CASE ListAgain
  BY <1>2, <1>4 DEF ListAgain, Fails, PlanFanTypeOK, PlanFanWorker
<1>5. CASE w' = NextNamespace
  BY <1>5, NextNamespaceWorker
<1>6. ASSUME NEW pc \in CreatePCs \cup {"meta"}, w' = [w EXCEPT !.pc = pc] PROVE FALSE
  <2>1. w'.pc = pc
    BY <1>6 DEF PlanFanTypeOK, PlanFanWorker
  <2>2. QED
    BY <1>6, <2>1 DEF CreatePCs, NamespacePCs
<1>7. CASE CheckCompleted
  <2>1. CASE w' = [w EXCEPT !.pc = "loop", !.todo = w.spec]
    BY <2>1 DEF PlanFanTypeOK, PlanFanWorker
  <2>2. QED
    BY <1>2, <1>7, <2>1 DEF CheckCompleted
<1>8. ASSUME NEW n \in Namespaces, GetChild(n) PROVE FALSE
  BY <1>8, GetChildWorker
<1>9. ASSUME NEW n \in Namespaces, FinalizeChild(n) PROVE FALSE
  BY <1>9 DEF FinalizeChild, PlanFanTypeOK, PlanFanWorker
<1>10. CASE AddFinalizer \/ UpdateStatus
  BY <1>2, <1>6, <1>10 DEF AddFinalizer, UpdateStatus, Fails, CreatePCs
<1>11. CASE DeleteStale \/ Create \/ GetExisting \/ DeleteExisting \/ CreateAgain
  BY <1>2, <1>5, <1>6, <1>11 DEF DeleteStale, Create, GetExisting, DeleteExisting, CreateAgain, Created, Fails, CreatePCs, NamespacePCs
<1>12. CASE UpdateMeta \/ RemoveFinalizer \/ CallFails \/ PlanFanRestart
  BY <1>2, <1>12 DEF UpdateMeta, RemoveFinalizer, CallFails, PlanFanRestart, Fails
<1>13. QED
  BY <1>1, <1>3, <1>4, <1>7, <1>8, <1>9, <1>10, <1>11, <1>12
  DEF PlanFanNext, PlanFanStep, planFanVars, CreateParent, DeleteParent, EditSpec, ChildProgress, UserCreates, UserDeletes,
      NamespaceDeleted, NamespaceComesBack

\* While nobody interferes only the worker marks children.
LEMMA OnlyWorkerMarks ==
  ASSUME PlanFanTypeOK, ~Interfering, [PlanFanNext]_planFanVars, NEW n \in Namespaces,
         ~child[n].deleting, child'[n].deleting
  PROVE  PlanFanStep
<1>1. CASE UNCHANGED child
  BY <1>1
<1>2. ASSUME NEW k \in Namespaces, ChildProgress(k) PROVE FALSE
  BY <1>2 DEF ChildProgress, NoChild, PlanFanTypeOK, ChildPlan
<1>3. ASSUME NEW k \in Namespaces, UserCreates(k) PROVE FALSE
  BY <1>3 DEF UserCreates, NewChild, PlanFanTypeOK
<1>4. ASSUME NEW k \in Namespaces, UserDeletes(k) \/ NamespaceDeleted(k) PROVE FALSE
  BY <1>4 DEF UserDeletes, NamespaceDeleted, Disturbance, Interfering
<1>5. QED
  BY <1>1, <1>2, <1>3, <1>4
  DEF PlanFanNext, planFanVars, Dequeue, CreateParent, DeleteParent, EditSpec, CallFails, NamespaceComesBack, PlanFanRestart

\* The invariant of the refinement is kept.
LEMMA OwnershipInvStep ==
  ASSUME LiveParents = 1, OwnershipInv, [PlanFanNext]_planFanVars
  PROVE  OwnershipInv'
<1>1. PlanFanTypeOK' /\ NoOrphanPlansInv' /\ KeepInv'
  BY PlanFanNextType, PlanFanNextOrphans, KeepStep DEF OwnershipInv
<1>2. MarkedOfDeleting'
  <2> SUFFICES ASSUME ~Interfering, NEW n \in Namespaces, child'[n].owner \in Parents, child'[n].deleting
               PROVE  parent'[child'[n].owner].deleting
    BY DEF MarkedOfDeleting, Interfering
  <2>1. CASE child[n].owner = Nobody
    BY <2>1, NewChildUnmarked, PlanFanAssumption DEF OwnershipInv
  <2>2. CASE child[n].owner # Nobody /\ ~child[n].deleting
    <3>1. ChildDeleted(n)
      BY <2>2 DEF ChildDeleted
    <3>2. child'[n].owner = child[n].owner
      BY <2>2, OwnerKept, PlanFanAssumption DEF OwnershipInv
    <3>3. QED
      BY <2>2, <3>1, <3>2, OnlyWorkerMarks, DeletesOnlyOrphans, ParentSteps DEF OwnershipInv
  <2>3. CASE child[n].owner # Nobody /\ child[n].deleting
    <3>1. child'[n].owner = child[n].owner
      BY <2>3, OwnerKept, PlanFanAssumption DEF OwnershipInv
    <3>2. QED
      BY <2>3, <3>1, ParentSteps DEF OwnershipInv, MarkedOfDeleting
  <2>4. QED
    BY <2>1, <2>2, <2>3
<1>3. FinalizerOfDeleting'
  <2>1. ASSUME NEW p \in Parents, parent'[p].st = "absent" PROVE ~parent'[p].deleting
    BY <2>1, AbsentStep DEF OwnershipInv, FinalizerOfDeleting
  <2>2. ASSUME w'.pc = "removeFinalizer" PROVE parent'[w'.p].deleting
    <3>1. w'.p = w.p /\ w.pc \in {"finalize", "removeFinalizer"}
      BY <2>2, RemoverSteps DEF OwnershipInv
    <3>2. w.p \in Parents /\ parent[w.p].deleting
      BY <3>1 DEF OwnershipInv, NoOrphanPlansInv, KeepInv, FinalizesOwn, FinalizerOfDeleting
    <3>3. QED
      BY <3>1, <3>2, ParentSteps DEF OwnershipInv
  <2>3. QED
    BY <2>1, <2>2 DEF FinalizerOfDeleting
<1>4. QED
  BY <1>1, <1>2, <1>3 DEF OwnershipInv

\* The refinement mapping.
life == [p \in Parents |-> Life(p)]
holder == [n \in Namespaces |-> child[n].owner]

\* A step that changes the owner of one child at most.
LEMMA HolderStep ==
  ASSUME OwnershipInv, NEW n \in Namespaces, NEW o, UNCHANGED life,
         holder' = [holder EXCEPT ![n] = o],
         \/ o = holder[n]
         \/ o \in {User} \cup {p \in Parents : Life(p) \in {"live", "deleting"}} /\ holder[n] = Nobody
         \/ o = Nobody /\ (holder[n] \in Parents => Interfering \/ Life(holder[n]) = "deleting")
  PROVE  [Ownership!Next]_(Ownership!ownershipVars)
<1>1. CASE o = holder[n]
  BY <1>1 DEF Ownership!ownershipVars, life, holder
<1>2. CASE o = User /\ holder[n] = Nobody
  BY <1>2 DEF Ownership!UserTakes, Ownership!Next, life, holder
<1>3. CASE o \in Parents /\ Life(o) \in {"live", "deleting"} /\ holder[n] = Nobody
  BY <1>3 DEF Ownership!Take, Ownership!Next, life, holder
<1>4. CASE o = Nobody /\ o # holder[n] /\ (holder[n] \in Parents => Interfering \/ Life(holder[n]) = "deleting")
  BY <1>4 DEF Ownership!Release, Ownership!Next, life, holder, Interfering
<1>5. QED
  BY <1>1, <1>2, <1>3, <1>4

\* A step that changes the life of one parent at most.
LEMMA LifeStep ==
  ASSUME OwnershipInv, NEW p \in Parents, NEW l, UNCHANGED holder, life' = [life EXCEPT ![p] = l],
         \/ l = Life(p)
         \/ Life(p) = "absent" /\ l = "live"
         \/ Life(p) = "live" /\ l = "deleting"
         \/ Life(p) \in {"live", "deleting"} /\ l = "gone" /\ Owned(p) = {}
  PROVE  [Ownership!Next]_(Ownership!ownershipVars)
<1>1. CASE l = Life(p)
  BY <1>1 DEF Ownership!ownershipVars, life, holder
<1>2. CASE Life(p) = "absent" /\ l = "live"
  BY <1>2 DEF Ownership!Appear, Ownership!Next, life, holder
<1>3. CASE Life(p) = "live" /\ l = "deleting"
  BY <1>3 DEF Ownership!Retire, Ownership!Next, life, holder
<1>4. CASE Life(p) \in {"live", "deleting"} /\ l = "gone" /\ Owned(p) = {}
  BY <1>4 DEF Ownership!Leave, Ownership!Held, Ownership!Next, Owned, life, holder
<1>5. QED
  BY <1>1, <1>2, <1>3, <1>4

\* The removal of a child frees a slot, or marks the child and changes nothing.
LEMMA DeleteChildHolder ==
  ASSUME OwnershipInv, NEW n \in Namespaces, DeleteChild(n), UNCHANGED parent,
         child[n].owner \in Parents => Interfering \/ parent[child[n].owner].deleting
  PROVE  [Ownership!Next]_(Ownership!ownershipVars)
<1>1. UNCHANGED life
  BY DEF life, Life
<1>2. PICK o \in {child[n].owner, Nobody} : holder' = [holder EXCEPT ![n] = o]
  BY DEF holder, DeleteChild, Deleted, NoChild, OwnershipInv, PlanFanTypeOK, ChildPlan
<1>3. child[n].owner \in Parents => Interfering \/ Life(child[n].owner) = "deleting"
  BY DEF OwnershipInv, NoOrphanPlansInv, Life
<1>4. holder[n] = child[n].owner
  BY DEF holder
<1>5. QED
  BY <1>1, <1>2, <1>3, <1>4, HolderStep

\* The worker creates children for a parent that exists.
LEMMA CreatedHolder ==
  ASSUME OwnershipInv, NEW n \in Namespaces, w.pc \in CreatePCs, Created(n), UNCHANGED parent
  PROVE  [Ownership!Next]_(Ownership!ownershipVars)
<1>1. UNCHANGED life
  BY DEF life, Life
<1>2. holder' = [holder EXCEPT ![n] = w.p]
  BY DEF holder, Created, NewChild, OwnershipInv, PlanFanTypeOK, ChildPlan
<1>3. w.p \in Parents /\ Life(w.p) \in {"live", "deleting"}
  BY IdleWorker DEF OwnershipInv, NoOrphanPlansInv, Life
<1>4. holder[n] = Nobody
  BY DEF holder, Created
<1>5. QED
  BY <1>1, <1>2, <1>3, <1>4, HolderStep

\* A step of the worker is a step of the abstract specification, or none.
LEMMA PlanFanStepRefines ==
  ASSUME LiveParents = 1, OwnershipInv, PlanFanStep
  PROVE  [Ownership!Next]_(Ownership!ownershipVars)
<1> DEFINE Goal == [Ownership!Next]_(Ownership!ownershipVars)
<1>0. PlanFanTypeOK /\ NoOrphanPlansInv /\ KeepInv
  BY DEF OwnershipInv
<1>1. CASE UNCHANGED <<parent, child>>
  BY <1>1 DEF Ownership!ownershipVars, Life
<1>2. CASE AddFinalizer
  <2>1. w.p \in Parents /\ UNCHANGED child
    BY <1>0, <1>2 DEF AddFinalizer, NoOrphanPlansInv
  <2>2. CASE parent' = [parent EXCEPT ![w.p].fin = TRUE]
    <3>1. UNCHANGED <<life, holder>>
      BY <1>0, <2>1, <2>2 DEF life, holder, Life, PlanFanTypeOK, Parent
    <3>2. QED
      BY <3>1 DEF life, holder, Ownership!ownershipVars
  <2>3. QED
    BY <1>1, <1>2, <2>1, <2>2 DEF AddFinalizer
<1>3. CASE UpdateStatus
  <2>1. w.p \in Parents /\ UNCHANGED child
    BY <1>0, <1>3 DEF UpdateStatus, NoOrphanPlansInv
  <2>2. ASSUME NEW status, parent' = [parent EXCEPT ![w.p].status = status] PROVE Goal
    <3>1. UNCHANGED <<life, holder>>
      BY <1>0, <2>1, <2>2 DEF life, holder, Life, PlanFanTypeOK, Parent
    <3>2. QED
      BY <3>1 DEF life, holder, Ownership!ownershipVars
  <2>3. QED
    BY <1>1, <1>3, <2>1, <2>2 DEF UpdateStatus
<1>4. CASE RemoveFinalizer
  <2>1. w.p \in Parents /\ UNCHANGED child /\ Owned(w.p) = {} /\ parent[w.p].deleting
    BY <1>0, <1>4 DEF RemoveFinalizer, NoOrphanPlansInv, OwnershipInv, FinalizerOfDeleting
  <2>2. CASE parent' = [parent EXCEPT ![w.p].fin = FALSE, ![w.p].st = "gone"]
    <3>1. UNCHANGED holder /\ life' = [life EXCEPT ![w.p] = "gone"]
      BY <1>0, <2>1, <2>2 DEF life, holder, Life, PlanFanTypeOK, Parent
    <3>2. Life(w.p) \in {"deleting", "gone"}
      BY <1>0, <2>1 DEF Life, OwnershipInv, FinalizerOfDeleting
    <3>3. QED
      BY <2>1, <3>1, <3>2, LifeStep
  <2>3. QED
    BY <1>1, <1>4, <2>1, <2>2 DEF RemoveFinalizer
<1>5. CASE DeleteStale \/ DeleteExisting
  <2>1. w.at \in Namespaces /\ w.p \in Parents /\ DeleteChild(w.at) /\ UNCHANGED parent
    BY <1>0, <1>5 DEF DeleteStale, DeleteExisting, NoOrphanPlansInv, NamespacePCs
  <2>2. child[w.at].owner \in Parents => parent[child[w.at].owner].deleting
    BY <1>0, <1>5, <2>1 DEF DeleteStale, DeleteExisting, KeepInv, StaleInHand, OthersDeleting, CreatePCs, NamespacePCs
  <2>3. QED
    BY <2>1, <2>2, DeleteChildHolder
<1>6. ASSUME NEW n \in Namespaces, FinalizeChild(n) PROVE Goal
  <2>1. DeleteChild(n) /\ UNCHANGED parent
    BY <1>6 DEF FinalizeChild
  <2>2. child[n].owner \in Parents => parent[child[n].owner].deleting
    BY <1>0, <1>6, PlanFanAssumption DEF FinalizeChild, KeepInv, FinalizesOwn
  <2>3. QED
    BY <2>1, <2>2, DeleteChildHolder
<1>7. CASE Create \/ CreateAgain
  <2>1. w.at \in Namespaces /\ UNCHANGED parent /\ w.pc \in CreatePCs
    BY <1>0, <1>7 DEF Create, CreateAgain, NoOrphanPlansInv, NamespacePCs, CreatePCs
  <2>2. CASE Created(w.at)
    BY <2>1, <2>2, CreatedHolder
  <2>3. QED
    BY <1>1, <1>7, <2>1, <2>2 DEF Create, CreateAgain
<1>8. QED
  BY <1>1, <1>2, <1>3, <1>4, <1>5, <1>6, <1>7 DEF PlanFanStep, CheckCompleted, GetChild, GetExisting, UpdateMeta, ListAgain

\* So is every other step.
LEMMA PlanFanRefines ==
  ASSUME LiveParents = 1, OwnershipInv, [PlanFanNext]_planFanVars
  PROVE  [Ownership!Next]_(Ownership!ownershipVars)
<1> DEFINE Goal == [Ownership!Next]_(Ownership!ownershipVars)
<1>0. PlanFanTypeOK /\ NoOrphanPlansInv
  BY DEF OwnershipInv
<1>1. CASE UNCHANGED <<parent, child>>
  BY <1>1 DEF Ownership!ownershipVars, Life
<1>2. ASSUME NEW p \in Parents, CreateParent(p) PROVE Goal
  <2>1. UNCHANGED holder /\ life' = [life EXCEPT ![p] = "live"]
    <3>1. parent' = [parent EXCEPT ![p].st = "present", ![p].spec = Namespaces] /\ UNCHANGED child /\ ~parent[p].deleting
      BY <1>2 DEF CreateParent, OwnershipInv, FinalizerOfDeleting
    <3>2. QED
      BY <1>0, <3>1 DEF life, holder, Life, PlanFanTypeOK, Parent
  <2>2. Life(p) = "absent"
    BY <1>2 DEF CreateParent, Life
  <2>3. QED
    BY <2>1, <2>2, LifeStep
<1>3. ASSUME NEW p \in Parents, DeleteParent(p) PROVE Goal
  <2>1. Life(p) = "live"
    BY <1>3 DEF DeleteParent, Live, Life
  <2>2. CASE parent[p].fin
    <3>1. UNCHANGED holder /\ life' = [life EXCEPT ![p] = "deleting"]
      BY <1>0, <1>3, <2>2 DEF DeleteParent, life, holder, Life, PlanFanTypeOK, Parent
    <3>2. QED
      BY <2>1, <3>1, LifeStep
  <2>3. CASE ~parent[p].fin
    <3>1. UNCHANGED holder /\ life' = [life EXCEPT ![p] = "gone"]
      BY <1>0, <1>3, <2>3 DEF DeleteParent, life, holder, Life, PlanFanTypeOK, Parent
    <3>2. Owned(p) = {}
      BY <1>0, <2>3 DEF NoOrphanPlansInv, Owned
    <3>3. QED
      BY <2>1, <3>1, <3>2, LifeStep
  <2>4. QED
    BY <2>2, <2>3
<1>4. CASE PlanFanStep
  BY <1>4, PlanFanStepRefines
<1>5. ASSUME NEW n \in Namespaces, ChildProgress(n) PROVE Goal
  <2>1. UNCHANGED life
    BY <1>5 DEF ChildProgress, life, Life
  <2>2. holder[n] = child[n].owner
    BY DEF holder
  <2>3. ASSUME child' = [child EXCEPT ![n] = NoChild], child[n].deleting PROVE Goal
    <3>1. holder' = [holder EXCEPT ![n] = Nobody]
      BY <1>0, <2>3 DEF holder, NoChild, PlanFanTypeOK, ChildPlan
    <3>2. child[n].owner \in Parents => Interfering \/ Life(child[n].owner) = "deleting"
      BY <1>0, <2>3 DEF NoOrphanPlansInv, OwnershipInv, MarkedOfDeleting, Life
    <3>3. QED
      BY <2>1, <2>2, <3>1, <3>2, HolderStep
  <2>4. ASSUME NEW st, child' = [child EXCEPT ![n].st = st] PROVE Goal
    <3>1. holder' = [holder EXCEPT ![n] = child[n].owner]
      BY <1>0, <2>4 DEF holder, PlanFanTypeOK, ChildPlan
    <3>2. QED
      BY <2>1, <2>2, <3>1, HolderStep
  <2>5. QED
    BY <1>5, <2>3, <2>4 DEF ChildProgress
<1>6. ASSUME NEW n \in Namespaces, UserCreates(n) PROVE Goal
  <2>1. UNCHANGED life /\ holder[n] = Nobody
    BY <1>6 DEF UserCreates, life, Life, holder
  <2>2. holder' = [holder EXCEPT ![n] = User]
    BY <1>0, <1>6 DEF UserCreates, holder, NewChild, PlanFanTypeOK
  <2>3. QED
    BY <2>1, <2>2, HolderStep
<1>7. ASSUME NEW p \in Parents, NEW n \in Namespaces, EditSpec(p, n) PROVE Goal
  <2>1. UNCHANGED <<life, holder>>
    BY <1>0, <1>7 DEF EditSpec, life, holder, Life, PlanFanTypeOK, Parent
  <2>2. QED
    BY <2>1 DEF life, holder, Ownership!ownershipVars
<1>8. ASSUME NEW n \in Namespaces, UserDeletes(n) \/ NamespaceDeleted(n) PROVE Goal
  BY <1>8, DeleteChildHolder DEF UserDeletes, NamespaceDeleted, Disturbance, Interfering
<1>9. QED
  BY <1>1, <1>2, <1>3, <1>4, <1>5, <1>6, <1>7, <1>8
  DEF PlanFanNext, planFanVars, Dequeue, CallFails, NamespaceComesBack, PlanFanRestart

(***************************************************************************)
(* When no two parents of one name live at a time the controller           *)
(* implements CascadingOwnership: a slot passes from owner to owner        *)
(* through nobody, a parent leaves without children (runFinalizer), and    *)
(* if nobody else removes children, neither does the controller those of a *)
(* live parent (Reconcile).                                                *)
(***************************************************************************)
THEOREM PlanImplementsOwnership == ASSUME LiveParents = 1 PROVE PlanFanSpec => PlanOwnership
<1>1. PlanFanInit => OwnershipInv
  BY PlanFanInitInv, KeepInit, PlanFanAssumption
  DEF PlanFanInit, OwnershipInv, MarkedOfDeleting, FinalizerOfDeleting, NoChild, NoParent, Idle
<1>2. PlanFanInit => Ownership!Init
  BY DEF PlanFanInit, Ownership!Init, Life, NoChild, NoParent
<1>3. OwnershipInv /\ [PlanFanNext]_planFanVars => OwnershipInv'
  BY OwnershipInvStep
<1>4. OwnershipInv /\ [PlanFanNext]_planFanVars => [Ownership!Next]_(Ownership!ownershipVars)
  BY PlanFanRefines
<1>5. QED
  BY <1>1, <1>2, <1>3, <1>4, PTL DEF PlanFanSpec, PlanOwnership, Ownership!Spec

\* Every variable has its type: what a reconcile writes, in whatever order
\* its calls fail.
THEOREM PlanFanTypes == PlanFanSpec => []PlanFanTypeOK
<1>1. PlanFanTypeOK /\ NoOrphanPlansInv /\ [PlanFanNext]_planFanVars => (PlanFanTypeOK /\ NoOrphanPlansInv)'
  BY PlanFanNextType, PlanFanNextOrphans
<1>2. QED
  BY <1>1, PlanFanInitInv, PTL DEF PlanFanSpec
-----------------------------------------------------------------------------
(* No event is lost *)

\* The worker may create children.
FansOut == w.pc \in CreatePCs \cup {"addFinalizer"}

\* What p shows of its namespaces is what their children are.
Synced(p) ==
  \A n \in parent[p].spec : child[n].owner = p /\ parent[p].status.namespaces[n] = Report(child[n].st)

\* A namespace without a plan has nobody's; a plan without a label is made by hand.
SlotsInv ==
  /\ \A n \in Namespaces : child[n].owner = Nobody => child[n].st = "none"
  /\ ~byHand => \A n \in Namespaces : child[n].owner # User
  /\ \A p \in Parents : parent[p].st = "absent" => parent[p].status = NoStatus
  /\ FansOut => parent[w.p].st # "absent"

\* A worker that still fans out for a parent deleted meanwhile does so before
\* the parent that is live by now has reported anything.
LateWorker == FansOut => \A p \in Parents : Live(p) /\ w.p # p => parent[p].status = NoStatus

\* Where a live parent has reported a child there is no other's.
ReportsOwn ==
  ~byHand => \A n \in Namespaces :
    /\ \A p \in Parents : Live(p) /\ parent[p].status.namespaces[n] # "none" => child[n].owner \in {p, Nobody}
    /\ FansOut /\ Live(w.p) /\ w.status.namespaces[n] # "none" => child[n].owner \in {w.p, Nobody}

\* The child the worker is about to create is not there.
CreatesMissing == w.pc \in NamespacePCs => child[w.at].owner # w.p

\* Where the worker is with p, when p is not queued again.
InHand(p) ==
  \/ w.pc \in {"addFinalizer", "checkCompleted"} /\ w.spec = parent[p].spec /\ w.status = parent[p].status
  \/ /\ w.pc \in {"loop"} \cup NamespacePCs
     /\ w.spec = parent[p].spec
     /\ \A n \in w.spec \ w.todo : child[n].owner = p /\ w.status.namespaces[n] = Report(child[n].st)

SyncInv ==
  ~byHand => \A p \in Parents : Live(p) /\ p \notin queue =>
    /\ p \notin behind
    /\ IF w.pc # "idle" /\ w.p = p THEN InHand(p) ELSE Synced(p)

\* A look at a child ends the turn for one's own, and else stays with it.
LEMMA GetChildTurns ==
  ASSUME PlanFanTypeOK, NoOrphanPlansInv, NEW n \in Namespaces, GetChild(n)
  PROVE  /\ w.pc = "loop" /\ n \in w.todo /\ w'.p = w.p /\ w'.spec = w.spec
         /\ \/ /\ w'.pc \in {"create", "deleteStale"} /\ w'.at = n /\ child[n].owner # w.p
               /\ w'.todo = w.todo /\ w'.status.namespaces = w.status.namespaces
            \/ /\ w'.pc = "loop" /\ child[n].owner = w.p /\ w'.todo = w.todo \ {n}
               /\ w'.status.namespaces = [w.status.namespaces EXCEPT ![n] = Report(child[n].st)]
<1> DEFINE f == w.found \/ InvalidNamespace(n)
           s == [w.status EXCEPT !.invalid = @ \/ InvalidNamespace(n)]
           v == [w EXCEPT !.found = f, !.status = s]
<1>0. w \in PlanFanWorker /\ w.pc = "loop" /\ n \in w.todo /\ w.p \in Parents /\ w.status \in Status
  BY DEF GetChild, PlanFanTypeOK, PlanFanWorker, NoOrphanPlansInv
<1>1. s.namespaces = w.status.namespaces /\ s = [namespaces |-> w.status.namespaces, invalid |-> s.invalid]
  BY <1>0 DEF Status
<1>2. v = [pc |-> "loop", p |-> w.p, at |-> w.at, todo |-> w.todo, found |-> f, spec |-> w.spec, status |-> s]
  <2> HIDE DEF f, s
  <2>1. ASSUME NEW g, NEW t, NEW x, x = [w EXCEPT !.found = g, !.status = t]
        PROVE  x = [pc |-> w.pc, p |-> w.p, at |-> w.at, todo |-> w.todo, found |-> g, spec |-> w.spec, status |-> t]
    BY <1>0, <2>1 DEF PlanFanWorker
  <2>2. QED
    BY <1>0, <2>1
<1> HIDE DEF v
<1>3. \/ w' = [v EXCEPT !.pc = "create", !.at = n] /\ child[n].owner # w.p
      \/ w' = [v EXCEPT !.todo = @ \ {n}, !.status.namespaces[n] = Report(child[n].st)] /\ child[n].owner = w.p
      \/ w' = [v EXCEPT !.pc = "deleteStale", !.at = n] /\ child[n].owner # w.p
  BY <1>0, PlanFanAssumption DEF GetChild, IsOwnedByPlan, v
<1> HIDE DEF f, s
<1>4. CASE w' = [v EXCEPT !.pc = "create", !.at = n] /\ child[n].owner # w.p
  BY <1>0, <1>1, <1>2, <1>4
<1>5. CASE w' = [v EXCEPT !.pc = "deleteStale", !.at = n] /\ child[n].owner # w.p
  BY <1>0, <1>1, <1>2, <1>5
<1>6. CASE w' = [v EXCEPT !.todo = @ \ {n}, !.status.namespaces[n] = Report(child[n].st)] /\ child[n].owner = w.p
  <2>1. w' = [pc |-> "loop", p |-> w.p, at |-> w.at, todo |-> w.todo \ {n}, found |-> f, spec |-> w.spec,
              status |-> [s EXCEPT !.namespaces[n] = Report(child[n].st)]]
    BY <1>2, <1>6
  <2>2. w'.status.namespaces = [w.status.namespaces EXCEPT ![n] = Report(child[n].st)]
    BY <1>1, <2>1
  <2>3. w'.pc = "loop" /\ w'.p = w.p /\ w'.spec = w.spec /\ w'.todo = w.todo \ {n}
    BY <2>1
  <2>4. child[n].owner = w.p
    BY <1>6
  <2>5. QED
    BY <1>0, <2>2, <2>3, <2>4
<1>7. QED
  BY <1>3, <1>4, <1>5, <1>6

\* Whoever changes a child with a label queues its parent.
LEMMA ChildChangeQueues ==
  ASSUME PlanFanTypeOK, NoOrphanPlansInv, [PlanFanNext]_planFanVars, NEW n \in Namespaces,
         child[n].owner \in Parents, child[n].owner \notin queue'
  PROVE  child'[n] = child[n]
<1> DEFINE Goal == child'[n] = child[n]
<1>1. CASE UNCHANGED child
  BY <1>1
<1>2. ASSUME NEW k \in Namespaces, DeleteChild(k) PROVE Goal
  BY <1>2 DEF DeleteChild, ParentOf, PlanFanTypeOK
<1>3. ASSUME NEW k \in Namespaces, NEW o, child[k].owner = Nobody, child' = [child EXCEPT ![k] = NewChild(o)] PROVE Goal
  BY <1>3, PlanFanAssumption DEF PlanFanTypeOK
<1>4. ASSUME NEW k \in Namespaces, ChildProgress(k) PROVE Goal
  BY <1>4 DEF ChildProgress, ParentOf, PlanFanTypeOK
<1>5. CASE DeleteStale \/ DeleteExisting
  BY <1>2, <1>5 DEF DeleteStale, DeleteExisting, NoOrphanPlansInv, NamespacePCs
<1>6. CASE Create \/ CreateAgain
  BY <1>1, <1>3, <1>6 DEF Create, CreateAgain, Created, NoOrphanPlansInv, NamespacePCs
<1>7. QED
  BY <1>1, <1>2, <1>3, <1>4, <1>5, <1>6
  DEF PlanFanNext, PlanFanStep, planFanVars, Dequeue, CreateParent, DeleteParent, EditSpec, AddFinalizer, CheckCompleted, GetChild,
      FinalizeChild, GetExisting, UpdateStatus, UpdateMeta, ListAgain, RemoveFinalizer, CallFails, UserCreates, UserDeletes,
      NamespaceDeleted, NamespaceComesBack, PlanFanRestart

\* Whoever changes a live parent queues it; the status changes only to the
\* one in the worker's hands.
LEMMA ParentChangeQueues ==
  ASSUME PlanFanTypeOK, NoOrphanPlansInv, [PlanFanNext]_planFanVars, NEW p \in Parents
  PROVE  /\ Live(p)' => p \in queue' \/ parent'[p] = parent[p]
         /\ \/ parent'[p].status = parent[p].status
            \/ /\ w.pc = "loop" /\ w.p = p /\ UNCHANGED child
               /\ parent'[p].status.namespaces = w.status.namespaces
<1> DEFINE Goal == /\ Live(p)' => p \in queue' \/ parent'[p] = parent[p]
                   /\ \/ parent'[p].status = parent[p].status
                      \/ /\ w.pc = "loop" /\ w.p = p /\ UNCHANGED child
                         /\ parent'[p].status.namespaces = w.status.namespaces
<1>1. CASE UNCHANGED parent
  BY <1>1
<1>2. ASSUME NEW q \in Parents, CreateParent(q) PROVE Goal
  BY <1>2 DEF CreateParent, PlanFanTypeOK, Parent
<1>3. ASSUME NEW q \in Parents, DeleteParent(q) PROVE Goal
  BY <1>3 DEF DeleteParent, PlanFanTypeOK, Parent
<1>4. CASE AddFinalizer
  BY <1>4 DEF AddFinalizer, NoOrphanPlansInv, PlanFanTypeOK, Parent
<1>5. CASE UpdateStatus
  <2>1. w.pc = "loop" /\ w.p \in Parents /\ w.status \in Status /\ UNCHANGED child
    BY <1>5 DEF UpdateStatus, NoOrphanPlansInv, PlanFanTypeOK, PlanFanWorker
  <2> DEFINE status == [w.status EXCEPT !.invalid = @ /\ w.found]
  <2>2. status.namespaces = w.status.namespaces
    BY <2>1 DEF Status
  <2> HIDE DEF status
  <2>3. CASE parent' = [parent EXCEPT ![w.p].status = status] /\ w.p \in queue'
    BY <2>1, <2>2, <2>3 DEF PlanFanTypeOK, Parent
  <2>4. QED
    BY <1>1, <1>5, <2>3 DEF UpdateStatus, status
<1>6. CASE RemoveFinalizer
  BY <1>6 DEF RemoveFinalizer, NoOrphanPlansInv, PlanFanTypeOK, Parent, Live
<1>7. ASSUME NEW q \in Parents, NEW n \in Namespaces, EditSpec(q, n) PROVE Goal
  BY <1>7 DEF EditSpec, PlanFanTypeOK, Parent
<1>8. QED
  BY <1>1, <1>2, <1>3, <1>4, <1>5, <1>6, <1>7
  DEF PlanFanNext, PlanFanStep, planFanVars, Dequeue, CheckCompleted, GetChild, FinalizeChild, DeleteStale, Create,
      GetExisting, DeleteExisting, CreateAgain, UpdateMeta, ListAgain, CallFails, ChildProgress, UserCreates, UserDeletes,
      NamespaceDeleted, NamespaceComesBack, PlanFanRestart

\* A live parent leaves the queue only for the worker, and somebody else's
\* change of it queues it.
LEMMA QueueSteps ==
  ASSUME PlanFanTypeOK, NoOrphanPlansInv, [PlanFanNext]_planFanVars, NEW p \in Parents, Live(p)', p \notin queue'
  PROVE  /\ p \in queue => Dequeue(p) /\ UNCHANGED <<ns, byHand, faults>>
         /\ p \in behind' => p \in behind /\ p \notin queue
<1> DEFINE Goal == /\ p \in queue => Dequeue(p) /\ UNCHANGED <<ns, byHand, faults>>
                   /\ p \in behind' => p \in behind /\ p \notin queue
<1>1. ASSUME NEW q \in Parents, Dequeue(q), UNCHANGED <<ns, byHand, faults>> PROVE Goal
  <2>1. queue' = queue \ {q} /\ behind' = behind \ {q}
    BY <1>1 DEF Dequeue
  <2>2. p \in queue => p = q
    BY <2>1
  <2>3. QED
    BY <1>1, <2>1, <2>2
<1>2. CASE queue \subseteq queue' /\ UNCHANGED behind
  BY <1>2
<1>3. ASSUME NEW q \in Parents, DeleteParent(q) PROVE Goal
  BY <1>3 DEF DeleteParent
<1>4. ASSUME NEW q \in Parents, NEW n \in Namespaces, EditSpec(q, n) PROVE Goal
  BY <1>4 DEF EditSpec
<1>5. CASE PlanFanRestart
  BY <1>5 DEF PlanFanRestart, Live
<1>6. QED
  BY <1>1, <1>2, <1>3, <1>4, <1>5
  DEF PlanFanNext, PlanFanStep, planFanVars, CreateParent, AddFinalizer, CheckCompleted, GetChild, DeleteStale, Create, Created, Fails,
      GetExisting, DeleteExisting, CreateAgain, FinalizeChild, UpdateStatus, UpdateMeta, ListAgain, RemoveFinalizer, CallFails,
      ChildProgress, UserCreates, UserDeletes, NamespaceDeleted, NamespaceComesBack, DeleteChild

\* The worker stays with its parent and its copy, and goes on.
GoesOn ==
  /\ w'.p = w.p /\ w'.spec = w.spec /\ w'.status = w.status
  /\ \/ w.pc = "addFinalizer" /\ w'.pc = "checkCompleted" /\ w.p \in queue'
     \/ w.pc = "checkCompleted" /\ w'.pc = "loop" /\ w'.todo = w.spec
     \/ w.pc \in NamespacePCs /\ w'.pc \in NamespacePCs /\ w'.todo = w.todo /\ w'.at = w.at
     \/ w.pc \in NamespacePCs /\ w'.pc = "loop" /\ (w.p \in queue' \/ child[w.at].owner = w.p)
     \/ w.pc = "loop" /\ w'.pc = "meta" /\ w.p \in queue'
     \/ w.pc = "finalize" /\ w'.pc \in {"finalize", "removeFinalizer"}

\* It stops: after an error, with nothing left to do, or at the end.
Stops ==
  /\ w' = Idle
  /\ \/ \A p \in Parents : w.pc # "idle" /\ w.p = p /\ Live(p)' => p \in queue'
     \/ w.pc = "checkCompleted" /\ IsMultiPlanCompleted /\ UNCHANGED <<parent, child>>
     \/ w.pc = "loop" /\ w.todo = {} /\ w.status.namespaces = parent[w.p].status.namespaces /\ UNCHANGED <<parent, child>>
     \/ w.pc = "meta"

\* It starts.
Starts(p) ==
  /\ Dequeue(p) /\ w'.p = p
  /\ \/ w'.pc = "finalize" /\ ~Live(p)
     \/ w'.pc \in {"addFinalizer", "checkCompleted"} /\ Live(p) /\ w'.spec = parent[p].spec /\ w'.status = parent[p].status

\* There is nothing else a step does to the worker.
LEMMA WorkerMoves ==
  ASSUME PlanFanTypeOK, NoOrphanPlansInv, [PlanFanNext]_planFanVars
  PROVE  \/ UNCHANGED w
         \/ Stops
         \/ GoesOn
         \/ \E n \in Namespaces : GetChild(n)
         \/ \E p \in Parents : Starts(p)
<1> DEFINE Goal == UNCHANGED w \/ Stops \/ GoesOn \/ (\E n \in Namespaces : GetChild(n)) \/ (\E p \in Parents : Starts(p))
<1>0. w \in PlanFanWorker
  BY DEF PlanFanTypeOK
<1>1. ASSUME Fails PROVE Stops
  BY <1>1 DEF Fails, Stops
<1>2. ASSUME NEW p \in Parents, Dequeue(p) PROVE Goal
  <2>1. CASE w' = [Idle EXCEPT !.pc = "finalize", !.p = p, !.todo = {n \in Owned(p) : ~child[n].deleting}] /\ parent[p].deleting
    <3>1. w'.p = p /\ w'.pc = "finalize"
      BY <2>1 DEF Idle
    <3>2. Starts(p)
      BY <1>2, <2>1, <3>1 DEF Starts, Live
    <3>3. QED
      BY <3>2
  <2>2. CASE w' = [Idle EXCEPT !.pc = FirstStep(p), !.p = p, !.spec = parent[p].spec, !.status = parent[p].status] /\ Live(p)
    <3>1. w'.p = p /\ w'.pc = FirstStep(p) /\ w'.spec = parent[p].spec /\ w'.status = parent[p].status
      BY <2>2 DEF Idle
    <3>2. FirstStep(p) \in {"addFinalizer", "checkCompleted"}
      BY DEF FirstStep
    <3>3. Starts(p)
      BY <1>2, <2>2, <3>1, <3>2 DEF Starts
    <3>4. QED
      BY <3>3
  <2>3. QED
    BY <1>2, <2>1, <2>2 DEF Dequeue, Live
<1>3. ASSUME NEW pc \in CreatePCs \cup {"meta", "removeFinalizer"}, w' = [w EXCEPT !.pc = pc]
      PROVE  w'.pc = pc /\ w'.p = w.p /\ w'.spec = w.spec /\ w'.status = w.status /\ w'.todo = w.todo /\ w'.at = w.at
  BY <1>0, <1>3 DEF PlanFanWorker
<1>4. ASSUME w' = NextNamespace PROVE w'.pc = "loop" /\ w'.p = w.p /\ w'.spec = w.spec /\ w'.status = w.status
  BY <1>0, <1>4 DEF PlanFanWorker, NextNamespace
<1>5. CASE AddFinalizer
  <2>1. CASE w' = [w EXCEPT !.pc = "checkCompleted"] /\ w.p \in queue'
    <3>1. w'.pc = "checkCompleted" /\ w'.p = w.p /\ w'.spec = w.spec /\ w'.status = w.status
      BY <1>3, <2>1 DEF CreatePCs
    <3>2. QED
      BY <1>5, <2>1, <3>1 DEF AddFinalizer, GoesOn
  <2>2. QED
    BY <1>1, <1>5, <2>1 DEF AddFinalizer
<1>6. CASE CheckCompleted
  <2>1. CASE w' = [w EXCEPT !.pc = "loop", !.todo = w.spec]
    <3>1. w'.pc = "loop" /\ w'.p = w.p /\ w'.spec = w.spec /\ w'.status = w.status /\ w'.todo = w.spec
      BY <1>0, <2>1 DEF PlanFanWorker
    <3>2. QED
      BY <1>6, <3>1 DEF CheckCompleted, GoesOn
  <2>2. CASE w' = Idle /\ IsMultiPlanCompleted
    BY <1>6, <2>2 DEF CheckCompleted, Stops
  <2>3. QED
    BY <1>6, <2>1, <2>2 DEF CheckCompleted
<1>7. ASSUME NEW pc \in NamespacePCs, w.pc \in NamespacePCs, w' = [w EXCEPT !.pc = pc] PROVE GoesOn
  BY <1>3, <1>7 DEF GoesOn, CreatePCs
<1>8. CASE DeleteStale \/ DeleteExisting
  BY <1>7, <1>8 DEF DeleteStale, DeleteExisting, NamespacePCs
<1>9. ASSUME NEW n \in Namespaces, Created(n), w.pc \in NamespacePCs PROVE GoesOn
  BY <1>4, <1>9 DEF Created, GoesOn
<1>10. CASE Create \/ CreateAgain
  <2>1. w.at \in Namespaces /\ w.pc \in NamespacePCs
    BY <1>10 DEF Create, CreateAgain, NamespacePCs, NoOrphanPlansInv
  <2>2. QED
    BY <1>1, <1>7, <1>9, <1>10, <2>1 DEF Create, CreateAgain, NamespacePCs
<1>11. CASE GetExisting
  <2>1. w.pc \in NamespacePCs
    BY <1>11 DEF GetExisting, NamespacePCs
  <2>2. CASE w' = NextNamespace /\ child[w.at].owner = w.p
    BY <1>4, <2>1, <2>2 DEF GoesOn
  <2>3. QED
    BY <1>7, <1>11, <2>1, <2>2 DEF GetExisting, IsOwnedByPlan, NamespacePCs
<1>12. CASE UpdateStatus
  <2> DEFINE status == [w.status EXCEPT !.invalid = @ /\ w.found]
  <2>1. status.namespaces = w.status.namespaces
    BY <1>0 DEF Status, PlanFanWorker
  <2> HIDE DEF status
  <2>2. CASE w' = [w EXCEPT !.pc = "meta"] /\ w.p \in queue'
    <3>1. w'.pc = "meta" /\ w'.p = w.p /\ w'.spec = w.spec /\ w'.status = w.status
      BY <1>3, <2>2
    <3>2. QED
      BY <1>12, <2>2, <3>1 DEF UpdateStatus, GoesOn
  <2>3. CASE w' = Idle /\ status = parent[w.p].status /\ UNCHANGED parent
    BY <1>12, <2>1, <2>3 DEF UpdateStatus, Stops
  <2>4. QED
    BY <1>1, <1>12, <2>2, <2>3 DEF UpdateStatus, status
<1>13. CASE UpdateMeta
  BY <1>1, <1>13 DEF UpdateMeta, Stops
<1>14. CASE ListAgain
  <2>1. CASE w' = [w EXCEPT !.pc = "removeFinalizer"]
    <3>1. w'.pc = "removeFinalizer" /\ w'.p = w.p /\ w'.spec = w.spec /\ w'.status = w.status
      BY <1>3, <2>1
    <3>2. QED
      BY <1>14, <3>1 DEF ListAgain, GoesOn
  <2>2. QED
    BY <1>1, <1>14, <2>1 DEF ListAgain
<1>15. CASE RemoveFinalizer
  <2>1. CASE w' = Idle /\ parent' = [parent EXCEPT ![w.p].fin = FALSE, ![w.p].st = "gone"]
    <3>1. w.p \in Parents
      BY <1>15 DEF RemoveFinalizer, NoOrphanPlansInv
    <3>2. \A p \in Parents : w.p = p => ~Live(p)'
      BY <2>1, <3>1 DEF PlanFanTypeOK, Parent, Live
    <3>3. QED
      BY <2>1, <3>2 DEF Stops
  <2>2. QED
    BY <1>1, <1>15, <2>1 DEF RemoveFinalizer
<1>16. ASSUME NEW n \in Namespaces, FinalizeChild(n) PROVE GoesOn
  <2>1. w.pc = "finalize" /\ w' = [w EXCEPT !.todo = @ \ {n}]
    BY <1>16 DEF FinalizeChild
  <2>2. w'.pc = "finalize" /\ w'.p = w.p /\ w'.spec = w.spec /\ w'.status = w.status
    BY <1>0, <2>1 DEF PlanFanWorker
  <2>3. QED
    BY <2>1, <2>2 DEF GoesOn
<1>17. CASE PlanFanRestart
  <2>1. \A p \in Parents : Live(p)' => p \in queue'
    BY <1>17 DEF PlanFanRestart, Live
  <2>2. QED
    BY <1>17, <2>1 DEF PlanFanRestart, Stops
<1>18. CASE CallFails
  BY <1>1, <1>18 DEF CallFails
<1>19. QED
  BY <1>2, <1>5, <1>6, <1>8, <1>10, <1>11, <1>12, <1>13, <1>14, <1>15, <1>16, <1>17, <1>18
  DEF PlanFanNext, PlanFanStep, planFanVars, CreateParent, DeleteParent, EditSpec, ChildProgress, UserCreates, UserDeletes,
      NamespaceDeleted, NamespaceComesBack

\* The worker fans out for the parent it did before, or for a live one.
LEMMA FansOutStep ==
  ASSUME PlanFanTypeOK, NoOrphanPlansInv, [PlanFanNext]_planFanVars, FansOut'
  PROVE  \/ FansOut /\ w'.p = w.p
         \/ \E p \in Parents : Live(p) /\ w'.p = p /\ UNCHANGED <<parent, child>>
  BY WorkerSteps DEF FansOut

\* A step leaves the slots in order.
LEMMA SlotsStep ==
  ASSUME PlanFanTypeOK, NoOrphanPlansInv, SlotsInv, [PlanFanNext]_planFanVars
  PROVE  SlotsInv'
<1>1. ASSUME NEW n \in Namespaces
      PROVE  /\ child'[n].owner = Nobody => child'[n].st = "none"
             /\ ~byHand' => child'[n].owner # User
  <2> DEFINE Goal == /\ child'[n].owner = Nobody => child'[n].st = "none"
                     /\ ~byHand' => child'[n].owner # User
  <2>0. byHand => byHand'
    BY DEF PlanFanNext, PlanFanStep, planFanVars, Dequeue, CreateParent, DeleteParent, EditSpec, CallFails, ChildProgress,
           UserCreates, UserDeletes, NamespaceDeleted, NamespaceComesBack, PlanFanRestart
  <2>1. CASE UNCHANGED child
    BY <2>0, <2>1 DEF SlotsInv
  <2>2. ASSUME NEW k \in Namespaces, DeleteChild(k) PROVE Goal
    <3>1. child' = [child EXCEPT ![k] = Deleted(child[k])]
      BY <2>2 DEF DeleteChild
    <3>2. CASE n = k
      <4>1. child'[n] = Deleted(child[n])
        BY <3>1, <3>2 DEF PlanFanTypeOK
      <4>2. CASE Deleted(child[n]) = NoChild
        BY <4>1, <4>2, PlanFanAssumption DEF NoChild
      <4>3. CASE Deleted(child[n]) = [child[n] EXCEPT !.deleting = TRUE]
        BY <2>0, <4>1, <4>3 DEF PlanFanTypeOK, ChildPlan, SlotsInv
      <4>4. QED
        BY <4>2, <4>3 DEF Deleted
    <3>3. CASE n # k
      BY <2>0, <3>1, <3>3 DEF PlanFanTypeOK, SlotsInv
    <3>4. QED
      BY <3>2, <3>3
  <2>3. ASSUME NEW k \in Namespaces, Created(k), w.p \in Parents PROVE Goal
    <3>1. child' = [child EXCEPT ![k] = NewChild(w.p)]
      BY <2>3 DEF Created
    <3>2. QED
      BY <2>0, <2>3, <3>1, PlanFanAssumption DEF NewChild, PlanFanTypeOK, SlotsInv
  <2>4. ASSUME NEW k \in Namespaces, ChildProgress(k) PROVE Goal
    BY <2>0, <2>4, PlanFanAssumption DEF ChildProgress, NoChild, PlanFanTypeOK, ChildPlan, SlotsInv
  <2>5. ASSUME NEW k \in Namespaces, UserCreates(k) PROVE Goal
    BY <2>5, PlanFanAssumption DEF UserCreates, NewChild, PlanFanTypeOK, SlotsInv
  <2>6. CASE DeleteStale \/ DeleteExisting
    BY <2>2, <2>6 DEF DeleteStale, DeleteExisting, NoOrphanPlansInv, NamespacePCs
  <2>7. CASE Create \/ CreateAgain
    BY <2>1, <2>3, <2>7 DEF Create, CreateAgain, NoOrphanPlansInv, NamespacePCs
  <2>8. ASSUME NEW k \in Namespaces, FinalizeChild(k) \/ UserDeletes(k) \/ NamespaceDeleted(k) PROVE Goal
    BY <2>2, <2>8 DEF FinalizeChild, UserDeletes, NamespaceDeleted
  <2>9. QED
    BY <2>1, <2>4, <2>5, <2>6, <2>7, <2>8
    DEF PlanFanNext, PlanFanStep, planFanVars, Dequeue, CreateParent, DeleteParent, EditSpec, AddFinalizer, CheckCompleted, GetChild,
        GetExisting, UpdateStatus, UpdateMeta, ListAgain, RemoveFinalizer, CallFails, NamespaceComesBack, PlanFanRestart
<1>2. ASSUME NEW p \in Parents, parent'[p].st = "absent" PROVE parent'[p].status = NoStatus
  <2>1. parent[p].st = "absent"
    BY <1>2, AbsentStep
  <2>2. w.pc = "loop" => w.p # p
    BY <2>1 DEF SlotsInv, FansOut, CreatePCs
  <2>3. QED
    BY <2>1, <2>2, ParentChangeQueues DEF SlotsInv
<1>3. ASSUME FansOut' PROVE parent'[w'.p].st # "absent"
  <2>1. CASE FansOut /\ w'.p = w.p
    <3>1. w.p \in Parents /\ parent[w.p].st # "absent"
      BY <2>1, IdleWorker DEF SlotsInv, NoOrphanPlansInv, FansOut
    <3>2. QED
      BY <2>1, <3>1, AbsentStep
  <2>2. ASSUME NEW p \in Parents, Live(p), w'.p = p, UNCHANGED <<parent, child>> PROVE parent'[w'.p].st # "absent"
    BY <2>2 DEF Live
  <2>3. QED
    BY <1>3, <2>1, <2>2, FansOutStep
<1>4. QED
  BY <1>1, <1>2, <1>3 DEF SlotsInv

\* A late worker stays one.
LEMMA LateWorkerStep ==
  ASSUME PlanFanTypeOK, NoOrphanPlansInv, OneLive, SlotsInv, LateWorker, [PlanFanNext]_planFanVars
  PROVE  LateWorker'
<1> SUFFICES ASSUME FansOut', NEW p \in Parents, Live(p)', w'.p # p PROVE parent'[p].status = NoStatus
  BY DEF LateWorker
<1>1. CASE FansOut /\ w'.p = w.p
  <2>1. parent'[p].status = parent[p].status
    BY <1>1, ParentChangeQueues
  <2>2. CASE Live(p)
    BY <1>1, <2>1, <2>2 DEF LateWorker
  <2>3. CASE CreateParent(p)
    BY <2>1, <2>3 DEF CreateParent, SlotsInv
  <2>4. QED
    BY <2>2, <2>3, ParentSteps
<1>2. ASSUME NEW q \in Parents, Live(q), w'.p = q, UNCHANGED <<parent, child>> PROVE FALSE
  <2>1. Live(p)
    BY <1>2 DEF Live
  <2>2. QED
    BY <1>2, <2>1 DEF OneLive
<1>3. QED
  BY <1>1, <1>2, FansOutStep

\* The child the worker is about to create stays missing.
LEMMA CreatesMissingStep ==
  ASSUME PlanFanTypeOK, NoOrphanPlansInv, CreatesMissing, [PlanFanNext]_planFanVars
  PROVE  CreatesMissing'
<1> SUFFICES ASSUME w'.pc \in NamespacePCs PROVE child'[w'.at].owner # w'.p
  BY DEF CreatesMissing
<1>1. ASSUME w.pc \in NamespacePCs, w'.at = w.at, w'.p = w.p PROVE child'[w'.at].owner # w'.p
  <2>1. w.at \in Namespaces /\ w.p \in Parents /\ child[w.at].owner # w.p
    BY <1>1, IdleWorker DEF NoOrphanPlansInv, CreatesMissing
  <2>2. child'[w.at].owner \in {child[w.at].owner, User, Nobody}
    BY <2>1, OwnerSteps DEF NamespacePCs
  <2>3. QED
    BY <1>1, <2>1, <2>2, PlanFanAssumption
<1>2. CASE UNCHANGED w
  BY <1>1, <1>2
<1>3. CASE Stops
  BY <1>3, IdleWorker DEF Stops
<1>4. CASE GoesOn
  BY <1>1, <1>4 DEF GoesOn, NamespacePCs
<1>5. ASSUME NEW n \in Namespaces, GetChild(n) PROVE child'[w'.at].owner # w'.p
  BY <1>5, GetChildTurns DEF GetChild, NamespacePCs
<1>6. ASSUME NEW p \in Parents, Starts(p) PROVE FALSE
  BY <1>6 DEF Starts, NamespacePCs
<1>7. QED
  BY <1>2, <1>3, <1>4, <1>5, <1>6, WorkerMoves

\* What was reported stays one's own.
LEMMA ReportsOwnStep ==
  ASSUME PlanFanTypeOK, NoOrphanPlansInv, OneLive, SlotsInv, SlotsInv', LateWorker, ReportsOwn, [PlanFanNext]_planFanVars
  PROVE  ReportsOwn'
<1> SUFFICES ASSUME ~byHand', NEW n \in Namespaces, NEW p \in Parents, Live(p)'
             PROVE  /\ parent'[p].status.namespaces[n] # "none" => child'[n].owner \in {p, Nobody}
                    /\ FansOut' /\ w'.p = p /\ w'.status.namespaces[n] # "none" => child'[n].owner \in {p, Nobody}
  <2>1. FansOut' => w'.p \in Parents
    BY FansOutStep, IdleWorker DEF NoOrphanPlansInv, FansOut
  <2>2. QED
    BY <2>1 DEF ReportsOwn, FansOut
<1>0. ~byHand
  BY DEF PlanFanNext, PlanFanStep, planFanVars, Dequeue, CreateParent, DeleteParent, EditSpec, CallFails, ChildProgress,
         UserCreates, UserDeletes, NamespaceDeleted, NamespaceComesBack, PlanFanRestart
<1>1. child'[n].owner # User
  BY DEF SlotsInv
<1>2. child'[n].owner \in {child[n].owner, Nobody} \/ (child'[n].owner = w.p /\ w.pc \in NamespacePCs)
  <2>1. CASE child'[n].owner \in {child[n].owner, Nobody}
    BY <2>1
  <2>2. CASE child'[n].owner \notin {child[n].owner, Nobody} /\ w.pc \notin NamespacePCs
    <3>1. UNCHANGED child \/ (\E k \in Namespaces : DeleteChild(k) \/ ChildProgress(k) \/ UserCreates(k))
      BY <2>2 DEF PlanFanNext, PlanFanStep, planFanVars, Dequeue, CreateParent, DeleteParent, EditSpec, AddFinalizer, CheckCompleted,
          GetChild, DeleteStale, Create, GetExisting, DeleteExisting, CreateAgain, FinalizeChild, UpdateStatus, UpdateMeta, ListAgain,
          RemoveFinalizer, CallFails, UserDeletes, NamespaceDeleted, NamespaceComesBack, PlanFanRestart, NamespacePCs
    <3>2. ASSUME NEW k \in Namespaces, ChildProgress(k) PROVE FALSE
      BY <2>2, <3>2 DEF ChildProgress, NoChild, PlanFanTypeOK, ChildPlan
    <3>3. ASSUME NEW k \in Namespaces, UserCreates(k) PROVE FALSE
      BY <3>3 DEF UserCreates
    <3>4. QED
      BY <2>2, <3>1, <3>2, <3>3, DeleteChildOwners
  <2>3. QED
    BY <1>1, <2>1, <2>2, OwnerSteps
<1>3. ASSUME Live(p), parent[p].status.namespaces[n] # "none" PROVE child'[n].owner \in {p, Nobody}
  <2>1. child[n].owner \in {p, Nobody}
    BY <1>0, <1>3 DEF ReportsOwn
  <2>2. ASSUME child'[n].owner = w.p, w.pc \in NamespacePCs PROVE w.p = p
    <3>1. parent[p].status # NoStatus
      BY <1>3 DEF NoStatus
    <3>2. QED
      BY <1>3, <2>2, <3>1 DEF LateWorker, FansOut, CreatePCs
  <2>3. QED
    BY <1>2, <2>1, <2>2
<1>4. ASSUME FansOut, w.p = p, Live(p), w.status.namespaces[n] # "none" PROVE child'[n].owner \in {p, Nobody}
  BY <1>0, <1>2, <1>4 DEF ReportsOwn
<1>5. FansOut /\ w.p = p => Live(p)
  BY ParentSteps DEF CreateParent, SlotsInv
<1>6. parent'[p].status.namespaces[n] # "none" => child'[n].owner \in {p, Nobody}
  <2>1. CASE w.pc = "loop" /\ w.p = p /\ parent'[p].status.namespaces = w.status.namespaces
    BY <1>4, <1>5, <2>1 DEF FansOut, CreatePCs
  <2>2. CASE parent'[p].status = parent[p].status /\ Live(p)
    BY <1>3, <2>2
  <2>3. CASE parent'[p].status = parent[p].status /\ CreateParent(p)
    BY <2>3 DEF CreateParent, SlotsInv, NoStatus
  <2>4. QED
    BY <2>1, <2>2, <2>3, ParentChangeQueues, ParentSteps
<1>7. ASSUME FansOut', w'.p = p, w'.status.namespaces[n] # "none" PROVE child'[n].owner \in {p, Nobody}
  <2>1. CASE UNCHANGED w
    BY <1>4, <1>5, <1>7, <2>1 DEF FansOut
  <2>2. CASE Stops
    BY <1>7, <2>2, IdleWorker DEF Stops, FansOut, Idle
  <2>3. CASE GoesOn
    <3>1. FansOut
      BY <1>7, <2>3 DEF GoesOn, FansOut, CreatePCs, NamespacePCs
    <3>2. QED
      BY <1>4, <1>5, <1>7, <2>3, <3>1 DEF GoesOn
  <2>4. ASSUME NEW k \in Namespaces, GetChild(k) PROVE child'[n].owner \in {p, Nobody}
    <3>1. FansOut /\ w.p = p /\ UNCHANGED child
      BY <1>7, <2>4, GetChildTurns DEF FansOut, CreatePCs, GetChild
    <3>2. CASE n = k /\ child[k].owner = w.p
      BY <3>1, <3>2
    <3>3. CASE w'.status.namespaces[n] = w.status.namespaces[n]
      BY <1>4, <1>5, <1>7, <3>1, <3>3
    <3>4. n # k => [w.status.namespaces EXCEPT ![k] = Report(child[k].st)][n] = w.status.namespaces[n]
      BY DEF PlanFanTypeOK, PlanFanWorker, Status
    <3>5. QED
      BY <2>4, <3>2, <3>3, <3>4, GetChildTurns
  <2>5. ASSUME NEW q \in Parents, Starts(q) PROVE child'[n].owner \in {p, Nobody}
    BY <1>3, <1>7, <2>5 DEF Starts, FansOut, CreatePCs, NamespacePCs
  <2>6. QED
    BY <2>1, <2>2, <2>3, <2>4, <2>5, WorkerMoves
<1>8. QED
  BY <1>6, <1>7

\* What p shows stays true while p is not queued.
LEMMA SyncedStep ==
  ASSUME PlanFanTypeOK, NoOrphanPlansInv, [PlanFanNext]_planFanVars, NEW p \in Parents, Live(p)', p \notin queue', Synced(p)
  PROVE  Synced(p)'
<1>1. parent'[p] = parent[p] /\ parent[p].spec \subseteq Namespaces
  BY ParentChangeQueues DEF PlanFanTypeOK, Parent
<1>2. ASSUME NEW n \in parent[p].spec PROVE child'[n] = child[n]
  BY <1>1, <1>2, ChildChangeQueues DEF Synced
<1>3. QED
  BY <1>1, <1>2 DEF Synced

\* So does what the worker has found out about p.
LEMMA FoundStep ==
  ASSUME PlanFanTypeOK, NoOrphanPlansInv, [PlanFanNext]_planFanVars, NEW p \in Parents, Live(p)', p \notin queue',
         NEW n \in Namespaces, child[n].owner = p
  PROVE  child'[n] = child[n]
  BY ChildChangeQueues

\* The invariant is kept.
LEMMA SyncStep ==
  ASSUME PlanFanTypeOK, NoOrphanPlansInv, SlotsInv, ReportsOwn, CreatesMissing, SyncInv, [PlanFanNext]_planFanVars
  PROVE  SyncInv'
<1> SUFFICES ASSUME ~byHand', NEW p \in Parents, Live(p)', p \notin queue'
             PROVE  /\ p \notin behind'
                    /\ w'.pc # "idle" /\ w'.p = p => InHand(p)'
                    /\ ~(w'.pc # "idle" /\ w'.p = p) => Synced(p)'
  BY DEF SyncInv
<1>0. ~byHand
  BY DEF PlanFanNext, PlanFanStep, planFanVars, Dequeue, CreateParent, DeleteParent, EditSpec, CallFails, ChildProgress,
         UserCreates, UserDeletes, NamespaceDeleted, NamespaceComesBack, PlanFanRestart
<1>1. parent'[p] = parent[p] /\ Live(p)
  BY ParentChangeQueues DEF Live
<1>2. CASE p \in queue
  <2>1. Dequeue(p) /\ p \notin behind'
    BY <1>2, QueueSteps
  <2>2. w.pc = "idle" /\ Live(p) /\ UNCHANGED <<parent, child>>
    BY <1>1, <2>1 DEF Dequeue
  <2>3. w' = [Idle EXCEPT !.pc = FirstStep(p), !.p = p, !.spec = parent[p].spec, !.status = parent[p].status]
    BY <2>1, <2>2 DEF Dequeue, Live
  <2>4. w'.p = p /\ w'.pc = FirstStep(p) /\ w'.spec = parent[p].spec /\ w'.status = parent[p].status
    BY <2>3 DEF Idle
  <2>5. QED
    BY <2>1, <2>2, <2>4 DEF InHand, FirstStep
<1>3. CASE p \notin queue
  <2>0. p \notin behind'
    BY <1>0, <1>1, <1>3, QueueSteps DEF SyncInv
  <2>1. CASE ~(w.pc # "idle" /\ w.p = p)
    <3>1. Synced(p)'
      BY <1>0, <1>1, <1>3, <2>1, SyncedStep DEF SyncInv
    <3>2. ~(w'.pc # "idle" /\ w'.p = p)
      <4>1. ASSUME NEW q \in Parents, Starts(q) PROVE w'.p # p
        BY <1>3, <4>1 DEF Starts, Dequeue
      <4>2. ASSUME NEW n \in Namespaces, GetChild(n) PROVE w'.p = w.p /\ w.pc # "idle"
        BY <4>2, GetChildTurns
      <4>3. ASSUME GoesOn PROVE w'.p = w.p /\ w.pc # "idle"
        BY <4>3 DEF GoesOn, NamespacePCs
      <4>4. ASSUME Stops PROVE w'.pc = "idle"
        BY <4>4, IdleWorker DEF Stops
      <4>5. QED
        BY <2>1, <4>1, <4>2, <4>3, <4>4, WorkerMoves
    <3>3. QED
      BY <2>0, <3>1, <3>2
  <2>2. CASE w.pc # "idle" /\ w.p = p
    <3>0. InHand(p) /\ w.spec \subseteq Namespaces
      BY <1>0, <1>1, <1>3, <2>2 DEF SyncInv, PlanFanTypeOK, PlanFanWorker
    <3>1. ASSUME w.pc \in {"loop"} \cup NamespacePCs, NEW n \in w.spec \ w.todo
          PROVE  child'[n].owner = p /\ w.status.namespaces[n] = Report(child'[n].st)
      <4>1. n \in Namespaces /\ child[n].owner = p /\ w.status.namespaces[n] = Report(child[n].st)
        BY <3>0, <3>1 DEF InHand, NamespacePCs
      <4>2. QED
        BY <4>1, FoundStep
    <3>2. CASE UNCHANGED w
      BY <1>1, <2>0, <2>2, <3>0, <3>1, <3>2 DEF InHand
    <3>3. CASE Stops
      <4>1. w'.pc = "idle"
        BY <3>3, IdleWorker DEF Stops
      <4>2. Synced(p)'
        <5>1. CASE w.pc = "checkCompleted" /\ IsMultiPlanCompleted /\ UNCHANGED <<parent, child>>
          <6>1. w.spec = parent[p].spec /\ w.status = parent[p].status
            BY <3>0, <5>1 DEF InHand, NamespacePCs
          <6>2. ASSUME NEW n \in w.spec PROVE child[n].owner = p /\ parent[p].status.namespaces[n] = Report(child[n].st)
            <7>1. parent[p].status.namespaces[n] = "completed" /\ child[n].st = "completed" /\ n \in Namespaces
              BY <3>0, <5>1, <6>1, <6>2 DEF IsMultiPlanCompleted
            <7>2. child[n].owner \in {p, Nobody}
              BY <1>0, <1>1, <7>1 DEF ReportsOwn
            <7>3. QED
              BY <7>1, <7>2 DEF SlotsInv, Report
          <6>3. QED
            BY <5>1, <6>1, <6>2 DEF Synced
        <5>2. CASE w.pc = "loop" /\ w.todo = {} /\ w.status.namespaces = parent[w.p].status.namespaces
          BY <1>1, <2>2, <3>0, <3>1, <5>2 DEF InHand, Synced
        <5>3. CASE w.pc = "meta"
          BY <3>0, <5>3 DEF InHand, NamespacePCs
        <5>4. QED
          BY <2>2, <3>3, <5>1, <5>2, <5>3 DEF Stops
      <4>3. QED
        BY <2>0, <4>1, <4>2
    <3>4. CASE GoesOn
      <4>1. w'.p = p /\ w'.spec = w.spec /\ w'.status = w.status
        BY <2>2, <3>4 DEF GoesOn
      <4>2. CASE w.pc = "checkCompleted" /\ w'.pc = "loop" /\ w'.todo = w.spec
        <5>1. w.spec = parent[p].spec
          BY <3>0, <4>2 DEF InHand, NamespacePCs
        <5>2. QED
          BY <1>1, <2>0, <4>1, <4>2, <5>1 DEF InHand
      <4>3. CASE w.pc \in NamespacePCs /\ w'.pc \in NamespacePCs /\ w'.todo = w.todo
        <5>1. w.spec = parent[p].spec
          BY <3>0, <4>3 DEF InHand
        <5>2. QED
          BY <1>1, <2>0, <3>1, <4>1, <4>3, <5>1 DEF InHand, NamespacePCs
      <4>4. CASE w.pc = "finalize"
        BY <3>0, <4>4 DEF InHand, NamespacePCs
      <4>5. w.pc \in NamespacePCs => child[w.at].owner # w.p
        BY DEF CreatesMissing
      <4>6. QED
        BY <2>2, <3>4, <4>2, <4>3, <4>4, <4>5 DEF GoesOn
    <3>5. ASSUME NEW k \in Namespaces, GetChild(k) PROVE p \notin behind' /\ w'.pc # "idle" /\ w'.p = p /\ InHand(p)'
      <4>1. w.pc = "loop" /\ w'.p = p /\ w'.spec = w.spec /\ UNCHANGED child
        BY <2>2, <3>5, GetChildTurns DEF GetChild
      <4>2. w.spec = parent[p].spec
        BY <3>0, <4>1 DEF InHand
      <4>3. CASE w'.pc \in {"create", "deleteStale"} /\ w'.todo = w.todo /\ w'.status.namespaces = w.status.namespaces
        <5>1. \A n \in w'.spec \ w'.todo : child'[n].owner = p /\ w'.status.namespaces[n] = Report(child'[n].st)
          BY <3>1, <4>1, <4>3
        <5>2. w'.pc \in NamespacePCs
          BY <4>3 DEF NamespacePCs
        <5>3. QED
          BY <1>1, <2>0, <4>1, <4>2, <5>1, <5>2, IdleWorker DEF InHand
      <4>4. CASE /\ w'.pc = "loop" /\ child[k].owner = w.p /\ w'.todo = w.todo \ {k}
                 /\ w'.status.namespaces = [w.status.namespaces EXCEPT ![k] = Report(child[k].st)]
        <5>1. w.status.namespaces \in [Namespaces -> Reports]
          BY DEF PlanFanTypeOK, PlanFanWorker, Status
        <5>2. \A n \in w'.spec \ w'.todo : child'[n].owner = p /\ w'.status.namespaces[n] = Report(child'[n].st)
          BY <2>2, <3>0, <3>1, <4>1, <4>4, <5>1
        <5>3. QED
          BY <1>1, <2>0, <4>1, <4>2, <4>4, <5>2 DEF InHand
      <4>5. QED
        BY <3>5, <4>3, <4>4, GetChildTurns
    <3>6. ASSUME NEW q \in Parents, Starts(q) PROVE FALSE
      BY <2>2, <3>6 DEF Starts, Dequeue
    <3>7. QED
      BY <2>0, <3>2, <3>3, <3>4, <3>5, <3>6, WorkerMoves
  <2>3. QED
    BY <2>1, <2>2
<1>4. QED
  BY <1>2, <1>3

(***************************************************************************)
(* With one live parent at a time no event is lost, whatever fails and     *)
(* whoever edits, deletes or takes a namespace away: once nothing is       *)
(* queued, every namespace of a live parent has its child and shows its    *)
(* state (Reconcile, isMultiPlanCompleted, the watch of the children).     *)
(***************************************************************************)
THEOREM PlanFanOutSettles == ASSUME LiveParents = 1 PROVE PlanFanSpec => []QuiescentSynced
<1> DEFINE Inv == /\ PlanFanTypeOK /\ NoOrphanPlansInv /\ KeepInv
                  /\ SlotsInv /\ LateWorker /\ ReportsOwn /\ CreatesMissing /\ SyncInv
<1>1. PlanFanInit => Inv
  <2> SUFFICES ASSUME PlanFanInit PROVE Inv
    OBVIOUS
  <2>1. \A p \in Parents : ~Live(p)
    BY DEF PlanFanInit, NoParent, Live
  <2>2. ~FansOut /\ w.pc = "idle" /\ w.pc \notin NamespacePCs
    BY IdleWorker DEF PlanFanInit, FansOut, Idle, CreatePCs, NamespacePCs
  <2>3. SlotsInv
    BY <2>2, PlanFanAssumption DEF PlanFanInit, SlotsInv, NoChild, NoParent
  <2>4. QED
    BY <2>1, <2>2, <2>3, PlanFanInitInv, KeepInit DEF LateWorker, ReportsOwn, CreatesMissing, SyncInv
<1>2. Inv /\ [PlanFanNext]_planFanVars => Inv'
  <2> SUFFICES ASSUME Inv, [PlanFanNext]_planFanVars PROVE Inv'
    OBVIOUS
  <2>1. PlanFanTypeOK' /\ NoOrphanPlansInv' /\ KeepInv'
    BY PlanFanNextType, PlanFanNextOrphans, KeepStep
  <2>2. SlotsInv' /\ CreatesMissing' /\ SyncInv'
    BY SlotsStep, CreatesMissingStep, SyncStep
  <2>3. LateWorker' /\ ReportsOwn'
    BY <2>2, LateWorkerStep, ReportsOwnStep DEF KeepInv
  <2>4. QED
    BY <2>1, <2>2, <2>3
<1>3. Inv => QuiescentSynced
  BY DEF SyncInv, QuiescentSynced, Synced
<1>4. QED
  BY <1>1, <1>2, <1>3, PTL DEF PlanFanSpec
===============================================================================
