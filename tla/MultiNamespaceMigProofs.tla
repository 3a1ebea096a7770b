------------------------ MODULE MultiNamespaceMigProofs ------------------------
(***************************************************************************)
(* No child migration outlives its multi-namespace migration, for every    *)
(* set of namespaces and of parents, any number of parents alive at once   *)
(* and any number of failing calls and restarts.                           *)
(***************************************************************************)
EXTENDS MultiNamespaceMig, FiniteSetTheorems, TLAPS

\* What the values a step may write have for types.
LEMMA FanOutValues ==
  /\ Idle \in FanOutWorker
  /\ NoChild \in Child
  /\ NoStatus \in Status
  /\ \A p \in Parents \cup {User} : NewChild(p) \in Child
  BY DEF Idle, FanOutWorker, NoChild, NewChild, Child, NoStatus, Status, ChildStates

\* A deletion of a child keeps the types.
LEMMA DeleteChildType ==
  ASSUME FanOutTypeOK, NEW n \in Namespaces, DeleteChild(n)
  PROVE  child' \in [Namespaces -> Child] /\ queue' \subseteq Parents
  BY FanOutValues DEF DeleteChild, ParentOf, FanOutTypeOK, Child

\* So does a creation.
LEMMA CreatedType ==
  ASSUME FanOutTypeOK, NEW n \in Namespaces, NEW p \in Parents, Created(n, p)
  PROVE  child' \in [Namespaces -> Child] /\ queue' \subseteq Parents /\ w' \in FanOutWorker
  BY FanOutValues DEF Created, FanOutTypeOK

\* And the return of an error.
LEMMA FailsType ==
  ASSUME FanOutTypeOK, w.p \in Parents, Fails
  PROVE  queue' \subseteq Parents /\ w' \in FanOutWorker
  BY FanOutValues DEF Fails, FanOutTypeOK

\* A step of the worker keeps the types.
LEMMA FanOutStepType ==
  ASSUME FanOutTypeOK, NoOrphansInv, FanOutStep
  PROVE  FanOutTypeOK'
<1>0. /\ w.pc # "idle" => w.p \in Parents
      /\ w.pc \in NamespacePCs => w.at \in Namespaces
  BY DEF NoOrphansInv
<1>1. CASE AddFinalizer
  <2>1. w.p \in Parents
    BY <1>0, <1>1 DEF AddFinalizer
  <2>2. UNCHANGED <<child, behind, plan, faults>>
    BY <1>1 DEF AddFinalizer, FanOutStep
  <2>3. CASE Fails /\ UNCHANGED parent
    BY <2>1, <2>2, <2>3, FailsType DEF FanOutTypeOK
  <2>4. ASSUME parent' = [parent EXCEPT ![w.p].fin = TRUE],
               queue' = queue \cup {w.p}, w' = [w EXCEPT !.pc = "getPlan"]
        PROVE  FanOutTypeOK'
    BY <2>1, <2>2, <2>4 DEF FanOutTypeOK, FanOutWorker, FanOutPCs, Parent
  <2>5. QED
    BY <1>1, <2>3, <2>4 DEF AddFinalizer
<1>2. CASE GetPlan
  BY <1>0, <1>2, FanOutValues DEF GetPlan, FanOutStep, FanOutTypeOK, FanOutWorker, FanOutPCs, Status
<1>3. ASSUME NEW n \in Namespaces, GetChild(n) PROVE FanOutTypeOK'
  BY <1>0, <1>3 DEF GetChild, Conflict, FanOutStep, FanOutTypeOK, FanOutWorker, FanOutPCs, NamespacePCs, Status, Child
<1>4. ASSUME NEW n \in Namespaces, FinalizeChild(n) PROVE FanOutTypeOK'
  BY <1>0, <1>4, DeleteChildType DEF FinalizeChild, FanOutStep, FanOutTypeOK, FanOutWorker
<1>5. CASE DeleteStale
  BY <1>0, <1>5, DeleteChildType DEF DeleteStale, FanOutStep, FanOutTypeOK, FanOutWorker, FanOutPCs, NamespacePCs
<1>6. CASE Create
  BY <1>0, <1>6, CreatedType DEF Create, FanOutStep, FanOutTypeOK, FanOutWorker, FanOutPCs, NamespacePCs
<1>7. CASE GetExisting
  <2>1. w.p \in Parents
    BY <1>0, <1>7 DEF GetExisting
  <2>2. UNCHANGED <<parent, child, behind, plan, faults>>
    BY <1>7 DEF GetExisting, FanOutStep
  <2>3. Conflict \in FanOutWorker
    BY DEF Conflict, FanOutTypeOK, FanOutWorker, Status
  <2>4. CASE Fails
    BY <2>1, <2>2, <2>4, FailsType DEF FanOutTypeOK
  <2>5. CASE w' = [w EXCEPT !.pc = "deleteExisting"] /\ UNCHANGED queue
    BY <2>2, <2>5 DEF FanOutTypeOK, FanOutWorker, FanOutPCs, NamespacePCs
  <2>6. CASE w' \in {Idle, Conflict} /\ UNCHANGED queue
    BY <2>2, <2>3, <2>6, FanOutValues DEF FanOutTypeOK
  <2>7. QED
    BY <1>7, <2>4, <2>5, <2>6 DEF GetExisting
<1>8. CASE DeleteExisting
  BY <1>0, <1>8, DeleteChildType DEF DeleteExisting, FanOutStep, FanOutTypeOK, FanOutWorker, FanOutPCs, NamespacePCs
<1>9. CASE CreateAgain
  BY <1>0, <1>9, CreatedType, FailsType DEF CreateAgain, FanOutStep, FanOutTypeOK, FanOutPCs, NamespacePCs
<1>10. CASE UpdateStatus
  BY <1>0, <1>10, FailsType, FanOutValues DEF UpdateStatus, FanOutStep, FanOutTypeOK, FanOutWorker, Parent
<1>11. CASE ListAgain
  BY <1>0, <1>11, FailsType DEF ListAgain, FanOutStep, FanOutTypeOK, FanOutWorker
<1>12. CASE RemoveFinalizer
  <2>1. w.p \in Parents
    BY <1>0, <1>12 DEF RemoveFinalizer
  <2>2. UNCHANGED <<child, behind, plan, faults>>
    BY <1>12 DEF RemoveFinalizer, FanOutStep
  <2>3. CASE Fails /\ UNCHANGED parent
    BY <2>1, <2>2, <2>3, FailsType DEF FanOutTypeOK
  <2>4. CASE parent' = [parent EXCEPT ![w.p].fin = FALSE, ![w.p].st = "gone"] /\ w' = Idle /\ UNCHANGED queue
    <3>1. [parent[w.p] EXCEPT !.fin = FALSE, !.st = "gone"] \in Parent
      BY <2>1 DEF FanOutTypeOK, Parent
    <3>2. parent' \in [Parents -> Parent]
      BY <2>1, <2>4, <3>1 DEF FanOutTypeOK
    <3>3. QED
      BY <2>2, <2>4, <3>2, FanOutValues DEF FanOutTypeOK
  <2>5. QED
    BY <1>12, <2>3, <2>4 DEF RemoveFinalizer
<1>13. QED
  BY <1>1, <1>2, <1>3, <1>4, <1>5, <1>6, <1>7, <1>8, <1>9, <1>10, <1>11, <1>12 DEF FanOutStep

\* No step changes the type of a variable.
LEMMA FanOutNextType ==
  ASSUME FanOutTypeOK, NoOrphansInv, [FanOutNext]_fanVars
  PROVE  FanOutTypeOK'
<1>1. ASSUME NEW p \in Parents, Dequeue(p) PROVE FanOutTypeOK'
  <2>1. w' \in FanOutWorker
    <3>1. CASE UNCHANGED w
      BY <3>1 DEF FanOutTypeOK
    <3>2. CASE w' = [Idle EXCEPT !.pc = "finalize", !.p = p, !.todo = {n \in Owned(p) : ~child[n].deleting}]
      BY <3>2, FanOutValues DEF FanOutWorker, Owned
    <3>3. CASE w' = [Idle EXCEPT !.pc = FirstStep(p), !.p = p, !.status = parent[p].status]
      BY <3>3, FanOutValues DEF FanOutTypeOK, Parent, FanOutWorker, FirstStep, FanOutPCs
    <3>4. QED
      BY <1>1, <3>1, <3>2, <3>3 DEF Dequeue
  <2>2. QED
    BY <1>1, <2>1 DEF Dequeue, FanOutTypeOK
<1>2. ASSUME NEW p \in Parents, CreateParent(p) PROVE FanOutTypeOK'
  BY <1>2 DEF CreateParent, FanOutTypeOK, Parent
<1>3. ASSUME NEW p \in Parents, DeleteParent(p) PROVE FanOutTypeOK'
  <2>1. parent' \in [Parents -> Parent]
    <3>1. PICK s \in {"present", "gone"} : parent' = [parent EXCEPT ![p].deleting = TRUE, ![p].st = s]
      BY <1>3 DEF DeleteParent
    <3>2. [parent[p] EXCEPT !.deleting = TRUE, !.st = s] \in Parent
      BY DEF FanOutTypeOK, Parent
    <3>3. QED
      BY <3>1, <3>2 DEF FanOutTypeOK
  <2>2. QED
    BY <1>3, <2>1 DEF DeleteParent, FanOutTypeOK
<1>4. CASE FanOutStep
  BY <1>4, FanOutStepType
<1>5. CASE CallFails
  BY <1>5, FailsType DEF CallFails, NoOrphansInv, FanOutTypeOK
<1>6. ASSUME NEW n \in Namespaces, ChildProgress(n) PROVE FanOutTypeOK'
  BY <1>6, FanOutValues DEF ChildProgress, ParentOf, FanOutTypeOK, Child, ChildStates
<1>7. ASSUME NEW n \in Namespaces, UserCreates(n) PROVE FanOutTypeOK'
  BY <1>7, FanOutValues DEF UserCreates, FanOutTypeOK
<1>8. CASE PlanChanges
  BY <1>8 DEF PlanChanges, FanOutTypeOK
<1>9. CASE FanOutRestart
  BY <1>9, FanOutValues DEF FanOutRestart, FanOutTypeOK
<1>10. CASE UNCHANGED fanVars
  BY <1>10 DEF fanVars, FanOutTypeOK
<1>11. QED
  BY <1>1, <1>2, <1>3, <1>4, <1>5, <1>6, <1>7, <1>8, <1>9, <1>10 DEF FanOutNext

\* A worker that stops leaves nothing to show about the worker.
LEMMA IdleWorker == Idle.pc = "idle" /\ "idle" \notin FanOutPCs \cup NamespacePCs
  BY DEF Idle, FanOutPCs, NamespacePCs

\* The deletion of a child leaves no child that was not there.
LEMMA DeleteChildOwners ==
  ASSUME FanOutTypeOK, NEW n \in Namespaces, DeleteChild(n), NEW k \in Namespaces
  PROVE  child'[k].owner \in {child[k].owner, Nobody}
  BY DEF DeleteChild, FanOutTypeOK, Child, NoChild

\* A step of the worker leaves no child without a parent.
LEMMA FanOutStepOrphans ==
  ASSUME FanOutTypeOK, NoOrphansInv, FanOutStep
  PROVE  NoOrphansInv'
<1> USE FanOutAssumption
<1>1. CASE AddFinalizer
  <2>1. UNCHANGED <<child, behind>> /\ w.p \in Parents
    BY <1>1 DEF AddFinalizer, NoOrphansInv
  <2>2. CASE Fails /\ UNCHANGED parent
    BY <2>1, <2>2, IdleWorker DEF Fails, NoOrphansInv
  <2>3. ASSUME w.p \notin behind,
               parent' = [parent EXCEPT ![w.p].fin = TRUE], w' = [w EXCEPT !.pc = "getPlan"]
        PROVE  NoOrphansInv'
    <3>1. parent[w.p].st = "present"
      BY <1>1, <2>3 DEF AddFinalizer, NoOrphansInv
    <3>2. parent'[w.p].fin /\ \A p \in Parents : parent'[p].st = parent[p].st /\ (parent[p].fin => parent'[p].fin)
      BY <2>1, <2>3 DEF FanOutTypeOK, Parent
    <3>3. w'.pc = "getPlan" /\ w'.p = w.p
      BY <2>3 DEF FanOutTypeOK, FanOutWorker
    <3>4. QED
      BY <2>1, <3>1, <3>2, <3>3 DEF NoOrphansInv, FanOutPCs, NamespacePCs
  <2>4. QED
    BY <1>1, <2>2, <2>3 DEF AddFinalizer
<1>2. CASE GetPlan
  BY <1>2 DEF GetPlan, NoOrphansInv, FanOutTypeOK, FanOutWorker, FanOutPCs, NamespacePCs
<1>3. ASSUME NEW n \in Namespaces, GetChild(n) PROVE NoOrphansInv'
  BY <1>3 DEF GetChild, Conflict, NoOrphansInv, FanOutTypeOK, FanOutWorker, FanOutPCs, NamespacePCs
<1>4. ASSUME NEW n \in Namespaces, FinalizeChild(n) PROVE NoOrphansInv'
  BY <1>4, DeleteChildOwners DEF FinalizeChild, NoOrphansInv, FanOutTypeOK, FanOutWorker, FanOutPCs, NamespacePCs
<1>5. CASE DeleteStale
  BY <1>5, DeleteChildOwners DEF DeleteStale, NoOrphansInv, FanOutTypeOK, FanOutWorker, FanOutPCs, NamespacePCs
<1>6. CASE Create
  BY <1>6, IdleWorker DEF Create, Created, NewChild, NoOrphansInv, FanOutTypeOK, FanOutWorker, FanOutPCs, NamespacePCs
<1>7. CASE GetExisting
  BY <1>7, IdleWorker DEF GetExisting, Conflict, Fails, NoOrphansInv, FanOutTypeOK, FanOutWorker, FanOutPCs, NamespacePCs
<1>8. CASE DeleteExisting
  BY <1>8, DeleteChildOwners DEF DeleteExisting, NoOrphansInv, FanOutTypeOK, FanOutWorker, FanOutPCs, NamespacePCs
<1>9. CASE CreateAgain
  BY <1>9, IdleWorker DEF CreateAgain, Created, Fails, NewChild, NoOrphansInv, FanOutTypeOK, FanOutPCs, NamespacePCs
<1>10. CASE UpdateStatus
  BY <1>10, IdleWorker DEF UpdateStatus, Fails, NoOrphansInv, FanOutTypeOK, Parent
<1>11. CASE ListAgain
  BY <1>11, IdleWorker DEF ListAgain, Fails, Owned, NoOrphansInv, FanOutTypeOK, FanOutWorker, FanOutPCs, NamespacePCs
<1>12. CASE RemoveFinalizer
  BY <1>12, IdleWorker DEF RemoveFinalizer, Fails, Owned, NoOrphansInv, FanOutTypeOK, Parent
<1>13. QED
  BY <1>1, <1>2, <1>3, <1>4, <1>5, <1>6, <1>7, <1>8, <1>9, <1>10, <1>11, <1>12 DEF FanOutStep

\* No step leaves a child without a parent.
LEMMA FanOutNextOrphans ==
  ASSUME FanOutTypeOK, NoOrphansInv, [FanOutNext]_fanVars
  PROVE  NoOrphansInv'
<1> USE FanOutAssumption
<1>1. ASSUME NEW p \in Parents, Dequeue(p) PROVE NoOrphansInv'
  <2>1. UNCHANGED <<parent, child>> /\ w.pc = "idle"
    BY <1>1 DEF Dequeue
  <2>2. CASE UNCHANGED w
    BY <2>1, <2>2 DEF NoOrphansInv, FanOutPCs, NamespacePCs
  <2>3. CASE w'.pc = "finalize" /\ w'.p = p
    BY <2>1, <2>3 DEF NoOrphansInv, FanOutPCs, NamespacePCs
  <2>4. CASE w'.pc = FirstStep(p) /\ w'.p = p /\ parent[p].st = "present"
    <3>1. CASE parent[p].fin
      BY <2>1, <2>4, <3>1 DEF FirstStep, NoOrphansInv, FanOutPCs, NamespacePCs
    <3>2. CASE ~parent[p].fin
      BY <2>1, <2>4, <3>2 DEF FirstStep, NoOrphansInv, FanOutPCs, NamespacePCs
    <3>3. QED
      BY <3>1, <3>2
  <2>5. QED
    BY <1>1, <2>2, <2>3, <2>4 DEF Dequeue, Idle
<1>2. ASSUME NEW p \in Parents, CreateParent(p) PROVE NoOrphansInv'
  BY <1>2 DEF CreateParent, Owned, NoOrphansInv, FanOutTypeOK, Parent
<1>3. ASSUME NEW p \in Parents, DeleteParent(p) PROVE NoOrphansInv'
  <2>1. UNCHANGED <<child, w>> /\ behind' = behind \cup {p}
    BY <1>3 DEF DeleteParent
  <2>2. \A q \in Parents : /\ parent[q].fin => parent'[q].fin
                           /\ q # p \/ parent[q].fin => parent'[q].st = parent[q].st
    BY <1>3 DEF DeleteParent, FanOutTypeOK, Parent
  <2>3. w.pc = "addFinalizer" /\ w.p \notin behind' => parent'[w.p].st = "present"
    BY <2>1, <2>2 DEF NoOrphansInv
  <2>4. w.pc \in FanOutPCs => parent'[w.p].st = "present" /\ parent'[w.p].fin
    BY <2>2, IdleWorker DEF NoOrphansInv
  <2>5. QED
    BY <2>1, <2>2, <2>3, <2>4 DEF Owned, NoOrphansInv
<1>4. CASE FanOutStep
  BY <1>4, FanOutStepOrphans
<1>5. CASE CallFails
  BY <1>5, IdleWorker DEF CallFails, Fails, NoOrphansInv
<1>6. ASSUME NEW n \in Namespaces, ChildProgress(n) PROVE NoOrphansInv'
  BY <1>6 DEF ChildProgress, NoChild, Owned, NoOrphansInv, FanOutTypeOK, Child
<1>7. ASSUME NEW n \in Namespaces, UserCreates(n) PROVE NoOrphansInv'
  BY <1>7 DEF UserCreates, NewChild, Owned, NoOrphansInv, FanOutTypeOK
<1>8. CASE PlanChanges
  BY <1>8 DEF PlanChanges, Owned, NoOrphansInv
<1>9. CASE FanOutRestart
  BY <1>9, IdleWorker DEF FanOutRestart, NoOrphansInv
<1>10. CASE UNCHANGED fanVars
  BY <1>10 DEF fanVars, Owned, NoOrphansInv
<1>11. QED
  BY <1>1, <1>2, <1>3, <1>4, <1>5, <1>6, <1>7, <1>8, <1>9, <1>10 DEF FanOutNext

\* The initial states satisfy the invariant.
LEMMA FanOutInitInv == FanOutInit => FanOutTypeOK /\ NoOrphansInv
<1>1. FanOutInit => FanOutTypeOK
  <2> SUFFICES ASSUME FanOutInit PROVE FanOutTypeOK
    OBVIOUS
  <2>1. plan \in BOOLEAN
    BY DEF FanOutInit
  <2>2. parent \in [Parents -> Parent] /\ child \in [Namespaces -> Child]
    BY FanOutValues DEF FanOutInit, Parent
  <2>3. QED
    BY <2>1, <2>2, FanOutValues DEF FanOutInit, FanOutTypeOK
<1>2. FanOutInit => NoOrphansInv
  BY FanOutAssumption, IdleWorker DEF FanOutInit, NoOrphansInv, NoChild
<1>3. QED
  BY <1>1, <1>2

(***************************************************************************)
(* Whatever fails and whoever creates and deletes parents, a child labelled *)
(* with a parent exists only while that parent does and carries the        *)
(* finalizer (Reconcile, runFinalizer).                                    *)
(***************************************************************************)
THEOREM ChildrenGoFirst == FanOutSpec => []NoOrphansInv
<1>1. FanOutTypeOK /\ NoOrphansInv /\ [FanOutNext]_fanVars => (FanOutTypeOK /\ NoOrphansInv)'
  BY FanOutNextType, FanOutNextOrphans
<1>2. QED
  BY <1>1, FanOutInitInv, PTL DEF FanOutSpec

-----------------------------------------------------------------------------
(* With one live parent at a time *)

(***************************************************************************)
(* What keeps the children of a live parent: while the worker fans out for *)
(* a parent every other child has a parent that is being deleted, a child  *)
(* it is about to replace is not its own, and the finalizer has only its   *)
(* own children in hand.                                                   *)
(***************************************************************************)
OneLive == \A p, q \in Parents : Live(p) /\ Live(q) => p = q

OthersDeleting ==
  w.pc \in FanOutPCs \cup {"addFinalizer"} =>
    \A n \in Namespaces : child[n].owner \in Parents \ {w.p} => parent[child[n].owner].deleting

StaleInHand == w.pc \in {"deleteStale", "deleteExisting"} => child[w.at].owner # w.p

FinalizesOwn ==
  w.pc = "finalize" =>
    parent[w.p].deleting /\ \A n \in w.todo : child[n].owner \in {w.p, User, Nobody}

\* A parent is created only when no other is live.
LEMMA CreateParentOneLive ==
  ASSUME LiveParents = 1, FanOutTypeOK, NEW p \in Parents, CreateParent(p), NEW q \in Parents
  PROVE  ~Live(q)
<1> DEFINE L == {o \in Parents : Live(o)}
<1>1. IsFiniteSet(L)
  BY FanOutAssumption, FS_Subset
<1>2. Cardinality(L) < 1 /\ Cardinality(L) \in Nat
  BY <1>1, FS_CardinalityType DEF CreateParent
<1>3. L = {}
  BY <1>1, <1>2, FS_EmptySet
<1>4. QED
  BY <1>3

\* A deleted parent stays deleted, and only CreateParent makes a parent live.
LEMMA ParentSteps ==
  ASSUME FanOutTypeOK, NoOrphansInv, [FanOutNext]_fanVars, NEW p \in Parents
  PROVE  /\ parent[p].deleting => parent'[p].deleting
         /\ Live(p)' => Live(p) \/ CreateParent(p)
<1>1. CASE UNCHANGED parent
  BY <1>1 DEF Live
<1>2. ASSUME NEW q \in Parents, CreateParent(q) PROVE (parent[p].deleting => parent'[p].deleting) /\ (Live(p)' => Live(p) \/ CreateParent(p))
  BY <1>2 DEF CreateParent, FanOutTypeOK, Parent, Live
<1>3. ASSUME NEW q \in Parents, DeleteParent(q) PROVE (parent[p].deleting => parent'[p].deleting) /\ (Live(p)' => Live(p))
  BY <1>3 DEF DeleteParent, FanOutTypeOK, Parent, Live
<1>4. CASE AddFinalizer
  BY <1>4 DEF AddFinalizer, NoOrphansInv, FanOutTypeOK, Parent, Live
<1>5. CASE UpdateStatus
  BY <1>5 DEF UpdateStatus, NoOrphansInv, FanOutTypeOK, Parent, Live
<1>6. CASE RemoveFinalizer
  BY <1>6 DEF RemoveFinalizer, NoOrphansInv, FanOutTypeOK, Parent, Live
<1>7. QED
  BY <1>1, <1>2, <1>3, <1>4, <1>5, <1>6
  DEF FanOutNext, FanOutStep, fanVars, Dequeue, GetPlan, GetChild, FinalizeChild, DeleteStale, Create,
      GetExisting, DeleteExisting, CreateAgain, ListAgain, CallFails, ChildProgress, UserCreates, PlanChanges, FanOutRestart

\* The parts of the invariant together.
KeepInv == OneLive /\ OthersDeleting /\ StaleInHand /\ FinalizesOwn

\* What a step may do to the owner of a child.
LEMMA OwnerSteps ==
  ASSUME FanOutTypeOK, NoOrphansInv, [FanOutNext]_fanVars, NEW n \in Namespaces
  PROVE  \/ child'[n].owner \in {child[n].owner, User, Nobody}
         \/ child'[n].owner = w.p /\ w' = Idle
<1> DEFINE Goal == \/ child'[n].owner \in {child[n].owner, User, Nobody}
                   \/ child'[n].owner = w.p /\ w' = Idle
<1>1. CASE UNCHANGED child
  BY <1>1
<1>2. ASSUME NEW k \in Namespaces, DeleteChild(k) PROVE Goal
  BY <1>2, DeleteChildOwners
<1>3. ASSUME NEW k \in Namespaces, Created(k, w.p) PROVE Goal
  BY <1>3 DEF Created, NewChild, FanOutTypeOK
<1>4. ASSUME NEW k \in Namespaces, ChildProgress(k) PROVE Goal
  BY <1>4 DEF ChildProgress, NoChild, FanOutTypeOK, Child
<1>5. ASSUME NEW k \in Namespaces, UserCreates(k) PROVE Goal
  BY <1>5 DEF UserCreates, NewChild, FanOutTypeOK
<1>6. CASE DeleteStale \/ DeleteExisting
  BY <1>2, <1>6 DEF DeleteStale, DeleteExisting, NoOrphansInv, NamespacePCs
<1>7. CASE Create \/ CreateAgain
  BY <1>1, <1>3, <1>7 DEF Create, CreateAgain, NoOrphansInv, NamespacePCs
<1>8. ASSUME NEW k \in Namespaces, FinalizeChild(k) PROVE Goal
  BY <1>2, <1>8 DEF FinalizeChild
<1>9. QED
  BY <1>1, <1>4, <1>5, <1>6, <1>7, <1>8
  DEF FanOutNext, FanOutStep, fanVars, Dequeue, CreateParent, DeleteParent, AddFinalizer, GetPlan, GetChild,
      GetExisting, UpdateStatus, ListAgain, RemoveFinalizer, CallFails, PlanChanges, FanOutRestart

\* There stays one live parent.
LEMMA OneLiveStep ==
  ASSUME LiveParents = 1, FanOutTypeOK, NoOrphansInv, OneLive, [FanOutNext]_fanVars
  PROVE  OneLive'
<1> SUFFICES ASSUME NEW p \in Parents, NEW q \in Parents, Live(p)', Live(q)' PROVE p = q
  BY DEF OneLive
<1>1. CASE Live(p) /\ Live(q)
  BY <1>1 DEF OneLive
<1>2. CASE CreateParent(p)
  BY <1>2, CreateParentOneLive DEF CreateParent, FanOutTypeOK, Parent, Live
<1>3. CASE CreateParent(q)
  BY <1>3, CreateParentOneLive DEF CreateParent, FanOutTypeOK, Parent, Live
<1>4. QED
  BY <1>1, <1>2, <1>3, ParentSteps

\* Where the worker can be after a step, and where it was before.
LEMMA WorkerSteps ==
  ASSUME FanOutTypeOK, [FanOutNext]_fanVars
  PROVE  /\ w'.pc \in FanOutPCs \cup {"addFinalizer"} =>
              \/ w.pc \in FanOutPCs \cup {"addFinalizer"} /\ w'.p = w.p
              \/ \E p \in Parents : Live(p) /\ w'.p = p /\ UNCHANGED <<parent, child>>
         /\ w'.pc \in {"deleteStale", "deleteExisting"} =>
              \/ w.pc = w'.pc /\ w'.p = w.p /\ w'.at = w.at
              \/ child'[w'.at].owner # w'.p
         /\ w'.pc = "finalize" =>
              \/ w.pc = "finalize" /\ w'.p = w.p /\ w'.todo \subseteq w.todo
              \/ /\ \A n \in w'.todo : child'[n].owner = w'.p
                 /\ w'.p \in Parents /\ parent'[w'.p].deleting
<1> DEFINE G1 == w'.pc \in FanOutPCs \cup {"addFinalizer"} =>
                   \/ w.pc \in FanOutPCs \cup {"addFinalizer"} /\ w'.p = w.p
                   \/ \E p \in Parents : Live(p) /\ w'.p = p /\ UNCHANGED <<parent, child>>
           G2 == w'.pc \in {"deleteStale", "deleteExisting"} =>
                   \/ w.pc = w'.pc /\ w'.p = w.p /\ w'.at = w.at
                   \/ child'[w'.at].owner # w'.p
           G3 == w'.pc = "finalize" =>
                   \/ w.pc = "finalize" /\ w'.p = w.p /\ w'.todo \subseteq w.todo
                   \/ /\ \A n \in w'.todo : child'[n].owner = w'.p
                      /\ w'.p \in Parents /\ parent'[w'.p].deleting
<1>1. CASE UNCHANGED w
  BY <1>1
<1>2. CASE w' = Idle
  BY <1>2, IdleWorker
<1>3. ASSUME NEW p \in Parents, Dequeue(p) PROVE G1 /\ G2 /\ G3
  <2>1. UNCHANGED <<parent, child>>
    BY <1>3 DEF Dequeue
  <2>2. CASE w' = [Idle EXCEPT !.pc = "finalize", !.p = p, !.todo = {n \in Owned(p) : ~child[n].deleting}] /\ parent[p].deleting
    BY <2>1, <2>2 DEF Idle, Owned, FanOutPCs, NamespacePCs
  <2>3. CASE w' = [Idle EXCEPT !.pc = FirstStep(p), !.p = p, !.status = parent[p].status] /\ Live(p)
    BY <2>1, <2>3 DEF Idle, FirstStep
  <2>4. QED
    BY <1>1, <1>3, <2>2, <2>3 DEF Dequeue, Live
<1>4. ASSUME NEW n \in Namespaces, GetChild(n) PROVE G1 /\ G2 /\ G3
  BY <1>4 DEF GetChild, Conflict, FanOutTypeOK, FanOutWorker, FanOutPCs, NamespacePCs
<1>5. CASE GetExisting
  BY <1>2, <1>5 DEF GetExisting, Fails, Conflict, FanOutTypeOK, FanOutWorker, FanOutPCs, NamespacePCs
<1>6. CASE AddFinalizer \/ GetPlan
  BY <1>2, <1>6 DEF AddFinalizer, GetPlan, Fails, FanOutTypeOK, FanOutWorker, FanOutPCs, NamespacePCs
<1>7. CASE DeleteStale \/ Create \/ DeleteExisting
  BY <1>2, <1>7 DEF DeleteStale, Create, DeleteExisting, Created, FanOutTypeOK, FanOutWorker, FanOutPCs, NamespacePCs
<1>8. ASSUME NEW n \in Namespaces, FinalizeChild(n) PROVE G1 /\ G2 /\ G3
  BY <1>8 DEF FinalizeChild, FanOutTypeOK, FanOutWorker, FanOutPCs, NamespacePCs
<1>9. CASE ListAgain
  BY <1>2, <1>9 DEF ListAgain, Fails, FanOutTypeOK, FanOutWorker, FanOutPCs, NamespacePCs
<1>10. CASE CreateAgain \/ UpdateStatus \/ RemoveFinalizer \/ CallFails \/ FanOutRestart
  BY <1>2, <1>10 DEF CreateAgain, Created, UpdateStatus, RemoveFinalizer, CallFails, FanOutRestart, Fails
<1>11. QED
  BY <1>1, <1>3, <1>4, <1>5, <1>6, <1>7, <1>8, <1>9, <1>10
  DEF FanOutNext, FanOutStep, fanVars, CreateParent, DeleteParent, ChildProgress, UserCreates, PlanChanges

\* The invariant is kept.
LEMMA KeepStep ==
  ASSUME LiveParents = 1, FanOutTypeOK, NoOrphansInv, NoOrphansInv', KeepInv, [FanOutNext]_fanVars
  PROVE  KeepInv'
<1>1. OneLive'
  BY OneLiveStep DEF KeepInv
<1>2. OthersDeleting'
  <2> SUFFICES ASSUME w'.pc \in FanOutPCs \cup {"addFinalizer"}, NEW n \in Namespaces,
                      child'[n].owner \in Parents \ {w'.p}
               PROVE  parent'[child'[n].owner].deleting
    BY DEF OthersDeleting
  <2>1. child'[n].owner = child[n].owner
    BY OwnerSteps, IdleWorker, FanOutAssumption DEF FanOutPCs, NamespacePCs
  <2>2. CASE w.pc \in FanOutPCs \cup {"addFinalizer"} /\ w'.p = w.p
    BY <2>1, <2>2, ParentSteps DEF KeepInv, OthersDeleting
  <2>3. ASSUME NEW p \in Parents, Live(p), w'.p = p, UNCHANGED <<parent, child>>
        PROVE  parent'[child'[n].owner].deleting
    <3>1. parent[child[n].owner].st = "present"
      BY <2>1 DEF NoOrphansInv
    <3>2. QED
      BY <2>1, <2>3, <3>1 DEF KeepInv, OneLive, Live
  <2>4. QED
    BY <2>2, <2>3, WorkerSteps
<1>3. StaleInHand'
  <2> SUFFICES ASSUME w'.pc \in {"deleteStale", "deleteExisting"} PROVE child'[w'.at].owner # w'.p
    BY DEF StaleInHand
  <2>1. CASE w.pc = w'.pc /\ w'.p = w.p /\ w'.at = w.at
    <3>1. w.at \in Namespaces /\ w.p \in Parents /\ child[w.at].owner # w.p
      BY <2>1 DEF NoOrphansInv, NamespacePCs, KeepInv, StaleInHand
    <3>2. child'[w.at].owner \in {child[w.at].owner, User, Nobody}
      BY <3>1, OwnerSteps, IdleWorker
    <3>3. QED
      BY <2>1, <3>1, <3>2, FanOutAssumption
  <2>2. QED
    BY <2>1, WorkerSteps
<1>4. FinalizesOwn'
  <2> SUFFICES ASSUME w'.pc = "finalize"
               PROVE  parent'[w'.p].deleting /\ \A n \in w'.todo : child'[n].owner \in {w'.p, User, Nobody}
    BY DEF FinalizesOwn
  <2>1. CASE w.pc = "finalize" /\ w'.p = w.p /\ w'.todo \subseteq w.todo
    <3>1. w.p \in Parents /\ w.todo \subseteq Namespaces
      BY <2>1 DEF NoOrphansInv, FanOutTypeOK, FanOutWorker
    <3>2. parent[w.p].deleting /\ \A n \in w.todo : child[n].owner \in {w.p, User, Nobody}
      BY <2>1 DEF KeepInv, FinalizesOwn
    <3>3. parent'[w.p].deleting
      BY <3>1, <3>2, ParentSteps
    <3>4. ASSUME NEW n \in w'.todo PROVE child'[n].owner \in {w.p, User, Nobody}
      BY <2>1, <3>1, <3>2, OwnerSteps
    <3>5. QED
      BY <2>1, <3>3, <3>4
  <2>2. QED
    BY <2>1, WorkerSteps
<1>5. QED
  BY <1>1, <1>2, <1>3, <1>4 DEF KeepInv

\* A step deletes a child only when its parent is being deleted.
LEMMA DeletesOnlyOrphans ==
  ASSUME FanOutTypeOK, NoOrphansInv, KeepInv, [FanOutNext]_fanVars,
         NEW n \in Namespaces, ChildDeleted(n), child[n].owner \in Parents
  PROVE  parent[child[n].owner].deleting
<1> USE FanOutAssumption
<1>1. CASE UNCHANGED child
  BY <1>1 DEF ChildDeleted
<1>2. ASSUME NEW k \in Namespaces, DeleteChild(k) PROVE n = k
  BY <1>2 DEF ChildDeleted, DeleteChild, FanOutTypeOK
<1>3. CASE DeleteStale \/ DeleteExisting
  <2>1. w.at \in Namespaces /\ DeleteChild(w.at)
    BY <1>3 DEF DeleteStale, DeleteExisting, NoOrphansInv, NamespacePCs
  <2>2. n = w.at /\ child[n].owner # w.p
    BY <1>2, <1>3, <2>1 DEF DeleteStale, DeleteExisting, KeepInv, StaleInHand
  <2>3. QED
    BY <1>3, <2>2 DEF DeleteStale, DeleteExisting, KeepInv, OthersDeleting, FanOutPCs, NamespacePCs
<1>4. ASSUME NEW k \in Namespaces, FinalizeChild(k) PROVE parent[child[n].owner].deleting
  BY <1>2, <1>4 DEF FinalizeChild, KeepInv, FinalizesOwn
<1>5. CASE Create \/ CreateAgain
  BY <1>1, <1>5 DEF Create, CreateAgain, Created, ChildDeleted, FanOutTypeOK
<1>6. ASSUME NEW k \in Namespaces, ChildProgress(k) \/ UserCreates(k) PROVE FALSE
  BY <1>6 DEF ChildProgress, UserCreates, ChildDeleted, FanOutTypeOK, Child
<1>7. QED
  BY <1>1, <1>3, <1>4, <1>5, <1>6
  DEF FanOutNext, FanOutStep, fanVars, Dequeue, CreateParent, DeleteParent, AddFinalizer, GetPlan, GetChild,
      GetExisting, UpdateStatus, ListAgain, RemoveFinalizer, CallFails, PlanChanges, FanOutRestart

\* The initial states satisfy the invariant.
LEMMA KeepInit == FanOutInit => KeepInv
  BY IdleWorker DEF FanOutInit, KeepInv, OneLive, OthersDeleting, StaleInHand, FinalizesOwn, Live, Idle, FanOutPCs, NamespacePCs

(***************************************************************************)
(* When parents of a plan follow one another, the controller deletes a     *)
(* child only when its parent is being deleted, although it deletes by     *)
(* name what it read earlier (Reconcile, createNamespacedMigration,        *)
(* runFinalizer).                                                          *)
(***************************************************************************)
THEOREM LiveChildrenKept == ASSUME LiveParents = 1 PROVE FanOutSpec => LiveChildKept
<1> DEFINE Inv == FanOutTypeOK /\ NoOrphansInv /\ KeepInv
<1>1. FanOutInit => Inv
  BY FanOutInitInv, KeepInit
<1>2. Inv /\ [FanOutNext]_fanVars => Inv'
  BY FanOutNextType, FanOutNextOrphans, KeepStep
<1>3. Inv /\ [FanOutNext]_fanVars =>
        [\A n \in Namespaces : ChildDeleted(n) /\ child[n].owner \in Parents => parent[child[n].owner].deleting]_fanVars
  BY DeletesOnlyOrphans
<1>4. QED
  BY <1>1, <1>2, <1>3, PTL DEF FanOutSpec, LiveChildKept
-----------------------------------------------------------------------------
(* The abstract specification *)

\* Whoever marks a child has a parent that is being deleted, and so has the
\* worker that removes a finalizer.
MarkedOfDeleting ==
  \A n \in Namespaces : child[n].owner \in Parents /\ child[n].deleting => parent[child[n].owner].deleting

FinalizerOfDeleting ==
  /\ \A p \in Parents : parent[p].st = "absent" => ~parent[p].deleting
  /\ w.pc = "removeFinalizer" => parent[w.p].deleting

\* The refinement holds in the states with these.
OwnershipInv == FanOutTypeOK /\ NoOrphansInv /\ KeepInv /\ MarkedOfDeleting /\ FinalizerOfDeleting

\* A new child is not marked.
LEMMA NewChildUnmarked ==
  ASSUME FanOutTypeOK, NoOrphansInv, [FanOutNext]_fanVars, NEW n \in Namespaces,
         child[n].owner = Nobody
  PROVE  child'[n].owner # Nobody => ~child'[n].deleting
<1> DEFINE Goal == child'[n].owner # Nobody => ~child'[n].deleting
<1>1. CASE child'[n] = child[n]
  BY <1>1
<1>2. ASSUME NEW k \in Namespaces, DeleteChild(k) PROVE Goal
  BY <1>2 DEF DeleteChild, NoChild, FanOutTypeOK, Child
<1>3. ASSUME NEW k \in Namespaces, NEW o, child' = [child EXCEPT ![k] = NewChild(o)] PROVE Goal
  BY <1>1, <1>3 DEF NewChild, FanOutTypeOK
<1>4. ASSUME NEW k \in Namespaces, ChildProgress(k) PROVE Goal
  BY <1>4 DEF ChildProgress, NoChild, FanOutTypeOK, Child
<1>5. CASE DeleteStale \/ DeleteExisting
  BY <1>2, <1>5 DEF DeleteStale, DeleteExisting, NoOrphansInv, NamespacePCs
<1>6. CASE Create \/ CreateAgain
  BY <1>1, <1>3, <1>6 DEF Create, CreateAgain, Created, NoOrphansInv, NamespacePCs
<1>7. QED
  BY <1>1, <1>2, <1>3, <1>4, <1>5, <1>6
  DEF FanOutNext, FanOutStep, fanVars, Dequeue, CreateParent, DeleteParent, AddFinalizer, GetPlan, GetChild,
      FinalizeChild, GetExisting, UpdateStatus, ListAgain, RemoveFinalizer, CallFails, UserCreates, PlanChanges, FanOutRestart

\* No step gives a child to another owner; it is nobody's in between.
LEMMA OwnerKept ==
  ASSUME FanOutTypeOK, NoOrphansInv, [FanOutNext]_fanVars, NEW n \in Namespaces,
         child[n].owner # Nobody, child'[n].owner # Nobody
  PROVE  child'[n].owner = child[n].owner
<1> DEFINE Goal == child'[n].owner = child[n].owner
<1>1. CASE child'[n] = child[n]
  BY <1>1
<1>2. ASSUME NEW k \in Namespaces, DeleteChild(k) PROVE Goal
  BY <1>2, DeleteChildOwners
<1>3. ASSUME NEW k \in Namespaces, NEW o, child[k].owner = Nobody, child' = [child EXCEPT ![k] = NewChild(o)] PROVE Goal
  BY <1>1, <1>3 DEF FanOutTypeOK
<1>4. ASSUME NEW k \in Namespaces, ChildProgress(k) PROVE Goal
  BY <1>4 DEF ChildProgress, NoChild, FanOutTypeOK, Child
<1>5. CASE DeleteStale \/ DeleteExisting
  BY <1>2, <1>5 DEF DeleteStale, DeleteExisting, NoOrphansInv, NamespacePCs
<1>6. CASE Create \/ CreateAgain
  BY <1>1, <1>3, <1>6 DEF Create, CreateAgain, Created, NoOrphansInv, NamespacePCs
<1>7. QED
  BY <1>1, <1>2, <1>3, <1>4, <1>5, <1>6
  DEF FanOutNext, FanOutStep, fanVars, Dequeue, CreateParent, DeleteParent, AddFinalizer, GetPlan, GetChild,
      FinalizeChild, GetExisting, UpdateStatus, ListAgain, RemoveFinalizer, CallFails, UserCreates, PlanChanges, FanOutRestart

\* A parent that does not exist yet has been left alone.
LEMMA AbsentStep ==
  ASSUME FanOutTypeOK, NoOrphansInv, [FanOutNext]_fanVars, NEW p \in Parents, parent'[p].st = "absent"
  PROVE  parent[p].st = "absent" /\ parent'[p].deleting = parent[p].deleting
<1> DEFINE Goal == parent[p].st = "absent" /\ parent'[p].deleting = parent[p].deleting
<1>1. CASE UNCHANGED parent
  BY <1>1
<1>2. ASSUME NEW q \in Parents, CreateParent(q) PROVE Goal
  BY <1>2 DEF CreateParent, FanOutTypeOK, Parent
<1>3. ASSUME NEW q \in Parents, DeleteParent(q) PROVE Goal
  BY <1>3 DEF DeleteParent, FanOutTypeOK, Parent
<1>4. CASE AddFinalizer
  BY <1>4 DEF AddFinalizer, NoOrphansInv, FanOutTypeOK, Parent
<1>5. CASE UpdateStatus
  BY <1>5 DEF UpdateStatus, NoOrphansInv, FanOutTypeOK, Parent
<1>6. CASE RemoveFinalizer
  BY <1>6 DEF RemoveFinalizer, NoOrphansInv, FanOutTypeOK, Parent
<1>7. QED
  BY <1>1, <1>2, <1>3, <1>4, <1>5, <1>6
  DEF FanOutNext, FanOutStep, fanVars, Dequeue, GetPlan, GetChild, FinalizeChild, DeleteStale, Create,
      GetExisting, DeleteExisting, CreateAgain, ListAgain, CallFails, ChildProgress, UserCreates, PlanChanges, FanOutRestart

\* The worker comes to the removal of a finalizer from the deletion of the
\* children of the same parent.
LEMMA RemoverSteps ==
  ASSUME FanOutTypeOK, [FanOutNext]_fanVars, w'.pc = "removeFinalizer"
  PROVE  w'.p = w.p /\ w.pc \in {"finalize", "removeFinalizer"}
<1>1. CASE UNCHANGED w
  BY <1>1
<1>2. CASE w' = Idle
  BY <1>2 DEF Idle
<1>3. ASSUME NEW p \in Parents, Dequeue(p) PROVE UNCHANGED w
  <2>1. CASE w' = [Idle EXCEPT !.pc = "finalize", !.p = p, !.todo = {n \in Owned(p) : ~child[n].deleting}]
    BY <2>1 DEF Idle
  <2>2. CASE w' = [Idle EXCEPT !.pc = FirstStep(p), !.p = p, !.status = parent[p].status]
    BY <2>2 DEF Idle, FirstStep
  <2>3. QED
    BY <1>3, <2>1, <2>2 DEF Dequeue
<1>4. CASE ListAgain
  BY <1>2, <1>4 DEF ListAgain, Fails, FanOutTypeOK, FanOutWorker
<1>5. CASE AddFinalizer \/ GetPlan \/ GetExisting
  BY <1>2, <1>5 DEF AddFinalizer, GetPlan, GetExisting, Fails, Conflict, FanOutTypeOK, FanOutWorker
<1>6. ASSUME NEW n \in Namespaces, GetChild(n) \/ FinalizeChild(n) PROVE FALSE
  BY <1>6 DEF GetChild, FinalizeChild, Conflict, FanOutTypeOK, FanOutWorker
<1>7. CASE DeleteStale \/ Create \/ DeleteExisting
  BY <1>2, <1>7 DEF DeleteStale, Create, DeleteExisting, Created, FanOutTypeOK, FanOutWorker
<1>8. CASE CreateAgain \/ UpdateStatus \/ RemoveFinalizer \/ CallFails \/ FanOutRestart
  BY <1>2, <1>8 DEF CreateAgain, Created, UpdateStatus, RemoveFinalizer, CallFails, FanOutRestart, Fails
<1>9. QED
  BY <1>1, <1>3, <1>4, <1>5, <1>6, <1>7, <1>8
  DEF FanOutNext, FanOutStep, fanVars, CreateParent, DeleteParent, ChildProgress, UserCreates, PlanChanges

\* The invariant of the refinement is kept.
LEMMA OwnershipInvStep ==
  ASSUME LiveParents = 1, OwnershipInv, [FanOutNext]_fanVars
  PROVE  OwnershipInv'
<1>1. FanOutTypeOK' /\ NoOrphansInv' /\ KeepInv'
  BY FanOutNextType, FanOutNextOrphans, KeepStep DEF OwnershipInv
<1>2. MarkedOfDeleting'
  <2> SUFFICES ASSUME NEW n \in Namespaces, child'[n].owner \in Parents, child'[n].deleting
               PROVE  parent'[child'[n].owner].deleting
    BY DEF MarkedOfDeleting
  <2>1. CASE child[n].owner = Nobody
    BY <2>1, NewChildUnmarked, FanOutAssumption DEF OwnershipInv
  <2>2. CASE child[n].owner # Nobody /\ ~child[n].deleting
    <3>1. ChildDeleted(n)
      BY <2>2 DEF ChildDeleted
    <3>2. child'[n].owner = child[n].owner
      BY <2>2, OwnerKept, FanOutAssumption DEF OwnershipInv
    <3>3. QED
      BY <3>1, <3>2, DeletesOnlyOrphans, ParentSteps DEF OwnershipInv
  <2>3. CASE child[n].owner # Nobody /\ child[n].deleting
    <3>1. child'[n].owner = child[n].owner
      BY <2>3, OwnerKept, FanOutAssumption DEF OwnershipInv
    <3>2. QED
      BY <2>3, <3>1, ParentSteps DEF OwnershipInv, MarkedOfDeleting
  <2>4. QED
    BY <2>1, <2>2, <2>3
<1>3. FinalizerOfDeleting'
  <2>1. ASSUME NEW p \in Parents, parent'[p].st = "absent" PROVE ~parent'[p].deleting
    BY <2>1, AbsentStep DEF OwnershipInv, FinalizerOfDeleting
  <2>2. ASSUME w'.pc = "removeFinalizer" PROVE parent'[w'.p].deleting
    <3>1. w'.p = w.p /\ w.pc \in {"finalize", "removeFinalizer"}
      BY <2>2, RemoverSteps DEF OwnershipInv
    <3>2. w.p \in Parents /\ parent[w.p].deleting
      BY <3>1 DEF OwnershipInv, NoOrphansInv, KeepInv, FinalizesOwn, FinalizerOfDeleting
    <3>3. QED
      BY <3>1, <3>2, ParentSteps DEF OwnershipInv
  <2>3. QED
    BY <2>1, <2>2 DEF FinalizerOfDeleting
<1>4. QED
  BY <1>1, <1>2, <1>3 DEF OwnershipInv

\* The refinement mapping.
life == [p \in Parents |-> Life(p)]
holder == [n \in Namespaces |-> child[n].owner]

\* A step that changes the owner of one child at most.
LEMMA HolderStep ==
  ASSUME OwnershipInv, NEW n \in Namespaces, NEW o, UNCHANGED life,
         holder' = [holder EXCEPT ![n] = o],
         \/ o = holder[n]
         \/ o \in {User} \cup {p \in Parents : Life(p) \in {"live", "deleting"}} /\ holder[n] = Nobody
         \/ o = Nobody /\ (holder[n] \in Parents => Life(holder[n]) = "deleting")
  PROVE  [Ownership!Next]_(Ownership!ownershipVars)
<1>1. CASE o = holder[n]
  BY <1>1 DEF Ownership!ownershipVars, life, holder
<1>2. CASE o = User /\ holder[n] = Nobody
  BY <1>2 DEF Ownership!UserTakes, Ownership!Next, life, holder
<1>3. CASE o \in Parents /\ Life(o) \in {"live", "deleting"} /\ holder[n] = Nobody
  BY <1>3 DEF Ownership!Take, Ownership!Next, life, holder
<1>4. CASE o = Nobody /\ o # holder[n] /\ (holder[n] \in Parents => Life(holder[n]) = "deleting")
  BY <1>4 DEF Ownership!Release, Ownership!Next, life, holder
<1>5. QED
  BY <1>1, <1>2, <1>3, <1>4

\* A step that changes the life of one parent at most.
LEMMA LifeStep ==
  ASSUME OwnershipInv, NEW p \in Parents, NEW l, UNCHANGED holder, life' = [life EXCEPT ![p] = l],
         \/ l = Life(p)
         \/ Life(p) = "absent" /\ l = "live"
         \/ Life(p) = "live" /\ l = "deleting"
         \/ Life(p) \in {"live", "deleting"} /\ l = "gone" /\ Owned(p) = {}
  PROVE  [Ownership!Next]_(Ownership!ownershipVars)
<1>1. CASE l = Life(p)
  BY <1>1 DEF Ownership!ownershipVars, life, holder
<1>2. CASE Life(p) = "absent" /\ l = "live"
  BY <1>2 DEF Ownership!Appear, Ownership!Next, life, holder
<1>3. CASE Life(p) = "live" /\ l = "deleting"
  BY <1>3 DEF Ownership!Retire, Ownership!Next, life, holder
<1>4. CASE Life(p) \in {"live", "deleting"} /\ l = "gone" /\ Owned(p) = {}
  BY <1>4 DEF Ownership!Leave, Ownership!Held, Ownership!Next, Owned, life, holder
<1>5. QED
  BY <1>1, <1>2, <1>3, <1>4

\* The removal of a child frees a slot, or marks the child and changes nothing.
LEMMA DeleteChildHolder ==
  ASSUME OwnershipInv, NEW n \in Namespaces, DeleteChild(n), UNCHANGED parent,
         child[n].owner \in Parents => parent[child[n].owner].deleting
  PROVE  [Ownership!Next]_(Ownership!ownershipVars)
<1>1. UNCHANGED life
  BY DEF life, Life
<1>2. PICK o \in {child[n].owner, Nobody} : holder' = [holder EXCEPT ![n] = o]
  BY DEF holder, DeleteChild, NoChild, OwnershipInv, FanOutTypeOK, Child
<1>3. child[n].owner \in Parents => Life(child[n].owner) = "deleting"
  BY DEF OwnershipInv, NoOrphansInv, Life
<1>4. holder[n] = child[n].owner
  BY DEF holder
<1>5. QED
  BY <1>1, <1>2, <1>3, <1>4, HolderStep

\* The worker creates children for a parent that exists.
LEMMA CreatedHolder ==
  ASSUME OwnershipInv, NEW n \in Namespaces, w.pc \in FanOutPCs, Created(n, w.p), UNCHANGED parent
  PROVE  [Ownership!Next]_(Ownership!ownershipVars)
<1>1. UNCHANGED life
  BY DEF life, Life
<1>2. holder' = [holder EXCEPT ![n] = w.p]
  BY DEF holder, Created, NewChild, OwnershipInv, FanOutTypeOK, Child
<1>3. w.p \in Parents /\ Life(w.p) \in {"live", "deleting"}
  BY IdleWorker DEF OwnershipInv, NoOrphansInv, Life
<1>4. holder[n] = Nobody
  BY DEF holder, Created
<1>5. QED
  BY <1>1, <1>2, <1>3, <1>4, HolderStep

\* A step of the worker is a step of the abstract specification, or none.
LEMMA FanOutStepRefines ==
  ASSUME LiveParents = 1, OwnershipInv, FanOutStep
  PROVE  [Ownership!Next]_(Ownership!ownershipVars)
<1> DEFINE Goal == [Ownership!Next]_(Ownership!ownershipVars)
<1>0. FanOutTypeOK /\ NoOrphansInv /\ KeepInv
  BY DEF OwnershipInv
<1>1. CASE UNCHANGED <<parent, child>>
  BY <1>1 DEF Ownership!ownershipVars, Life
<1>2. CASE AddFinalizer
  <2>1. w.p \in Parents /\ UNCHANGED child
    BY <1>0, <1>2 DEF AddFinalizer, NoOrphansInv
  <2>2. CASE parent' = [parent EXCEPT ![w.p].fin = TRUE]
    <3>1. UNCHANGED <<life, holder>>
      BY <1>0, <2>1, <2>2 DEF life, holder, Life, FanOutTypeOK, Parent
    <3>2. QED
      BY <3>1 DEF life, holder, Ownership!ownershipVars
  <2>3. QED
    BY <1>1, <1>2, <2>1, <2>2 DEF AddFinalizer
<1>3. CASE UpdateStatus
  <2>1. w.p \in Parents /\ UNCHANGED child
    BY <1>0, <1>3 DEF UpdateStatus, NoOrphansInv
  <2>2. CASE parent' = [parent EXCEPT ![w.p].status = w.status]
    <3>1. UNCHANGED <<life, holder>>
      BY <1>0, <2>1, <2>2 DEF life, holder, Life, FanOutTypeOK, Parent
    <3>2. QED
      BY <3>1 DEF life, holder, Ownership!ownershipVars
  <2>3. QED
    BY <1>1, <1>3, <2>1, <2>2 DEF UpdateStatus
<1>4. CASE RemoveFinalizer
  <2>1. w.p \in Parents /\ UNCHANGED child /\ Owned(w.p) = {} /\ parent[w.p].deleting
    BY <1>0, <1>4 DEF RemoveFinalizer, NoOrphansInv, OwnershipInv, FinalizerOfDeleting
  <2>2. CASE parent' = [parent EXCEPT ![w.p].fin = FALSE, ![w.p].st = "gone"]
    <3>1. UNCHANGED holder /\ life' = [life EXCEPT ![w.p] = "gone"]
      BY <1>0, <2>1, <2>2 DEF life, holder, Life, FanOutTypeOK, Parent
    <3>2. Life(w.p) \in {"deleting", "gone"}
      BY <1>0, <2>1 DEF Life, OwnershipInv, FinalizerOfDeleting
    <3>3. QED
      BY <2>1, <3>1, <3>2, LifeStep
  <2>3. QED
    BY <1>1, <1>4, <2>1, <2>2 DEF RemoveFinalizer
<1>5. CASE DeleteStale \/ DeleteExisting
  <2>1. w.at \in Namespaces /\ w.p \in Parents /\ DeleteChild(w.at) /\ UNCHANGED parent
    BY <1>0, <1>5 DEF DeleteStale, DeleteExisting, NoOrphansInv, NamespacePCs
  <2>2. child[w.at].owner \in Parents => parent[child[w.at].owner].deleting
    BY <1>0, <1>5, <2>1 DEF DeleteStale, DeleteExisting, KeepInv, StaleInHand, OthersDeleting, FanOutPCs, NamespacePCs
  <2>3. QED
    BY <2>1, <2>2, DeleteChildHolder
<1>6. ASSUME NEW n \in Namespaces, FinalizeChild(n) PROVE Goal
  <2>1. DeleteChild(n) /\ UNCHANGED parent
    BY <1>6 DEF FinalizeChild
  <2>2. child[n].owner \in Parents => parent[child[n].owner].deleting
    BY <1>0, <1>6, FanOutAssumption DEF FinalizeChild, KeepInv, FinalizesOwn
  <2>3. QED
    BY <2>1, <2>2, DeleteChildHolder
<1>7. CASE Create \/ CreateAgain
  <2>1. w.at \in Namespaces /\ UNCHANGED parent /\ w.pc \in FanOutPCs
    BY <1>0, <1>7 DEF Create, CreateAgain, NoOrphansInv, NamespacePCs, FanOutPCs
  <2>2. CASE Created(w.at, w.p)
    BY <2>1, <2>2, CreatedHolder
  <2>3. QED
    BY <1>1, <1>7, <2>1, <2>2 DEF Create, CreateAgain
<1>8. QED
  BY <1>1, <1>2, <1>3, <1>4, <1>5, <1>6, <1>7 DEF FanOutStep, GetPlan, GetChild, GetExisting, ListAgain

\* So is every other step.
LEMMA FanOutRefines ==
  ASSUME LiveParents = 1, OwnershipInv, [FanOutNext]_fanVars
  PROVE  [Ownership!Next]_(Ownership!ownershipVars)
<1> DEFINE Goal == [Ownership!Next]_(Ownership!ownershipVars)
<1>0. FanOutTypeOK /\ NoOrphansInv
  BY DEF OwnershipInv
<1>1. CASE UNCHANGED <<parent, child>>
  BY <1>1 DEF Ownership!ownershipVars, Life
<1>2. ASSUME NEW p \in Parents, CreateParent(p) PROVE Goal
  <2>1. UNCHANGED holder /\ life' = [life EXCEPT ![p] = "live"]
    <3>1. parent' = [parent EXCEPT ![p].st = "present"] /\ UNCHANGED child /\ ~parent[p].deleting
      BY <1>2 DEF CreateParent, OwnershipInv, FinalizerOfDeleting
    <3>2. QED
      BY <1>0, <3>1 DEF life, holder, Life, FanOutTypeOK, Parent
  <2>2. Life(p) = "absent"
    BY <1>2 DEF CreateParent, Life
  <2>3. QED
    BY <2>1, <2>2, LifeStep
<1>3. ASSUME NEW p \in Parents, DeleteParent(p) PROVE Goal
  <2>1. Life(p) = "live"
    BY <1>3 DEF DeleteParent, Life
  <2>2. CASE parent[p].fin
    <3>1. UNCHANGED holder /\ life' = [life EXCEPT ![p] = "deleting"]
      BY <1>0, <1>3, <2>2 DEF DeleteParent, life, holder, Life, FanOutTypeOK, Parent
    <3>2. QED
      BY <2>1, <3>1, LifeStep
  <2>3. CASE ~parent[p].fin
    <3>1. UNCHANGED holder /\ life' = [life EXCEPT ![p] = "gone"]
      BY <1>0, <1>3, <2>3 DEF DeleteParent, life, holder, Life, FanOutTypeOK, Parent
    <3>2. Owned(p) = {}
      BY <1>0, <2>3 DEF NoOrphansInv, Owned
    <3>3. QED
      BY <2>1, <3>1, <3>2, LifeStep
  <2>4. QED
    BY <2>2, <2>3
<1>4. CASE FanOutStep
  BY <1>4, FanOutStepRefines
<1>5. ASSUME NEW n \in Namespaces, ChildProgress(n) PROVE Goal
  <2>1. UNCHANGED life
    BY <1>5 DEF ChildProgress, life, Life
  <2>2. holder[n] = child[n].owner
    BY DEF holder
  <2>3. ASSUME child' = [child EXCEPT ![n] = NoChild], child[n].deleting PROVE Goal
    <3>1. holder' = [holder EXCEPT ![n] = Nobody]
      BY <1>0, <2>3 DEF holder, NoChild, FanOutTypeOK, Child
    <3>2. child[n].owner \in Parents => Life(child[n].owner) = "deleting"
      BY <1>0, <2>3 DEF NoOrphansInv, OwnershipInv, MarkedOfDeleting, Life
    <3>3. QED
      BY <2>1, <2>2, <3>1, <3>2, HolderStep
  <2>4. ASSUME NEW st, child' = [child EXCEPT ![n].st = st] PROVE Goal
    <3>1. holder' = [holder EXCEPT ![n] = child[n].owner]
      BY <1>0, <2>4 DEF holder, FanOutTypeOK, Child
    <3>2. QED
      BY <2>1, <2>2, <3>1, HolderStep
  <2>5. QED
    BY <1>5, <2>3, <2>4 DEF ChildProgress
<1>6. ASSUME NEW n \in Namespaces, UserCreates(n) PROVE Goal
  <2>1. UNCHANGED life /\ holder[n] = Nobody
    BY <1>6 DEF UserCreates, life, Life, holder
  <2>2. holder' = [holder EXCEPT ![n] = User]
    BY <1>0, <1>6 DEF UserCreates, holder, NewChild, FanOutTypeOK
  <2>3. QED
    BY <2>1, <2>2, HolderStep
<1>7. QED
  BY <1>1, <1>2, <1>3, <1>4, <1>5, <1>6
  DEF FanOutNext, fanVars, Dequeue, CallFails, PlanChanges, FanOutRestart

(***************************************************************************)
(* When parents of a plan follow one another the controller implements     *)
(* CascadingOwnership: Reconcile and runFinalizer never take a child from  *)
(* a live parent, and a parent leaves without children.                    *)
(***************************************************************************)
THEOREM FanOutImplementsOwnership == ASSUME LiveParents = 1 PROVE FanOutSpec => FanOutOwnership
<1>1. FanOutInit => OwnershipInv
  BY FanOutInitInv, KeepInit, FanOutAssumption
  DEF FanOutInit, OwnershipInv, MarkedOfDeleting, FinalizerOfDeleting, NoChild, Idle
<1>2. FanOutInit => Ownership!Init
  BY DEF FanOutInit, Ownership!Init, Life, NoChild
<1>3. OwnershipInv /\ [FanOutNext]_fanVars => OwnershipInv'
  BY OwnershipInvStep
<1>4. OwnershipInv /\ [FanOutNext]_fanVars => [Ownership!Next]_(Ownership!ownershipVars)
  BY FanOutRefines
<1>5. QED
  BY <1>1, <1>2, <1>3, <1>4, PTL DEF FanOutSpec, FanOutOwnership, Ownership!Spec

\* Every variable has its type: what a reconcile writes, in whatever order
\* its calls fail.
THEOREM FanOutTypes == FanOutSpec => []FanOutTypeOK
<1>1. FanOutTypeOK /\ NoOrphansInv /\ [FanOutNext]_fanVars => (FanOutTypeOK /\ NoOrphansInv)'
  BY FanOutNextType, FanOutNextOrphans
<1>2. QED
  BY <1>1, FanOutInitInv, PTL DEF FanOutSpec
================================================================================
