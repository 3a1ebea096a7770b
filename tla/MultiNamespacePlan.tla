-------------------------- MODULE MultiNamespacePlan --------------------------
(***************************************************************************)
(* The MultiNamespaceVirtualMachineStorageMigrationPlan controller         *)
(* (internal/controller/multinamespacestoragemigplan).  A multi-namespace  *)
(* plan gets one plan in every namespace of its spec.  The name of the     *)
(* child depends on the name of the parent only: parents of one name in    *)
(* different namespaces share it, and a label tells whose child it is.     *)
(* One worker reconciles what its queue holds: a parent after an event of  *)
(* its own, of a child annotated with it, and after an error.  Namespaces  *)
(* are not watched.  What else the spec of a child holds, its VMs and its  *)
(* retention policy, is copied once, at its creation, and left out here.   *)
(***************************************************************************)
EXTENDS Naturals, FiniteSets

CONSTANTS
  Namespaces,  \* the namespaces a spec may list
  Parents,     \* multi-namespace plans of one name, in different namespaces
  User,        \* the owner of a plan that has no label
  Nobody,      \* the owner where there is no plan
  LiveParents, \* how many parents exist at a time that are not being deleted
  PlanEnv,     \* which disturbances may happen, a subset of PlanEnvKinds
  MaxFaults    \* bound on failing calls, restarts and disturbances

PlanEnvKinds == {"delete", "userCreate", "userDelete", "edit", "namespace"}

ASSUME PlanFanAssumption ==
  /\ IsFiniteSet(Namespaces) /\ Namespaces # {}
  /\ IsFiniteSet(Parents)
  /\ User \notin Parents /\ Nobody \notin Parents /\ User # Nobody
  /\ PlanEnv \subseteq PlanEnvKinds
  /\ LiveParents \in Nat /\ MaxFaults \in Nat

VARIABLES
  parent,  \* parent[p]: the multi-namespace plans
  child,   \* child[n]: the plan with the child's name in namespace n
  ns,      \* ns[n]: the namespace, "active" or on its way out, or gone
  queue,   \* the work queue
  behind,  \* parents somebody else changed since the worker read them
  w,       \* the worker
  byHand,  \* whether somebody has made a plan of the child's name by hand
  faults   \* what MaxFaults bounds, so far

planFanVars == <<parent, child, ns, queue, behind, w, byHand, faults>>

\* A child plan is "new" until the plan controller has put its finalizer, and
\* then "open" until its VMs are migrated.
ChildStates == {"none", "new", "open", "completed"}

\* What the copy of its status in the parent tells apart.
Reports == {"none", "open", "completed"}

Report(st) == IF st = "new" THEN "open" ELSE st

ChildPlan == [owner: Parents \cup {User, Nobody}, st: ChildStates, deleting: BOOLEAN]

NoChild == [owner |-> Nobody, st |-> "none", deleting |-> FALSE]

\* namespaces: the child status copied per namespace.  invalid: InvalidNamespace.
Status == [namespaces: [Namespaces -> Reports], invalid: BOOLEAN]

NoStatus == [namespaces |-> [n \in Namespaces |-> "none"], invalid |-> FALSE]

\* spec: the namespaces listed.
Parent == [st: {"absent", "present", "gone"}, fin: BOOLEAN, deleting: BOOLEAN,
           spec: SUBSET Namespaces, status: Status]

NoParent == [st |-> "absent", fin |-> FALSE, deleting |-> FALSE, spec |-> {}, status |-> NoStatus]

NamespacePCs == {"deleteStale", "create", "getExisting", "deleteExisting", "createAgain"}

CreatePCs == {"checkCompleted", "loop"} \cup NamespacePCs

\* obj: the parent as it was read, with the status built so far.  found:
\* invalidNamespaceFound.  at: the namespace in hand.  todo: not reached.
PlanFanWorker == [pc: CreatePCs \cup {"idle", "addFinalizer", "meta", "finalize", "removeFinalizer"},
                  p: Parents \cup {Nobody}, at: Namespaces \cup {Nobody}, todo: SUBSET Namespaces,
                  found: BOOLEAN, spec: SUBSET Namespaces, status: Status]

Idle == [pc |-> "idle", p |-> Nobody, at |-> Nobody, todo |-> {}, found |-> FALSE,
         spec |-> {}, status |-> NoStatus]

PlanFanInit ==
  /\ parent = [p \in Parents |-> NoParent]
  /\ child = [n \in Namespaces |-> NoChild]
  /\ ns = [n \in Namespaces |-> "active"]
  /\ queue = {}
  /\ behind = {}
  /\ w = Idle
  /\ byHand = FALSE
  /\ faults = 0

-----------------------------------------------------------------------------
(* Events and API calls *)

\* Mutant: the children are listed by the presence of the label.
OwnedByAny(p) == {n \in Namespaces : child[n].owner \in Parents}

\* listOwnedChildPlans
Owned(p) == {n \in Namespaces : child[n].owner = p}

\* Mutant: a child's event enqueues no parent.
NobodyToEnqueue(n) == {}

\* getMultiNamespaceVirtualMachineStorageMigrationsPlanForStorageMigration
ParentOf(n) == {child[n].owner} \cap Parents

\* A deleted plan is gone at once unless it has its finalizer.
Deleted(c) == IF c.st \in {"none", "new"} THEN NoChild ELSE [c EXCEPT !.deleting = TRUE]

\* deleteChildPlan: by name, whoever owns it by now.
DeleteChild(n) ==
  /\ child' = [child EXCEPT ![n] = Deleted(@)]
  /\ queue' = queue \cup ParentOf(n)

NewChild(p) == [owner |-> p, st |-> "new", deleting |-> FALSE]

\* The namespace in hand is done; the loop goes on with the next.
NextNamespace == [w EXCEPT !.pc = "loop", !.at = Nobody, !.todo = @ \ {w.at}]

\* Mutant: a plan that is there is labelled anew instead of replaced.
CreatedOver(n) ==
  /\ ns[n] = "active"
  /\ child' = [child EXCEPT ![n] = NewChild(w.p)]
  /\ queue' = queue \cup {w.p}
  /\ w' = NextNamespace

Created(n) ==
  /\ ns[n] = "active" /\ child[n].owner = Nobody
  /\ child' = [child EXCEPT ![n] = NewChild(w.p)]
  /\ queue' = queue \cup {w.p}
  /\ w' = NextNamespace

\* Mutant: the worker forgets its parent before it is queued again.
FailsForgotten ==
  /\ queue' = queue \cup {Idle.p}
  /\ w' = Idle

\* Reconcile returns an error: the parent is queued again.
Fails ==
  /\ queue' = queue \cup {w.p}
  /\ w' = Idle

CallFails ==
  /\ w.pc # "idle" /\ faults < MaxFaults
  /\ faults' = faults + 1
  /\ Fails
  /\ UNCHANGED <<parent, child, ns, behind, byHand>>

-----------------------------------------------------------------------------
(* Reconcile *)

\* Mutant: children are created before the finalizer is there.
FirstStepCheck(p) == "checkCompleted"

FirstStep(p) == IF parent[p].fin THEN "checkCompleted" ELSE "addFinalizer"

Dequeue(p) ==
  /\ w.pc = "idle" /\ p \in queue
  /\ queue' = queue \ {p}
  /\ behind' = behind \ {p}
  /\ \/ parent[p].st # "present" /\ UNCHANGED w
     \/ /\ parent[p].st = "present" /\ parent[p].deleting
        /\ w' = [Idle EXCEPT !.pc = "finalize", !.p = p, !.todo = {n \in Owned(p) : ~child[n].deleting}]
     \/ /\ parent[p].st = "present" /\ ~parent[p].deleting
        /\ w' = [Idle EXCEPT !.pc = FirstStep(p), !.p = p, !.spec = parent[p].spec, !.status = parent[p].status]
  /\ UNCHANGED <<parent, child>>

AddFinalizer ==
  /\ w.pc = "addFinalizer"
  /\ \/ /\ w.p \in behind
        /\ Fails
        /\ UNCHANGED parent
     \/ /\ w.p \notin behind
        /\ parent' = [parent EXCEPT ![w.p].fin = TRUE]
        /\ queue' = queue \cup {w.p}
        /\ w' = [w EXCEPT !.pc = "checkCompleted"]
  /\ UNCHANGED <<child, behind>>

\* Mutant: the completed statuses are trusted, the children not looked at.
CompletedByStatusOnly == w.spec # {} /\ \A n \in w.spec : w.status.namespaces[n] = "completed"

\* isMultiPlanCompleted: by the copied statuses, and then by the children.
IsMultiPlanCompleted ==
  /\ w.spec # {}
  /\ \A n \in w.spec : w.status.namespaces[n] = "completed" /\ child[n].st = "completed"

CheckCompleted ==
  /\ w.pc = "checkCompleted"
  /\ w' = IF IsMultiPlanCompleted THEN Idle ELSE [w EXCEPT !.pc = "loop", !.todo = w.spec]
  /\ UNCHANGED <<parent, child, queue, behind>>

\* isChildOwnedByPlan: by the UID in the label.
IsOwnedByPlan(n) == child[n].owner = w.p

\* validateNamespace has a message.
InvalidNamespace(n) == ns[n] # "active"

\* One turn of the loop: the namespace, getNamespacePlan, and the status of a
\* child of one's own.  A plan of anybody else, made by hand too, is stale.
GetChild(n) ==
  LET v == [w EXCEPT !.found = @ \/ InvalidNamespace(n), !.status.invalid = @ \/ InvalidNamespace(n)]
  IN  /\ w.pc = "loop" /\ n \in w.todo
      /\ w' = CASE child[n].owner = Nobody -> [v EXCEPT !.pc = "create", !.at = n]
                [] IsOwnedByPlan(n) -> [v EXCEPT !.todo = @ \ {n}, !.status.namespaces[n] = Report(child[n].st)]
                [] OTHER -> [v EXCEPT !.pc = "deleteStale", !.at = n]
      /\ UNCHANGED <<parent, child, queue, behind>>

DeleteStale ==
  /\ w.pc = "deleteStale"
  /\ DeleteChild(w.at)
  /\ w' = [w EXCEPT !.pc = "create"]
  /\ UNCHANGED <<parent, behind>>

\* createNamespacePlan: a namespace that is missing or terminates takes no
\* new objects; a name that is taken is looked up.
Create ==
  /\ w.pc = "create"
  /\ \/ Created(w.at)
     \/ ns[w.at] # "active" /\ Fails /\ UNCHANGED child
     \/ /\ ns[w.at] = "active" /\ child[w.at].owner # Nobody
        /\ w' = [w EXCEPT !.pc = "getExisting"]
        /\ UNCHANGED <<child, queue>>
  /\ UNCHANGED <<parent, behind>>

GetExisting ==
  /\ w.pc = "getExisting"
  /\ w' = CASE child[w.at].owner = Nobody -> [w EXCEPT !.pc = "createAgain"]
            [] IsOwnedByPlan(w.at) -> NextNamespace
            [] OTHER -> [w EXCEPT !.pc = "deleteExisting"]
  /\ UNCHANGED <<parent, child, queue, behind>>

DeleteExisting ==
  /\ w.pc = "deleteExisting"
  /\ DeleteChild(w.at)
  /\ w' = [w EXCEPT !.pc = "createAgain"]
  /\ UNCHANGED <<parent, behind>>

CreateAgain ==
  /\ w.pc = "createAgain"
  /\ \/ Created(w.at)
     \/ /\ ns[w.at] # "active" \/ child[w.at].owner # Nobody
        /\ Fails
        /\ UNCHANGED child
  /\ UNCHANGED <<parent, behind>>

\* The status is written when it changed; the event queues the parent again.
UpdateStatus ==
  LET status == [w.status EXCEPT !.invalid = @ /\ w.found]
  IN  /\ w.pc = "loop" /\ w.todo = {}
      /\ \/ status = parent[w.p].status /\ w' = Idle /\ UNCHANGED <<parent, queue>>
         \/ status # parent[w.p].status /\ w.p \in behind /\ Fails /\ UNCHANGED parent
         \/ /\ status # parent[w.p].status /\ w.p \notin behind
            /\ parent' = [parent EXCEPT ![w.p].status = status]
            /\ queue' = queue \cup {w.p}
            /\ w' = [w EXCEPT !.pc = "meta"]
      /\ UNCHANGED <<child, behind>>

\* The new resource version makes the metadata differ: one more Update, which
\* changes nothing and conflicts with a change made meanwhile.
UpdateMeta ==
  /\ w.pc = "meta"
  /\ \/ w.p \in behind /\ Fails
     \/ w.p \notin behind /\ w' = Idle /\ UNCHANGED queue
  /\ UNCHANGED <<parent, child, behind>>

-----------------------------------------------------------------------------
(* runFinalizer *)

\* Mutant: the children are left to themselves.
DeleteNoChild(n) ==
  /\ w.pc = "finalize" /\ n \in w.todo
  /\ w' = [w EXCEPT !.todo = @ \ {n}]
  /\ UNCHANGED <<parent, child, queue, behind>>

FinalizeChild(n) ==
  /\ w.pc = "finalize" /\ n \in w.todo
  /\ DeleteChild(n)
  /\ w' = [w EXCEPT !.todo = @ \ {n}]
  /\ UNCHANGED <<parent, behind>>

\* Children that are not gone: requeue after two seconds.
ListAgain ==
  /\ w.pc = "finalize" /\ w.todo = {}
  /\ \/ Owned(w.p) # {} /\ Fails
     \/ Owned(w.p) = {} /\ w' = [w EXCEPT !.pc = "removeFinalizer"] /\ UNCHANGED queue
  /\ UNCHANGED <<parent, child, behind>>

RemoveFinalizer ==
  /\ w.pc = "removeFinalizer"
  /\ \/ w.p \in behind /\ Fails /\ UNCHANGED parent
     \/ /\ w.p \notin behind
        /\ parent' = [parent EXCEPT ![w.p].fin = FALSE, ![w.p].st = "gone"]
        /\ w' = Idle
        /\ UNCHANGED queue
  /\ UNCHANGED <<child, behind>>

PlanFanStep ==
  /\ \/ AddFinalizer
     \/ CheckCompleted
     \/ \E n \in Namespaces : GetChild(n) \/ FinalizeChild(n)
     \/ DeleteStale
     \/ Create
     \/ GetExisting
     \/ DeleteExisting
     \/ CreateAgain
     \/ UpdateStatus
     \/ UpdateMeta
     \/ ListAgain
     \/ RemoveFinalizer
  /\ UNCHANGED <<ns, byHand, faults>>

-----------------------------------------------------------------------------
(* The plans of the namespaces, the user, the cluster, the process *)

\* The plan controller puts its finalizer; the migrations of the plan complete
\* it, unless it is being deleted; deleted, it goes once none of them is active.
ChildProgress(n) ==
  /\ \/ /\ child[n].st = "new"
        /\ child' = [child EXCEPT ![n].st = "open"]
     \/ /\ child[n].st = "open" /\ ~child[n].deleting
        /\ child' = [child EXCEPT ![n].st = "completed"]
     \/ /\ child[n].deleting
        /\ child' = [child EXCEPT ![n] = NoChild]
  /\ queue' = queue \cup ParentOf(n)
  /\ UNCHANGED <<parent, ns, behind, w, byHand, faults>>

Disturbance(kind) ==
  /\ kind \in PlanEnv
  /\ faults < MaxFaults
  /\ faults' = faults + 1

Live(p) == parent[p].st = "present" /\ ~parent[p].deleting

CreateParent(p) ==
  /\ parent[p].st = "absent"
  /\ Cardinality({q \in Parents : Live(q)}) < LiveParents
  /\ parent' = [parent EXCEPT ![p].st = "present", ![p].spec = Namespaces]
  /\ queue' = queue \cup {p}
  /\ UNCHANGED <<child, ns, behind, w, byHand, faults>>

DeleteParent(p) ==
  /\ "delete" \in PlanEnv
  /\ Live(p)
  /\ parent' = [parent EXCEPT ![p].deleting = TRUE, ![p].st = IF parent[p].fin THEN "present" ELSE "gone"]
  /\ queue' = queue \cup {p}
  /\ behind' = behind \cup {p}
  /\ UNCHANGED <<child, ns, w, byHand, faults>>

\* A namespace is taken out of the spec or added to it.
EditSpec(p, n) ==
  /\ Disturbance("edit")
  /\ Live(p)
  /\ parent' = [parent EXCEPT ![p].spec = IF n \in @ THEN @ \ {n} ELSE @ \cup {n}]
  /\ queue' = queue \cup {p}
  /\ behind' = behind \cup {p}
  /\ UNCHANGED <<child, ns, w, byHand>>

\* Somebody creates a plan of the child's name by hand.
UserCreates(n) ==
  /\ Disturbance("userCreate")
  /\ ns[n] = "active" /\ child[n].owner = Nobody
  /\ child' = [child EXCEPT ![n] = NewChild(User)]
  /\ byHand' = TRUE
  /\ UNCHANGED <<parent, ns, queue, behind, w>>

\* Somebody deletes the child.
UserDeletes(n) ==
  /\ Disturbance("userDelete")
  /\ child[n].owner # Nobody /\ ~child[n].deleting
  /\ DeleteChild(n)
  /\ UNCHANGED <<parent, ns, behind, w, byHand>>

\* A namespace is deleted with all it holds, and comes back.
NamespaceDeleted(n) ==
  /\ Disturbance("namespace")
  /\ ns[n] = "active"
  /\ ns' = [ns EXCEPT ![n] = "terminating"]
  /\ DeleteChild(n)
  /\ UNCHANGED <<parent, behind, w, byHand>>

NamespaceComesBack(n) ==
  /\ ns[n] = "terminating" /\ child[n].owner = Nobody
  /\ ns' = [ns EXCEPT ![n] = "active"]
  /\ UNCHANGED <<parent, child, queue, behind, w, byHand, faults>>

\* A new process lists all parents.
PlanFanRestart ==
  /\ faults < MaxFaults
  /\ faults' = faults + 1
  /\ w' = Idle
  /\ queue' = {p \in Parents : parent[p].st = "present"}
  /\ UNCHANGED <<parent, child, ns, behind, byHand>>

PlanFanNext ==
  \/ \E p \in Parents : Dequeue(p) /\ UNCHANGED <<ns, byHand, faults>>
  \/ \E p \in Parents : CreateParent(p) \/ DeleteParent(p) \/ \E n \in Namespaces : EditSpec(p, n)
  \/ PlanFanStep
  \/ CallFails
  \/ \E n \in Namespaces : \/ ChildProgress(n) \/ UserCreates(n) \/ UserDeletes(n)
                           \/ NamespaceDeleted(n) \/ NamespaceComesBack(n)
  \/ PlanFanRestart

PlanFanSpec == PlanFanInit /\ [][PlanFanNext]_planFanVars

(***************************************************************************)
(* Fairness: a queued parent is reconciled, a reconcile goes on, and the   *)
(* plans of the namespaces get their finalizer and their users migrate     *)
(* them.  None of the end of a plan that is being deleted: the plan        *)
(* controller keeps it while one of its migrations waits for a refresh     *)
(* (PlanDeletionEnds of MigrationSystem).                                  *)
(***************************************************************************)
PlanFanFairness ==
  /\ \A p \in Parents : SF_planFanVars(Dequeue(p) /\ UNCHANGED <<ns, byHand, faults>>)
  /\ WF_planFanVars(PlanFanStep)
  /\ \A n \in Namespaces : WF_planFanVars(ChildProgress(n) /\ ~child[n].deleting)

PlanFanFairSpec == PlanFanSpec /\ PlanFanFairness

-----------------------------------------------------------------------------
(* Properties *)

\* Every variable has its type.
PlanFanTypeOK ==
  /\ parent \in [Parents -> Parent]
  /\ child \in [Namespaces -> ChildPlan]
  /\ ns \in [Namespaces -> {"active", "terminating"}]
  /\ queue \subseteq Parents
  /\ behind \subseteq Parents
  /\ w \in PlanFanWorker
  /\ byHand \in BOOLEAN
  /\ faults \in Nat

(***************************************************************************)
(* A child plan never outlives its parent, so that a deleteSource plan     *)
(* nobody can see any more does not go on: a plan labelled with a parent   *)
(* exists only while that parent does and has its finalizer (Reconcile,    *)
(* runFinalizer).  The other parts make it inductive.                      *)
(***************************************************************************)
NoOrphanPlansInv ==
  /\ \A n \in Namespaces : child[n].owner \in Parents =>
       parent[child[n].owner].st = "present" /\ parent[child[n].owner].fin
  /\ w.pc # "idle" => w.p \in Parents
  /\ w.pc \in NamespacePCs => w.at \in Namespaces
  /\ w.pc \in CreatePCs => parent[w.p].st = "present" /\ parent[w.p].fin
  /\ w.pc = "addFinalizer" /\ w.p \notin behind => parent[w.p].st = "present"
  /\ w.pc = "removeFinalizer" => Owned(w.p) = {}

(***************************************************************************)
(* No event is lost: when the queue is empty and the worker idle, every    *)
(* namespace of a live parent has its child, and the parent's status shows *)
(* the state the child is in, although Reconcile skips a parent it finds   *)
(* completed, does not watch namespaces and works on a copy of the spec.   *)
(* Nobody must have made a plan by hand: isMultiPlanCompleted does not ask *)
(* for the label, and takes one in the place of a completed child for it.  *)
(***************************************************************************)
QuiescentSynced ==
  w.pc = "idle" /\ queue = {} /\ ~byHand =>
    \A p \in Parents : Live(p) => \A n \in parent[p].spec :
      child[n].owner = p /\ parent[p].status.namespaces[n] = Report(child[n].st)

\* The child of namespace n is deleted, or marked, in this step.
ChildDeleted(n) ==
  /\ child[n].owner # Nobody /\ ~child[n].deleting
  /\ child'[n].deleting \/ child'[n].owner # child[n].owner

(***************************************************************************)
(* The controller deletes a child only when its parent is being deleted:   *)
(* parents of one name follow one another, and while the finalizer of the  *)
(* last one waits for its children the next one takes them for stale       *)
(* (isChildOwnedByPlan, deleteChildPlan, listOwnedChildPlans).             *)
(***************************************************************************)
LiveChildPlanKept ==
  [][\A n \in Namespaces : PlanFanStep /\ ChildDeleted(n) /\ child[n].owner \in Parents =>
        parent[child[n].owner].deleting]_planFanVars

(***************************************************************************)
(* While namespaces and plans that are deleted do go away and come back,   *)
(* and users migrate their plans, every namespace of a live parent is      *)
(* reported completed in the end, one that failed to take the child and    *)
(* one added to a completed parent included.                               *)
(***************************************************************************)
PlanFanOutEnds ==
  (\A n \in Namespaces : []<>(ns[n] = "active") /\ []<>(~child[n].deleting)) =>
    \A p \in Parents, n \in Namespaces :
      (Live(p) /\ n \in parent[p].spec) ~>
        \/ parent[p].status.namespaces[n] = "completed"
        \/ n \notin parent[p].spec
        \/ ~Live(p)

(***************************************************************************)
(* A deleted parent goes away, and with it its children, unless the plan   *)
(* controller keeps one of them for ever: runFinalizer deletes each child, *)
(* polls every two seconds and misses none that goes.                      *)
(***************************************************************************)
DeletedPlanGoes ==
  \A p \in Parents : parent[p].deleting ~>
    \/ parent[p].st = "gone"
    \/ \E n \in Namespaces : [](child[n].owner = p /\ child[n].deleting)

-----------------------------------------------------------------------------
(* The abstract specification *)

\* Hides finalizers, queue and worker.
Life(p) ==
  CASE parent[p].st = "absent" -> "absent"
    [] parent[p].st = "gone" -> "gone"
    [] OTHER -> IF parent[p].deleting THEN "deleting" ELSE "live"

\* Users and namespace deletions remove children of live parents.
Ownership == INSTANCE CascadingOwnership WITH
  Slots <- Namespaces, Owners <- Parents, Interfering <- PlanEnv \cap {"userDelete", "namespace"} # {},
  life <- [p \in Parents |-> Life(p)], holder <- [n \in Namespaces |-> child[n].owner]

(***************************************************************************)
(* While parents of one name follow one another (LiveParents = 1) the      *)
(* controller implements CascadingOwnership: each slot passes from one     *)
(* owner to the next through nobody, only a deleting owner gives one up    *)
(* unless others interfere, and no parent leaves while it holds one, in    *)
(* every interleaving of finalizers, stale reads and restarts.             *)
(***************************************************************************)
PlanOwnership == Ownership!Spec
=============================================================================
