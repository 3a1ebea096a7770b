--------------------------- MODULE MultiNamespaceMig ---------------------------
(***************************************************************************)
(* The MultiNamespaceVirtualMachineStorageMigration controller             *)
(* (internal/controller/multinamespacestoragemig).  A parent migration     *)
(* gets one child migration in every namespace of its multi-namespace      *)
(* plan.  The name of the child depends on the plan only, so parents of    *)
(* one plan share the name, and a label tells whose child it is.  The      *)
(* controller has one worker and reconciles a parent only when its work    *)
(* queue holds it: after an event of the parent, after an event of a child *)
(* labelled with it, and after an error.                                   *)
(***************************************************************************)
EXTENDS Naturals, FiniteSets

CONSTANTS
  Namespaces,  \* the namespaces of the plan
  Parents,     \* the multi-namespace migrations that refer to the plan
  User,        \* the owner of a migration that has no label
  Nobody,      \* the owner where there is no migration
  LiveParents, \* how many parents exist at a time that are not being deleted
  FanOutEnv,   \* which disturbances may happen, a subset of FanOutEnvKinds
  MaxFaults    \* bound on failing calls, restarts and changes of the plan

FanOutEnvKinds == {"delete", "user"}

ASSUME FanOutAssumption ==
  /\ IsFiniteSet(Namespaces) /\ Namespaces # {}
  /\ IsFiniteSet(Parents)
  /\ User \notin Parents /\ Nobody \notin Parents /\ User # Nobody
  /\ FanOutEnv \subseteq FanOutEnvKinds
  /\ LiveParents \in Nat /\ MaxFaults \in Nat

VARIABLES
  parent,  \* parent[p]: the parent objects
  child,   \* child[n]: the migration with the child's name in namespace n
  queue,   \* the work queue
  behind,  \* parents somebody else changed since the worker read them
  w,       \* the worker
  plan,    \* whether the plan exists
  faults   \* what MaxFaults bounds, so far

fanVars == <<parent, child, queue, behind, w, plan, faults>>

\* A child has a finalizer while it is "running".
ChildStates == {"none", "new", "running", "completed"}

Child == [owner: Parents \cup {User, Nobody}, st: ChildStates, deleting: BOOLEAN]

NoChild == [owner |-> Nobody, st |-> "none", deleting |-> FALSE]

\* namespaces: the child status copied per namespace.  cond: the critical
\* conditions.
Status == [namespaces: [Namespaces -> ChildStates], cond: SUBSET {"InvalidPlanRef", "ConflictingMigration"}]

Parent == [st: {"absent", "present", "gone"}, fin: BOOLEAN, deleting: BOOLEAN, status: Status]

NoStatus == [namespaces |-> [n \in Namespaces |-> "none"], cond |-> {}]

\* Where a reconcile has one namespace in hand.
NamespacePCs == {"deleteStale", "create", "getExisting", "deleteExisting", "createAgain"}

\* Where a reconcile goes from the finalizer to the children.
FanOutPCs == {"getPlan", "loop"} \cup NamespacePCs

\* at: the namespace in hand.  todo: namespaces not reached.
FanOutWorker == [pc: FanOutPCs \cup {"idle", "addFinalizer", "status", "finalize", "removeFinalizer"},
                 p: Parents \cup {Nobody}, at: Namespaces \cup {Nobody}, todo: SUBSET Namespaces, status: Status]

Idle == [pc |-> "idle", p |-> Nobody, at |-> Nobody, todo |-> {}, status |-> NoStatus]

FanOutInit ==
  /\ parent = [p \in Parents |-> [st |-> "absent", fin |-> FALSE, deleting |-> FALSE, status |-> NoStatus]]
  /\ child = [n \in Namespaces |-> NoChild]
  /\ queue = {}
  /\ behind = {}
  /\ w = Idle
  /\ plan \in BOOLEAN
  /\ faults = 0

-----------------------------------------------------------------------------
(* Events and API calls *)

\* Mutant: the children are listed by the presence of the label.
OwnedByAny(p) == {n \in Namespaces : child[n].owner \in Parents}

\* listOwnedChildMigrations
Owned(p) == {n \in Namespaces : child[n].owner = p}

\* Mutant: a child's event enqueues no parent.
NobodyToEnqueue(n) == {}

\* The parent to enqueue for an event of the child in n.
ParentOf(n) == {child[n].owner} \cap Parents

\* deleteChildMigration: by name, whoever owns it by now.
DeleteChild(n) ==
  /\ child' = [child EXCEPT ![n] = IF @.st = "running" THEN [@ EXCEPT !.deleting = TRUE] ELSE NoChild]
  /\ queue' = queue \cup ParentOf(n)

NewChild(p) == [owner |-> p, st |-> "new", deleting |-> FALSE]

\* Create succeeds: Reconcile returns and goes on after the child's event.
Created(n, p) ==
  /\ child[n].owner = Nobody
  /\ child' = [child EXCEPT ![n] = NewChild(p)]
  /\ queue' = queue \cup {p}
  /\ w' = Idle

\* Mutant: the worker forgets its parent before it is queued again.
FailsForgotten ==
  /\ queue' = queue \cup {Idle.p}
  /\ w' = Idle

\* Reconcile returns an error: the parent is queued again.
Fails ==
  /\ queue' = queue \cup {w.p}
  /\ w' = Idle

\* A call fails, anywhere in a reconcile.
CallFails ==
  /\ w.pc # "idle" /\ faults < MaxFaults
  /\ faults' = faults + 1
  /\ Fails
  /\ UNCHANGED <<parent, child, behind, plan>>

-----------------------------------------------------------------------------
(* Reconcile *)

\* Mutant: the finalizer is not looked at before children are created.
FirstStepGetPlan(p) == "getPlan"

FirstStep(p) == IF parent[p].fin THEN "getPlan" ELSE "addFinalizer"

Dequeue(p) ==
  /\ w.pc = "idle" /\ p \in queue
  /\ queue' = queue \ {p}
  /\ behind' = behind \ {p}
  /\ \/ parent[p].st # "present" /\ UNCHANGED w
     \/ /\ parent[p].st = "present" /\ parent[p].deleting
        /\ w' = [Idle EXCEPT !.pc = "finalize", !.p = p, !.todo = {n \in Owned(p) : ~child[n].deleting}]
     \/ /\ parent[p].st = "present" /\ ~parent[p].deleting
        /\ w' = [Idle EXCEPT !.pc = FirstStep(p), !.p = p, !.status = parent[p].status]
  /\ UNCHANGED <<parent, child, plan, faults>>

AddFinalizer ==
  /\ w.pc = "addFinalizer"
  /\ \/ /\ w.p \in behind
        /\ Fails
        /\ UNCHANGED parent
     \/ /\ w.p \notin behind
        /\ parent' = [parent EXCEPT ![w.p].fin = TRUE]
        /\ queue' = queue \cup {w.p}
        /\ w' = [w EXCEPT !.pc = "getPlan"]
  /\ UNCHANGED <<child, behind>>

\* Conditions are evaluated anew; without the plan the rest of the status stays.
GetPlan ==
  /\ w.pc = "getPlan"
  /\ w' = IF plan THEN [w EXCEPT !.pc = "loop", !.todo = Namespaces, !.status = NoStatus]
                  ELSE [w EXCEPT !.pc = "status", !.status.cond = @ \cup {"InvalidPlanRef"}]
  /\ UNCHANGED <<parent, child, queue, behind>>

\* A migration of the child's name that carries no label ends the loop.
Conflict == [w EXCEPT !.pc = "status", !.at = Nobody, !.todo = {}, !.status.cond = {"ConflictingMigration"}]

\* One turn of the loop over the namespaces of the plan: get the child.
GetChild(n) ==
  /\ w.pc = "loop" /\ n \in w.todo
  /\ w' = CASE child[n].owner = Nobody -> [w EXCEPT !.pc = "create", !.at = n]
            [] child[n].owner = w.p -> [w EXCEPT !.todo = @ \ {n}, !.status.namespaces[n] = child[n].st]
            [] child[n].owner = User -> Conflict
            [] OTHER -> [w EXCEPT !.pc = "deleteStale", !.at = n]
  /\ UNCHANGED <<parent, child, queue, behind>>

DeleteStale ==
  /\ w.pc = "deleteStale"
  /\ DeleteChild(w.at)
  /\ w' = [w EXCEPT !.pc = "create"]
  /\ UNCHANGED <<parent, behind>>

\* createNamespacedMigration: Create, and when the name is taken Get.
Create ==
  /\ w.pc = "create"
  /\ \/ Created(w.at, w.p)
     \/ /\ child[w.at].owner # Nobody
        /\ w' = [w EXCEPT !.pc = "getExisting"]
        /\ UNCHANGED <<child, queue>>
  /\ UNCHANGED <<parent, behind>>

GetExisting ==
  /\ w.pc = "getExisting"
  /\ \/ child[w.at].owner = Nobody /\ Fails
     \/ child[w.at].owner = w.p /\ w' = Idle /\ UNCHANGED queue
     \/ child[w.at].owner = User /\ w' = Conflict /\ UNCHANGED queue
     \/ child[w.at].owner \in Parents \ {w.p} /\ w' = [w EXCEPT !.pc = "deleteExisting"] /\ UNCHANGED queue
  /\ UNCHANGED <<parent, child, behind>>

DeleteExisting ==
  /\ w.pc = "deleteExisting"
  /\ DeleteChild(w.at)
  /\ w' = [w EXCEPT !.pc = "createAgain"]
  /\ UNCHANGED <<parent, behind>>

CreateAgain ==
  /\ w.pc = "createAgain"
  /\ \/ Created(w.at, w.p)
     \/ child[w.at].owner # Nobody /\ Fails /\ UNCHANGED child
  /\ UNCHANGED <<parent, behind>>

\* A conflict found in this reconcile is a new condition with a new time: the
\* status differs from the stored one, which keeps whole seconds.
ConflictSetAgain == w.status.cond = {"ConflictingMigration"}

StatusChanged == w.status # parent[w.p].status \/ ConflictSetAgain

\* The status is written when it changed; the event queues the parent again.
\* A write that changes nothing, in the second of the one before, has none.
UpdateStatus ==
  /\ \/ w.pc = "status"
     \/ w.pc = "loop" /\ w.todo = {}
  /\ \/ ~StatusChanged /\ w' = Idle /\ UNCHANGED <<parent, queue>>
     \/ StatusChanged /\ w.p \in behind /\ Fails /\ UNCHANGED parent
     \/ /\ StatusChanged /\ w.p \notin behind
        /\ parent' = [parent EXCEPT ![w.p].status = w.status]
        /\ \/ queue' = queue \cup {w.p}
           \/ w.status = parent[w.p].status /\ UNCHANGED queue
        /\ w' = Idle
  /\ UNCHANGED <<child, behind>>

-----------------------------------------------------------------------------
(* runFinalizer *)

\* Mutant: the children are left to themselves.
DeleteNoChild(n) ==
  /\ w.pc = "finalize" /\ n \in w.todo
  /\ w' = [w EXCEPT !.todo = @ \ {n}]
  /\ UNCHANGED <<parent, child, queue, behind>>

FinalizeChild(n) ==
  /\ w.pc = "finalize" /\ n \in w.todo
  /\ DeleteChild(n)
  /\ w' = [w EXCEPT !.todo = @ \ {n}]
  /\ UNCHANGED <<parent, behind>>

\* Mutant: children that were marked count as gone.
ListAgainMarked ==
  /\ w.pc = "finalize" /\ w.todo = {}
  /\ w' = [w EXCEPT !.pc = "removeFinalizer"]
  /\ UNCHANGED <<parent, child, queue, behind>>

\* Children that are not gone: requeue after two seconds.
ListAgain ==
  /\ w.pc = "finalize" /\ w.todo = {}
  /\ \/ Owned(w.p) # {} /\ Fails
     \/ Owned(w.p) = {} /\ w' = [w EXCEPT !.pc = "removeFinalizer"] /\ UNCHANGED queue
  /\ UNCHANGED <<parent, child, behind>>

\* An update of an object with no other finalizer, marked deleted, removes it.
RemoveFinalizer ==
  /\ w.pc = "removeFinalizer"
  /\ \/ w.p \in behind /\ Fails /\ UNCHANGED parent
     \/ /\ w.p \notin behind
        /\ parent' = [parent EXCEPT ![w.p].fin = FALSE, ![w.p].st = "gone"]
        /\ w' = Idle
        /\ UNCHANGED queue
  /\ UNCHANGED <<child, behind>>

FanOutStep ==
  /\ \/ AddFinalizer
     \/ GetPlan
     \/ \E n \in Namespaces : GetChild(n) \/ FinalizeChild(n)
     \/ DeleteStale
     \/ Create
     \/ GetExisting
     \/ DeleteExisting
     \/ CreateAgain
     \/ UpdateStatus
     \/ ListAgain
     \/ RemoveFinalizer
  /\ UNCHANGED <<plan, faults>>

-----------------------------------------------------------------------------
(* The migrations of the namespaces, the user, the process *)

\* A child starts, completes, or, deleted while running, is cancelled.
ChildProgress(n) ==
  /\ \/ /\ child[n].st = "new"
        /\ child' = [child EXCEPT ![n].st = "running"]
     \/ /\ child[n].st = "running" /\ ~child[n].deleting
        /\ child' = [child EXCEPT ![n].st = "completed"]
     \/ /\ child[n].st = "running" /\ child[n].deleting
        /\ child' = [child EXCEPT ![n] = NoChild]
  /\ queue' = queue \cup ParentOf(n)
  /\ UNCHANGED <<parent, behind, w, plan, faults>>

Live(p) == parent[p].st = "present" /\ ~parent[p].deleting

CreateParent(p) ==
  /\ parent[p].st = "absent"
  /\ Cardinality({q \in Parents : Live(q)}) < LiveParents
  /\ parent' = [parent EXCEPT ![p].st = "present"]
  /\ queue' = queue \cup {p}
  /\ UNCHANGED <<child, behind, w, plan, faults>>

DeleteParent(p) ==
  /\ "delete" \in FanOutEnv
  /\ parent[p].st = "present" /\ ~parent[p].deleting
  /\ parent' = [parent EXCEPT ![p].deleting = TRUE, ![p].st = IF parent[p].fin THEN "present" ELSE "gone"]
  /\ queue' = queue \cup {p}
  /\ behind' = behind \cup {p}
  /\ UNCHANGED <<child, w, plan, faults>>

\* Somebody creates a migration of the child's name by hand.
UserCreates(n) ==
  /\ "user" \in FanOutEnv
  /\ child[n].owner = Nobody
  /\ child' = [child EXCEPT ![n] = NewChild(User)]
  /\ UNCHANGED <<parent, queue, behind, w, plan, faults>>

\* The plan is created or deleted; the controller does not watch plans.
PlanChanges ==
  /\ faults < MaxFaults
  /\ faults' = faults + 1
  /\ plan' = ~plan
  /\ UNCHANGED <<parent, child, queue, behind, w>>

\* A new process lists all parents.
FanOutRestart ==
  /\ faults < MaxFaults
  /\ faults' = faults + 1
  /\ w' = Idle
  /\ queue' = {p \in Parents : parent[p].st = "present"}
  /\ UNCHANGED <<parent, child, behind, plan>>

FanOutNext ==
  \/ \E p \in Parents : Dequeue(p) \/ CreateParent(p) \/ DeleteParent(p)
  \/ FanOutStep
  \/ CallFails
  \/ \E n \in Namespaces : ChildProgress(n) \/ UserCreates(n)
  \/ PlanChanges
  \/ FanOutRestart

FanOutSpec == FanOutInit /\ [][FanOutNext]_fanVars

(***************************************************************************)
(* Fairness: a queued parent is reconciled, a reconcile goes on, and the   *)
(* children, which are migrations of their own, end (EventuallyOver and    *)
(* DeletedGoesAway of MigrationSystem).                                    *)
(***************************************************************************)
FanOutFairness ==
  /\ \A p \in Parents : SF_fanVars(Dequeue(p))
  /\ WF_fanVars(FanOutStep)
  /\ \A n \in Namespaces : WF_fanVars(ChildProgress(n))

FanOutFairSpec == FanOutSpec /\ FanOutFairness

-----------------------------------------------------------------------------
(* Properties *)

\* Every variable has its type.
FanOutTypeOK ==
  /\ parent \in [Parents -> Parent]
  /\ child \in [Namespaces -> Child]
  /\ queue \subseteq Parents
  /\ behind \subseteq Parents
  /\ w \in FanOutWorker
  /\ plan \in BOOLEAN
  /\ faults \in Nat

(***************************************************************************)
(* A child never outlives its parent: a child labelled with a parent       *)
(* exists only while that parent does and has its finalizer, because the   *)
(* finalizer is written before the first child is created and removed      *)
(* after the last is gone (Reconcile, runFinalizer).  The other parts make *)
(* it inductive: a worker that may create a child has seen the finalizer   *)
(* on its parent, and one about to remove it has no child left.            *)
(***************************************************************************)
NoOrphansInv ==
  /\ \A n \in Namespaces : child[n].owner \in Parents =>
       parent[child[n].owner].st = "present" /\ parent[child[n].owner].fin
  /\ w.pc # "idle" => w.p \in Parents
  /\ w.pc \in NamespacePCs => w.at \in Namespaces
  /\ w.pc \in FanOutPCs => parent[w.p].st = "present" /\ parent[w.p].fin
  /\ w.pc = "addFinalizer" /\ w.p \notin behind => parent[w.p].st = "present"
  /\ w.pc = "removeFinalizer" => Owned(w.p) = {}

\* The migration of namespace n is deleted, or marked, in this step.
ChildDeleted(n) ==
  /\ child[n].owner # Nobody /\ ~child[n].deleting
  /\ child'[n].deleting \/ child'[n].owner # child[n].owner

(***************************************************************************)
(* The controller deletes a child only when its parent is being deleted or *)
(* is gone: "(possibly a now-deleted parent). Such orphaned children are   *)
(* safe to replace" (isOwnedByAnyMultiNamespaceMigration).                 *)
(***************************************************************************)
LiveChildKept ==
  [][\A n \in Namespaces : ChildDeleted(n) /\ child[n].owner \in Parents =>
        parent[child[n].owner].deleting]_fanVars

(***************************************************************************)
(* A parent that is not deleted comes to report every namespace completed, *)
(* or a missing plan, or a conflict with a migration made by hand.  The    *)
(* worker hears of the children through their events only.                 *)
(***************************************************************************)
FanOutEnds ==
  \A p \in Parents : parent[p].st = "present" ~>
    \/ \A n \in Namespaces : parent[p].status.namespaces[n] = "completed"
    \/ parent[p].status.cond # {}
    \/ parent[p].deleting

(***************************************************************************)
(* A deleted parent goes away, and with it its children.                   *)
(***************************************************************************)
DeletedParentGoes == \A p \in Parents : parent[p].deleting ~> parent[p].st = "gone"

-----------------------------------------------------------------------------
(* The abstract specification *)

\* Hides finalizers, queue and worker.
Life(p) ==
  CASE parent[p].st = "absent" -> "absent"
    [] parent[p].st = "gone" -> "gone"
    [] OTHER -> IF parent[p].deleting THEN "deleting" ELSE "live"

Ownership == INSTANCE CascadingOwnership WITH
  Slots <- Namespaces, Owners <- Parents, Interfering <- FALSE,
  life <- [p \in Parents |-> Life(p)], holder <- [n \in Namespaces |-> child[n].owner]

(***************************************************************************)
(* While parents follow one another (LiveParents = 1) the controller       *)
(* implements CascadingOwnership: a live parent's child is never removed,  *)
(* a child passes from one parent to the next through nobody, and no       *)
(* parent leaves while it has one, in every interleaving of finalizers,    *)
(* stale reads, cancels that take their time, and restarts.                *)
(***************************************************************************)
FanOutOwnership == Ownership!Spec
=============================================================================
