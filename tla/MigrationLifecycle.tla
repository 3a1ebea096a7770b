-------------------------- MODULE MigrationLifecycle --------------------------
(***************************************************************************)
(* What the migration controller promises about the migrations of a plan,  *)
(* without workers, copies, finalizers, conflicts, restarts or VMIMs: when *)
(* a migration may point a VM at its target, point it back, delete a claim *)
(* and leave, and what the lists of its status say about the VMs at the    *)
(* moment they are written.                                                *)
(***************************************************************************)
CONSTANTS
  Machines,    \* the virtual machines of the plan
  Migrations,  \* the migrations of the plan
  DropsSources \* the retention policy lets a finished migration delete sources

VARIABLES
  stage,      \* stage[m]: how far the migration m is
  marked,     \* the migrations somebody asked to delete
  running,    \* running[m], completed[m], cancelled[m]: the lists of m's status
  completed,
  cancelled,
  onTarget,   \* the VMs that name their target claim
  claims,     \* claims[v]: the claims of v that nobody deleted
  planned     \* whether the plan exists

lists == <<running, completed, cancelled>>
lifecycleVars == <<stage, marked, running, completed, cancelled, onTarget, claims, planned>>

Init ==
  /\ stage \in [Migrations -> {"absent", "waiting"}]
  /\ marked = {}
  /\ running = [m \in Migrations |-> {}]
  /\ completed = [m \in Migrations |-> {}]
  /\ cancelled = [m \in Migrations |-> {}]
  /\ onTarget = {}
  /\ claims = [v \in Machines |-> {"src"}]
  /\ planned = TRUE

Moves(m, from, to) == stage[m] \in from /\ stage' = [stage EXCEPT ![m] = to]

-----------------------------------------------------------------------------
(* Migrations come, are deleted and leave *)

Create(m) ==
  /\ Moves(m, {"absent"}, "waiting")
  /\ UNCHANGED <<marked, lists, onTarget, claims, planned>>

Mark(m) ==
  /\ stage[m] \notin {"absent", "gone"}
  /\ marked' = marked \cup {m}
  /\ UNCHANGED <<stage, lists, onTarget, claims, planned>>

\* A migration that has begun leaves only at one of its two ends, and none
\* leaves a running VM behind.
Leave(m) ==
  /\ Moves(m, {"waiting", "finishing", "completed", "canceled"}, "gone")
  /\ running[m] = {}
  /\ UNCHANGED <<marked, lists, onTarget, claims, planned>>

\* The plan stays while a migration needs it.
DropPlan ==
  /\ planned
  /\ \A m \in Migrations : stage[m] \notin {"absent", "gone"} =>
       running[m] = {} /\ stage[m] \notin {"swapping", "moving", "finishing"}
  /\ planned' = FALSE
  /\ UNCHANGED <<stage, marked, lists, onTarget, claims>>

-----------------------------------------------------------------------------
(* The way forward *)

Begin(m) ==
  /\ planned
  /\ Moves(m, {"waiting"}, "swapping")
  /\ UNCHANGED <<marked, lists, onTarget, claims, planned>>

\* Targets are made, and VMs pointed at them, only for a migration that says
\* so in its status, and only while there is a plan to go back by.
Swapping == planned /\ \E m \in Migrations : stage[m] = "swapping"

MakeTarget(v) ==
  /\ Swapping
  /\ claims' = [claims EXCEPT ![v] = @ \cup {"tgt"}]
  /\ UNCHANGED <<stage, marked, lists, onTarget, planned>>

Swap(v) ==
  /\ Swapping
  /\ onTarget' = onTarget \cup {v}
  /\ UNCHANGED <<stage, marked, lists, claims, planned>>

\* The VMs listed are on their targets.
List(m) ==
  /\ \/ Moves(m, {"swapping"}, "moving")
     \/ stage[m] = "swapping" /\ UNCHANGED stage
  /\ \E vms \in SUBSET onTarget : running' = [running EXCEPT ![m] = @ \cup vms]
  /\ UNCHANGED <<marked, completed, cancelled, onTarget, claims, planned>>

\* VMs pass from running to completed; an error may leave them in both.
Progress(m) ==
  /\ \E done \in SUBSET running[m] :
       /\ completed' = [completed EXCEPT ![m] = @ \cup done]
       /\ \/ Moves(m, {"moving"}, "moving") /\ UNCHANGED running
          \/ /\ Moves(m, {"moving"}, IF running[m] = done THEN "finishing" ELSE "moving")
             /\ running' = [running EXCEPT ![m] = @ \ done]
  /\ UNCHANGED <<marked, cancelled, onTarget, claims, planned>>

Finish(m) ==
  /\ Moves(m, {"finishing"}, "completed")
  /\ running[m] = {}
  /\ UNCHANGED <<marked, lists, onTarget, claims, planned>>

-----------------------------------------------------------------------------
(* The way back *)

\* A VM is pointed back only for a deleted migration that lists it.
Revert(v) ==
  /\ \E m \in marked : v \in running[m] /\ stage[m] \in {"swapping", "moving", "canceling"}
  /\ onTarget' = onTarget \ {v}
  /\ UNCHANGED <<stage, marked, lists, claims, planned>>

\* A pass over the running VMs: those it takes off the list are back on
\* their sources.  It ends the cancel when none is left.
Cancel(m) ==
  /\ m \in marked
  /\ \/ /\ Moves(m, {"waiting", "swapping", "moving", "finishing", "canceling"}, "canceling")
        /\ UNCHANGED lists
     \/ \E back \in SUBSET (running[m] \ onTarget) :
          /\ Moves(m, {"waiting", "swapping", "moving", "finishing", "canceling"},
                   IF running[m] = back THEN "reverted" ELSE "canceling")
          /\ running' = [running EXCEPT ![m] = @ \ back]
          /\ cancelled' = [cancelled EXCEPT ![m] = back]
          /\ UNCHANGED completed
  /\ UNCHANGED <<marked, onTarget, claims, planned>>

EndCancel(m) ==
  /\ m \in marked
  /\ Moves(m, {"reverted"}, "canceled")
  /\ UNCHANGED <<marked, lists, onTarget, claims, planned>>

-----------------------------------------------------------------------------
(* Claims *)

\* The claims of completed VMs go at the end of a migration (which may be
\* deleted meanwhile), the targets of cancelled ones after the cancel.
DropClaims(m) ==
  /\ claims' \in [Machines -> SUBSET {"src", "tgt"}]
  /\ \A v \in Machines : /\ claims'[v] \subseteq claims[v]
                         /\ \/ claims'[v] = claims[v]
                            \/ /\ DropsSources /\ stage[m] \in {"finishing", "gone"}
                               /\ v \in completed[m]
                            \/ /\ m \in marked /\ stage[m] = "reverted"
                               /\ v \in cancelled[m] /\ claims[v] \subseteq claims'[v] \cup {"tgt"}
  /\ UNCHANGED <<stage, marked, lists, onTarget, planned>>

-----------------------------------------------------------------------------

Next ==
  \/ \E m \in Migrations : \/ Create(m) \/ Mark(m) \/ Leave(m)
                           \/ Begin(m) \/ List(m) \/ Progress(m) \/ Finish(m)
                           \/ Cancel(m) \/ EndCancel(m) \/ DropClaims(m)
  \/ \E v \in Machines : MakeTarget(v) \/ Swap(v) \/ Revert(v)
  \/ DropPlan

Spec == Init /\ [][Next]_lifecycleVars
=============================================================================
