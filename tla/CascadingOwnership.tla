-------------------------- MODULE CascadingOwnership --------------------------
(***************************************************************************)
(* What both multi-namespace controllers promise about parents and their   *)
(* children, without queues, finalizers, labels or program counters.       *)
(*                                                                         *)
(* Every slot (the child's name in one namespace) holds at most one        *)
(* object.  A parent takes free slots while it exists, it leaves only when *)
(* it holds none, and the slot of a parent that lives is given up only if  *)
(* something else than its controller may remove children.                 *)
(***************************************************************************)
CONSTANTS
  Slots,      \* where a child can be
  Owners,     \* the parents
  User,       \* holds a slot that no parent holds
  Nobody,     \* holds a free slot
  Interfering \* whether others than the controller remove children

VARIABLES
  life,  \* life[p]: absent, live, deleting or gone
  holder \* holder[s]: who holds the slot

ownershipVars == <<life, holder>>

Init ==
  /\ life = [p \in Owners |-> "absent"]
  /\ holder = [s \in Slots |-> Nobody]

Held(p) == {s \in Slots : holder[s] = p}

Appear(p) ==
  /\ life[p] = "absent"
  /\ life' = [life EXCEPT ![p] = "live"]
  /\ UNCHANGED holder

Retire(p) ==
  /\ life[p] = "live"
  /\ life' = [life EXCEPT ![p] = "deleting"]
  /\ UNCHANGED holder

\* No parent leaves children behind.
Leave(p) ==
  /\ life[p] \in {"live", "deleting"}
  /\ Held(p) = {}
  /\ life' = [life EXCEPT ![p] = "gone"]
  /\ UNCHANGED holder

\* A controller that read its parent before the deletion may still create.
Take(s, p) ==
  /\ holder[s] = Nobody
  /\ life[p] \in {"live", "deleting"}
  /\ holder' = [holder EXCEPT ![s] = p]
  /\ UNCHANGED life

UserTakes(s) ==
  /\ holder[s] = Nobody
  /\ holder' = [holder EXCEPT ![s] = User]
  /\ UNCHANGED life

Release(s) ==
  /\ holder[s] # Nobody
  /\ holder[s] \in Owners /\ ~Interfering => life[holder[s]] = "deleting"
  /\ holder' = [holder EXCEPT ![s] = Nobody]
  /\ UNCHANGED life

Next ==
  \/ \E p \in Owners : Appear(p) \/ Retire(p) \/ Leave(p)
  \/ \E s \in Slots : UserTakes(s) \/ Release(s) \/ \E p \in Owners : Take(s, p)

Spec == Init /\ [][Next]_ownershipVars
===============================================================================
