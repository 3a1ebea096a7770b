------------------------------ MODULE Conditions ------------------------------
(***************************************************************************)
(* The condition list of a status (api/migrationcontroller/v1alpha1,       *)
(* conditions.go).  A list in the API: its order counts when two statuses  *)
(* are compared.  The time of the last transition is left out, because     *)
(* CopyConditionTimestampsFrom levels it before every comparison.          *)
(***************************************************************************)
EXTENDS Naturals, Sequences

\* why: the reason and the message.
Condition(type, status, category, why) ==
  [type |-> type, status |-> status, category |-> category, why |-> why]

\* find
Has(conds, type) == \E i \in DOMAIN conds : conds[i].type = type

\* Mutant: a condition that is already there is added once more.
AppendCondition(conds, c) == Append(conds, c)

\* In place, so that a condition keeps its position.
SetCondition(conds, c) ==
  IF Has(conds, c.type)
  THEN [i \in DOMAIN conds |-> IF conds[i].type = c.type THEN c ELSE conds[i]]
  ELSE Append(conds, c)

DeleteCondition(conds, type) ==
  LET Other(c) == c.type # type
  IN  SelectSeq(conds, Other)

HasCondition(conds, type) == \E i \in DOMAIN conds : conds[i].type = type /\ conds[i].status

HasConditionCategory(conds, category) ==
  \E i \in DOMAIN conds : conds[i].category = category /\ conds[i].status

HasCriticalCondition(conds) == HasConditionCategory(conds, "Critical")

SetReconcileFailed(conds) ==
  SetCondition(DeleteCondition(conds, "Ready"), Condition("ReconcileFailed", TRUE, "Critical", "error"))
===============================================================================
