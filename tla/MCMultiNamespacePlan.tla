------------------------ MODULE MCMultiNamespacePlan ------------------------
(***************************************************************************)
(* MultiNamespacePlan for TLC.                                             *)
(***************************************************************************)
EXTENDS MultiNamespacePlan, TLC

\* Parents are alike, and so are namespaces: the loop takes them in any order.
PlanFanSymmetry == Permutations(Parents) \cup Permutations(Namespaces)
=============================================================================
