------------------------- MODULE MCMultiNamespaceMig -------------------------
(***************************************************************************)
(* MultiNamespaceMig for TLC.                                              *)
(***************************************************************************)
EXTENDS MultiNamespaceMig, TLC

\* Parents are alike, and so are namespaces: the loop takes them in any order.
FanOutSymmetry == Permutations(Parents) \cup Permutations(Namespaces)
==============================================================================
