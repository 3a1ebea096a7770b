-------------------------- MODULE MCMigrationSystem --------------------------
(***************************************************************************)
(* MigrationSystem for TLC.  The VMs are interchangeable: their order in   *)
(* the plan is not fixed by the specification.  Symmetry is used by the    *)
(* runs that check no liveness property.                                   *)
(***************************************************************************)
EXTENDS MigrationSystem, TLC

Symmetry == Permutations(VMs)
=============================================================================
