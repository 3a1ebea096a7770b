----------------------------- MODULE MCPlanRecords -----------------------------
(***************************************************************************)
(* PlanRecords for TLC: two VMs, the first with two volumes, one of which  *)
(* was migrated before, and a target name given by the user.               *)
(***************************************************************************)
EXTENDS PlanRecords

MCOrder == <<"v1", "v2">>

MCDisk == [v1 |-> <<<<"a", "new">>, <<"b", "mig-0">>>>, v2 |-> <<<<"c">>>>]

MCGiven == [v1 |-> <<NoName, NoName>>, v2 |-> <<<<"t">>>>]

MCPlain == {<<"a", "new">>}

MCKubeVirts ==
  LET KubeVirt(minor, gates) == <<[major |-> 1, minor |-> minor, liveUpdate |-> TRUE, gates |-> gates]>>
  IN  <<KubeVirt(5, {}), KubeVirt(4, {"VolumeMigration"}), <<>>>>
================================================================================
