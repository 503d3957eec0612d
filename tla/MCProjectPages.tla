---------------------------- MODULE MCProjectPages ----------------------------
(***************************************************************************)
(* Small instances of ProjectPages: an imported project with one feature,  *)
(* whose folder of test documents is the default, and folders that nest.   *)
(***************************************************************************)
EXTENDS ProjectPages, TLC

CONSTANTS entity, up1, up2, tc1, tc2

MCDocNames == {<<"specs", "f1", "sdd-qa", "plan">>, <<"specs", "f1", "spec">>}
MCRootSets == {{<<"specs">>}, {<<"specs">>, <<"specs", "f1">>}}
MCRunAt == [n \in ReportNames |-> IF n = "nightly.json" THEN 2 ELSE 0]
MCSymmetry == Permutations(Adders) \cup Permutations({tc1, tc2})

(* A bound: the entity, the suite and the artifacts change at most four    *)
(* times altogether.                                                       *)
FewEdits == version[entity] + Len(suite) + Len(project.arts) <= 4
=============================================================================
