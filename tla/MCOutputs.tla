------------------------------ MODULE MCOutputs ------------------------------
(* Four artifacts: the first marks a workflow run of the first two, the     *)
(* third a decision run of the first three, which the fourth may join; a    *)
(* run has two to four, a report of one call one or two. Two commits of the *)
(* same second with the same licence texts. A root of one key, and one that *)
(* needs two keys for the root role and another key for the others.         *)
EXTENDS Outputs

MCArtifacts == 1..4
MCWorkflow == 1..2
MCMarked == {1}
MCDecisionRun == 1..3
MCReports == {{1}, {2, 4}}
MCRevisions == {"r1", "r2"}
MCSame == [r \in MCRevisions \cup {"edited"} |-> 1]
MCRoles == Roles \cup {"root"}
MCTemplates ==
  {[keys |-> [r \in MCRoles |-> {1}], need |-> [r \in MCRoles |-> 1]],
   [keys |-> [r \in MCRoles |-> IF r = "root" THEN {1, 2} ELSE {2}],
    need |-> [r \in MCRoles |-> IF r = "root" THEN 2 ELSE 1]]}
=============================================================================
