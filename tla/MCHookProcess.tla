--------------------------- MODULE MCHookProcess ---------------------------
(***************************************************************************)
(* The hook on small instances: two files, two bundles that together       *)
(* exceed the composition bound.  The operations are the pipeline's own,   *)
(* whose execution surface is present, and two that the decision core      *)
(* would allow, for the branches of the hook that wait for such an         *)
(* operation.                                                              *)
(***************************************************************************)
EXTENDS HookProcess, TLC

CONSTANTS r1, r2, b1, git

MCDimensions == {"operation_effect", "target_kinds", "environment"}
MCValues == {git} \cup Effects \cup Environments \cup Reversibilities
                \cup BlastRadii

Rule(id, restriction, dimension, values) ==
    [id |-> id, restriction |-> restriction, paths |-> FALSE,
     selects |-> [d \in Dimensions |->
                    IF d = dimension THEN values ELSE {}]]

DenyUpdates == Rule(r1, "Deny", "operation_effect", {"Update"})
AskRemote == Rule(r2, "Ask", "environment", {"Production"})

MCCatalogue ==
    {[layer |-> "Organization", id |-> b1, rules |-> {DenyUpdates}],
     [layer |-> "User", id |-> b1, rules |-> {DenyUpdates, AskRemote}]}

Resolved(blast) ==
    [targets |-> "Complete", containment |-> "RepositoryLocal",
     reversibility |-> "Reversible", blast |-> blast, environment |-> "Local"]

PipelineUpdate == EvidenceFromIntent(git, "Update", Resolved("Single"))

PipelineOperations == {PipelineUpdate}

MCOperations ==
    PipelineOperations \cup
    {[PipelineUpdate EXCEPT !.surface = "None"],
     [PipelineUpdate EXCEPT !.surface = "None", !.effect = "Read"]}
=============================================================================
