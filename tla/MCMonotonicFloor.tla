-------------------------- MODULE MCMonotonicFloor --------------------------
(***************************************************************************)
(* The monotonic floor on small instances: four bundles that between them  *)
(* match, miss, depend on a fact that may stay unknown, reuse a rule       *)
(* identifier across layers and exceed the composition bounds.             *)
(***************************************************************************)
EXTENDS MonotonicFloor, TLC

CONSTANTS f1, f2, f3, git, file, directory

MCDimensions == {"operation_effect", "target_kinds", "environment"}
MCKinds == {git}
MCTargetKinds == {file, directory}
MCValues == MCKinds \cup Effects \cup Environments \cup Reversibilities
                \cup BlastRadii \cup MCTargetKinds

Symmetry == Permutations(Files)

Anything == [d \in Dimensions |-> {}]

Rule(id, restriction, selects) ==
    [id |-> id, restriction |-> restriction, selects |-> selects,
     paths |-> FALSE]

DenyDirectories ==
    Rule("r1", "Deny", [Anything EXCEPT !["target_kinds"] = {directory}])
AskRemote ==
    Rule("r1", "Ask", [Anything EXCEPT !["environment"] = {"Production"}])
DenyDeletes ==
    Rule("r2", "Deny", [Anything EXCEPT !["operation_effect"] = {"Delete"},
                                        !["environment"] = {"Production"}])
AskWrites ==
    Rule("r2", "Ask", [Anything EXCEPT !["operation_effect"] =
                                            {"Update", "Delete"}])
DenyPaths ==
    [Rule("r3", "Deny", [Anything EXCEPT !["environment"] = {"Production"}])
       EXCEPT !.paths = TRUE]

Bundle(layer, id, rules) == [layer |-> layer, id |-> id, rules |-> rules]

MCCatalogue ==
    {Bundle("Organization", "b1", {DenyDirectories, DenyDeletes}),
     Bundle("User", "b1", {AskWrites}),
     Bundle("Repository", "b1", {AskRemote, AskWrites}),
     Bundle("Repository", "b1", {DenyPaths})}

MCOperations ==
    {o \in [evidence :
              [kind : {git}, effect : {"Read", "Update", "Delete"},
               surface : Surfaces, targets : {"Complete"},
               containment : Containments,
               privilege : {"Standard"},
               publication : {"NotApplicable"},
               reversibility : {"Reversible", "Irreversible"},
               blast : {"Single", "Broad", "Unbounded", "Unknown"},
               environment : {"Local", "Production"}],
            kinds : {{file, directory}}] :
        \* A read changes nothing, so it is reversible; one operation of each
        \* effect that nothing else speaks against stands for those that
        \* cannot be proven.
        /\ o.evidence.effect = "Read" => o.evidence.reversibility = "Reversible"
        /\ o.evidence.effect = "Delete"
             => o.evidence.reversibility = "Irreversible"
        /\ o.evidence.blast = "Unknown" =>
              /\ o.evidence.containment = "RepositoryLocal"
              /\ o.evidence.environment = "Local"
              /\ o.evidence.surface = "None"}
=============================================================================
