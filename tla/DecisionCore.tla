---------------------------- MODULE DecisionCore ----------------------------
(***************************************************************************)
(* From evidence to a decision: the supported-operation proof, the         *)
(* built-in baseline and its join with the policy outcome                  *)
(* (crates/ofw-core/src/lib.rs), the audit gate (ofw-audit/src/lib.rs) and *)
(* the last stage of the pipeline that applies them in order               *)
(* (ofw-cli/src/pipeline.rs).                                              *)
(***************************************************************************)
EXTENDS PolicyEngine

CONSTANT Kinds          \* the normalized operation kinds

Effects == {"Read", "Create", "Update", "Delete", "Move", "Execute",
            "PermissionChange", "Publish", "UnknownMutation"}
Environments == {"Local", "Development", "Test", "Staging", "Production",
                 "Shared", "Unknown"}
Reversibilities == {"Reversible", "Recoverable", "ConditionallyRecoverable",
                    "Irreversible", "Unknown"}
BlastRadii == {"Single", "Bounded", "Broad", "Unbounded", "Unknown"}
Surfaces == {"None", "Present"}
Completeness == {"Complete", "Incomplete"}
Containments == {"RepositoryLocal", "CrossBoundary"}
Privileges == {"Standard", "Elevated", "SecurityControl"}
Publications == {"NotApplicable", "Safe", "Unsafe"}

\* OperationEvidence.
Evidence ==
    [kind : Kinds, effect : Effects, surface : Surfaces,
     targets : Completeness, containment : Containments,
     privilege : Privileges, publication : Publications,
     reversibility : Reversibilities, blast : BlastRadii,
     environment : Environments]

Healths == {"Healthy", "Degraded", "Unhealthy", "Unknown"}
-----------------------------------------------------------------------------
\* SupportedOperationProof::new.
Provable(e) ==
    /\ e.targets = "Complete"
    /\ e.effect # "UnknownMutation"
    /\ e.reversibility # "Unknown"
    /\ e.blast # "Unknown"
    /\ e.environment # "Unknown"

\* A deletion that is too wide; BroadDelete forgets the wider of the two.
BroadDelete(e) == e.effect = "Delete" /\ e.blast = "Broad"
WideDelete(e) == e.effect = "Delete" /\ e.blast \in {"Broad", "Unbounded"}

DenyRow(e) ==
    \/ e.privilege \in {"Elevated", "SecurityControl"}
    \/ e.containment = "CrossBoundary"
    \/ e.publication = "Unsafe"
    \/ e.effect \in {"Execute", "PermissionChange"}
    \/ WideDelete(e)

AllowRow(e) ==
    /\ e.environment \in {"Local", "Development", "Test"}
    /\ e.blast \in {"Single", "Bounded"}
    /\ e.surface = "None"
    /\ \/ e.effect = "Read"
       \/ /\ e.effect \in {"Create", "Update"}
          /\ e.reversibility = "Reversible"
          /\ e.containment = "RepositoryLocal"

\* SupportedOperationProof::baseline; the deny rows come first.
AllowRowsFirst(e) ==
    IF AllowRow(e) THEN "Allow" ELSE IF DenyRow(e) THEN "Deny" ELSE "Ask"
Baseline(e) ==
    IF DenyRow(e) THEN "Deny" ELSE IF AllowRow(e) THEN "Allow" ELSE "Ask"

\* BaselineRestriction is ordered Allow < Ask < Deny.
Strength == [Allow |-> 0, Ask |-> 1, Deny |-> 2]
Join(x, y) == IF Strength[x] < Strength[y] THEN y ELSE x

\* decide, for an operation whose evidence is e.
Decide(e, outcome) ==
    IF ~Provable(e) \/ outcome = "Indeterminate" THEN "Indeterminate"
    ELSE IF outcome = "NoRestriction" THEN Baseline(e)
    ELSE Join(Baseline(e), outcome)

\* evidence_from_intent: what the resolver established, with the risks that
\* every interpreted command carries.
EvidenceFromIntent(kind, effect, resolved) ==
    [kind |-> kind, effect |-> effect, surface |-> "Present",
     targets |-> resolved.targets, containment |-> resolved.containment,
     privilege |-> "Standard", publication |-> "NotApplicable",
     reversibility |-> resolved.reversibility, blast |-> resolved.blast,
     environment |-> resolved.environment]

-----------------------------------------------------------------------------
\* The value of each dimension for operation o, its evidence and the
\* kinds of its targets.
ValueOf(o) ==
    [operation_kind |-> {o.evidence.kind},
     operation_effect |-> {o.evidence.effect},
     target_kinds |-> o.kinds,
     environment |-> {o.evidence.environment},
     reversibility |-> {o.evidence.reversibility},
     blast_radius |-> {o.evidence.blast}]

\* OperationFacts as evaluate builds them.
FactsOf(o, established) ==
    [d \in Dimensions |->
        IF d \in established THEN Known(ValueOf(o)[d]) ELSE Unknown]

\* Its facts in the pipeline, where the target kinds are never established.
PipelineFacts(e) ==
    FactsOf([evidence |-> e, kinds |-> {}], Dimensions \ {"target_kinds"})

\* The audit gate.
Gate(effect, health) ==
    IF health = "Healthy" THEN "Proceed"
    ELSE IF effect = "Read" THEN "ProceedDegraded"
    ELSE "Indeterminate"

\* The end of assess: the decision as it leaves the pipeline.
Gated(e, health, decided) ==
    IF Provable(e) /\ Gate(e.effect, health) = "Indeterminate"
      THEN "Indeterminate"
      ELSE decided

\* decided_reason; AlwaysBaseline never names policy.
AlwaysBaseline(decided, outcome) ==
    CASE decided = "Allow" -> "OPERATION_PROVEN"
      [] decided = "Ask" -> "APPROVAL_REQUIRED"
      [] decided = "Deny" -> "BASELINE_DENIED"
      [] decided = "Indeterminate" -> "POLICY_INDETERMINATE"
DecidedReason(decided, outcome) ==
    CASE decided = "Allow" -> "OPERATION_PROVEN"
      [] decided = "Ask" -> "APPROVAL_REQUIRED"
      [] decided = "Deny" -> IF outcome = "Deny" THEN "POLICY_DENIED"
                                                 ELSE "BASELINE_DENIED"
      [] decided = "Indeterminate" -> "POLICY_INDETERMINATE"

Reason(e, health, outcome) ==
    IF ~Provable(e) THEN "OPERATION_NOT_PROVABLE"
    ELSE IF Gate(e.effect, health) = "Indeterminate"
      THEN "AUDIT_UNAVAILABLE_FOR_MUTATION"
    ELSE DecidedReason(Decide(e, outcome), outcome)

\* audit_health of the assessment.
ReportedHealth(e, health) ==
    IF ~Provable(e) THEN "not_applicable"
    ELSE CASE Gate(e.effect, health) = "Proceed" -> "healthy"
           [] Gate(e.effect, health) = "ProceedDegraded" -> "degraded"
           [] OTHER -> "unhealthy"
=============================================================================
