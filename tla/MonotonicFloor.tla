--------------------------- MODULE MonotonicFloor ---------------------------
(***************************************************************************)
(* ADR 0002's hard monotonic floor.  One operation is assessed while the   *)
(* things its decision depends on change under it: bundles are supplied    *)
(* and withdrawn, more facts about it become known, and it is replaced by  *)
(* an operation with worse consequences.  The decision is a function of    *)
(* the state, so an action property compares two assessments that differ   *)
(* in one step.                                                            *)
(*                                                                         *)
(* In the pipeline the facts are known together with the proof, the target *)
(* kinds never (evaluate, ofw-cli/src/pipeline.rs); the engine accepts any *)
(* combination, and so does this module.                                   *)
(***************************************************************************)
EXTENDS DecisionCore

CONSTANTS
    Files,              \* where bundles come from
    Catalogue,          \* the bundles that may be supplied
    TargetKinds,        \* kinds of targets
    Operations          \* the operations that may be assessed

Operation == [evidence : Evidence, kinds : SUBSET TargetKinds]

AllDimensions == {"operation_kind", "operation_effect", "target_kinds",
                  "environment", "reversibility", "blast_radius"}

ASSUME DimensionsAssumption == Dimensions \subseteq AllDimensions
ASSUME ValuesAssumption ==
    Kinds \cup Effects \cup Environments \cup Reversibilities \cup BlastRadii
        \cup TargetKinds \subseteq Values
ASSUME CatalogueAssumption == Catalogue \subseteq Bundles
ASSUME OperationsAssumption == Operations \subseteq Operation
ASSUME FiniteAssumption ==
    IsFiniteSet(Files) /\ \A b \in Catalogue : IsFiniteSet(b.rules)

VARIABLES
    supplied,           \* the bundle each file holds, for the files there are
    operation,          \* the operation under assessment
    known,              \* the dimensions whose fact has been established
    health              \* of the audit sink that will record the decision

vars == <<supplied, operation, known, health>>
-----------------------------------------------------------------------------
Policy == Compose(supplied)
CurrentFacts == FactsOf(operation, known)
Outcome == PolicyOutcome(Policy, CurrentFacts)
Decided == Decide(operation.evidence, Outcome)
Final == Gated(operation.evidence, health, Decided)
FinalReason == Reason(operation.evidence, health, Outcome)

Init ==
    /\ supplied = [f \in {} |-> {}]
    /\ operation \in Operations
    /\ known = {}
    /\ health \in Healths

\* A file with a bundle is added, and the whole still composes.
Supply(f, b) ==
    LET new == [g \in DOMAIN supplied \cup {f} |->
                   IF g = f THEN b ELSE supplied[g]]
    IN  /\ f \notin DOMAIN supplied
        /\ Composes(new)
        /\ supplied' = new
        /\ UNCHANGED <<operation, known, health>>

Withdraw(f) ==
    /\ f \in DOMAIN supplied
    /\ supplied' = [g \in DOMAIN supplied \ {f} |-> supplied[g]]
    /\ UNCHANGED <<operation, known, health>>

\* One more fact is established.
Establish(d) ==
    /\ d \notin known
    /\ known' = known \cup {d}
    /\ UNCHANGED <<supplied, operation, health>>

\* o has at least the consequences of operation, in every dimension.
AsBad(x, y) ==
    \/ x = y
    \/ <<x, y>> \in
         {<<"Standard", "Elevated">>, <<"Standard", "SecurityControl">>,
          <<"RepositoryLocal", "CrossBoundary">>, <<"None", "Present">>,
          <<"NotApplicable", "Unsafe">>, <<"Safe", "Unsafe">>,
          <<"Single", "Bounded">>, <<"Single", "Broad">>,
          <<"Single", "Unbounded">>, <<"Bounded", "Broad">>,
          <<"Bounded", "Unbounded">>, <<"Broad", "Unbounded">>,
          <<"Reversible", "Recoverable">>,
          <<"Reversible", "ConditionallyRecoverable">>,
          <<"Reversible", "Irreversible">>,
          <<"Recoverable", "ConditionallyRecoverable">>,
          <<"Recoverable", "Irreversible">>,
          <<"ConditionallyRecoverable", "Irreversible">>}
             \cup ({"Local", "Development", "Test"} \X
                   {"Staging", "Production", "Shared"})

Worse(e, f) ==
    /\ f.effect = e.effect /\ f.targets = e.targets
    /\ AsBad(e.surface, f.surface)
    /\ AsBad(e.containment, f.containment)
    /\ AsBad(e.privilege, f.privilege)
    /\ AsBad(e.publication, f.publication)
    /\ AsBad(e.reversibility, f.reversibility)
    /\ AsBad(e.blast, f.blast)
    /\ AsBad(e.environment, f.environment)

Worsen(o) ==
    /\ o # operation
    /\ Worse(operation.evidence, o.evidence)
    /\ operation' = o
    /\ UNCHANGED <<supplied, known, health>>

Next ==
    \/ \E f \in Files, b \in Catalogue : Supply(f, b)
    \/ \E f \in Files : Withdraw(f)
    \/ \E d \in Dimensions : Establish(d)
    \/ \E o \in Operations : Worsen(o)

Spec == Init /\ [][Next]_vars
-----------------------------------------------------------------------------
\* Every variable keeps its type, and what is supplied composes.
TypeOK ==
    /\ DOMAIN supplied \subseteq Files
    /\ supplied \in [DOMAIN supplied -> Catalogue]
    /\ Composes(supplied)
    /\ operation \in Operation
    /\ known \subseteq Dimensions
    /\ health \in Healths

\* How restrictive a decision is for the host: indeterminate denies.
Restrictiveness ==
    [Allow |-> 0, Ask |-> 1, Deny |-> 2, Indeterminate |-> 2]

\* "adding any valid bundle or rule cannot reduce the decision on any fixed
\* intent" (ADR 0002): no step that keeps every supplied bundle, and neither
\* the operation nor what is known of it changes, makes the host freer.
FloorHolds ==
    [][(\E f \in Files, b \in Catalogue : Supply(f, b))
         => Restrictiveness[Final'] >= Restrictiveness[Final]]_vars

\* An outcome that is not indeterminate is settled: no fact established later
\* turns it into another one.
SettledOutcome ==
    [][(\E d \in Dimensions : Establish(d)) /\ Outcome # "Indeterminate"
         => Outcome' = Outcome]_vars

\* A decision blamed on the built-in baseline is the baseline's alone: no
\* withdrawal of policy lifts it (decided_reason, pipeline.rs).
BaselineBlameStands ==
    [][(\E f \in Files : Withdraw(f)) /\ FinalReason = "BASELINE_DENIED"
         => FinalReason' = "BASELINE_DENIED"]_vars

\* The baseline never treats an operation with worse consequences more
\* leniently.
WorseNotFreer ==
    [][(\E o \in Operations : Worsen(o))
         /\ Provable(operation.evidence) /\ Provable(operation'.evidence)
         => Strength[Baseline(operation'.evidence)]
              >= Strength[Baseline(operation.evidence)]]_vars

\* "A clean allow exists only when the built-in supported-operation baseline
\* proves the operation safe and no external restriction matches" (ADR 0002),
\* and a mutation is allowed only on a healthy trail (gate).
AllowIsEarned ==
    Final = "Allow" =>
        LET e == operation.evidence
        IN  /\ Provable(e)
            /\ e.surface = "None" /\ e.privilege = "Standard"
            /\ e.containment = "RepositoryLocal" /\ e.publication # "Unsafe"
            /\ \/ e.effect = "Read"
               \/ e.effect \in {"Create", "Update"} /\ health = "Healthy"
            /\ \A r \in Policy : NoMatch(r.rule, CurrentFacts)

\* "A mutation that cannot be recorded is not performed" (pipeline.rs): what
\* is not a read is decided only on a healthy trail.  Proved, in no run.
UnrecordedMutationsStop ==
    Final # "Indeterminate" /\ health # "Healthy"
        => operation.evidence.effect = "Read"

\* The rules listed as determining an outcome are what it depends on: alone
\* they produce it, without them it falls; an indeterminate outcome lists
\* none and disappears with the rules listed as undecided.
DeterminingRulesDecide ==
    LET rules == Determining(Policy, CurrentFacts)
        undecided == IndeterminateRules(Policy, CurrentFacts)
    IN  /\ Outcome \in Restrictions =>
               /\ PolicyOutcome(rules, CurrentFacts) = Outcome
               /\ PolicyOutcome(Policy \ rules, CurrentFacts) # Outcome
        /\ Outcome = "Indeterminate" =>
               /\ rules = {}
               /\ PolicyOutcome(Policy \ undecided, CurrentFacts)
                    \in {"Ask", "NoRestriction"}
        /\ Outcome = "NoRestriction" => rules = {} /\ undecided = {}
=============================================================================
