----------------------------- MODULE Assessment -----------------------------
(***************************************************************************)
(* assess (crates/ofw-cli/src/pipeline.rs) stage by stage, and the audit   *)
(* event that is made of its result (crates/ofw-cli/src/audit.rs,          *)
(* ofw-audit/src/lib.rs): which stage stops a call, what the answer says   *)
(* of it, and whose record it is.                                          *)
(*                                                                         *)
(* What the adapter and the interpreters make of an envelope depends on    *)
(* its bytes alone and is a function here, which CodexEnvelope, GitCommand *)
(* and PatchDocument are about; policy, configuration, file system and     *)
(* trail are as each call finds them.  An envelope may be sent again.      *)
(***************************************************************************)
EXTENDS DecisionCore, Sequences

CONSTANTS
    Envelopes,
    Reading,            \* what adapter and interpreter make of each
    Digest,             \* SHA-256 of an envelope, of a session, of nothing
    Sessions,
    Nothing,            \* the empty input, and the empty session
    Policies,           \* what activation may give: PolicyActivation
    Places,             \* environments that may be configured
    Refusals,           \* bound: the errors of the resolver that are tried
    Contexts,           \* what the resolver may establish besides
    MaxCalls            \* bound: calls

Codes == {"InputTooLarge", "InvalidUtf8", "InvalidJson", "FieldTooLong",
          "UnsupportedTool", "UnsupportedProtocol"}
Tools == {"Bash", "apply_patch"}

\* The kinds each arm of interpret_and_resolve and interpret_patch_and_resolve
\* has a literal for: PROVABLE_OPERATION_KINDS.
Literal(tool) ==
    IF tool = "Bash" THEN {"git.status", "git.rev_parse", "git.log", "git.diff"}
    ELSE {"patch.add_file", "patch.update_file", "patch.delete_file",
          "patch.move_file"}

Uninterpreted == {"NotLiteral", "Unsupported"}

ResolutionErrors ==
    {"OperationKindUnsupported", "EffectUnsupported", "OperandsUnexpectedForKind",
     "PathOperandUnresolvable", "RepositoryBoundaryUnresolvable",
     "WorkingDirectoryUnresolvable", "NonUtf8Path", "PathTooLong",
     "TooManyPathSegments", "TargetKindUnrepresentable", "CreationTargetExists"}

Faults == {"POLICY_LOCATION_UNREADABLE", "POLICY_BUNDLE_INVALID",
           "POLICY_TOO_MANY_BUNDLES", "POLICY_ACTIVATION_UNHEALTHY"}

\* uuid_shaped: a digest without its version nibble, two bits of another lost.
EventId(d) == [bulk |-> d.bulk, variant |-> 8 + (d.variant % 4)]

ReadingAssumption ==
    \A e \in Envelopes :
        \/ Reading[e].adapter \in {"Envelope", "ToolInput"} \X Codes
        \/ /\ Reading[e].adapter \in {"Extracted"} \X Tools
           /\ Reading[e].session \in Sessions
           /\ Reading[e].kind \in Kinds \cup Uninterpreted
           /\ Reading[e].effect \in Effects
WorldAssumption ==
    /\ \A p \in Policies : p.healthy \in BOOLEAN /\ (p.healthy \/ p.reason \in Faults)
    /\ Refusals \subseteq ResolutionErrors
    /\ Places \subseteq Environments \ {"Unknown"}
CallsAssumption == MaxCalls \in Nat

\* SHA-256 has no collisions, and losing six bits of it adds none.
DigestAssumption ==
    \A a, b \in Envelopes \cup {Nothing} :
        EventId(Digest[a]) = EventId(Digest[b]) => a = b

VARIABLES
    stage,              \* what assess does next
    call,               \* the call being assessed, as it finds the world
    assessment,         \* its Assessment
    log                 \* history: calls, their assessments and events

pipelineVars == <<stage, call, assessment, log>>

Idle == [envelope |-> Nothing]
Unassessed == [outcome |-> "none"]

\* AuditReferences::derive.
References(invocation, session) ==
    [invocation |-> Digest[invocation], session |-> Digest[session],
     correlation |-> Digest[invocation]]
Unattributed == References(Nothing, Nothing)

Reads == Reading[call.envelope]
Tool == Reads.adapter[2]
-----------------------------------------------------------------------------
PipelineInit ==
    /\ stage = "idle"
    /\ call = Idle
    /\ assessment = Unassessed
    /\ log = <<>>

Begin(e, policy, place, sink) ==
    /\ stage = "idle" /\ Len(log) < MaxCalls
    /\ call' = [envelope |-> e, policy |-> policy, place |-> place,
                health |-> sink, refusal |-> "none", context |-> Nothing]
    /\ stage' = "policy"
    /\ UNCHANGED <<assessment, log>>

Conclude(outcome, reason, audit, tool, kind, proven, policy, references) ==
    /\ assessment' = [outcome |-> outcome, reason |-> reason, audit |-> audit,
                      tool |-> tool, kind |-> kind, proven |-> proven,
                      policy |-> policy, references |-> references]
    /\ stage' = "record"

\* blocked: no proof, and policy evaluated without any fact.
NoFacts == [d \in Dimensions |-> Unknown]
Blocked(reason, tool, kind, references) ==
    Conclude("Indeterminate", reason, "not_applicable", tool, kind, FALSE,
             PolicyOutcome(call.policy.policy, NoFacts), references)

Pass(next) == stage' = next /\ UNCHANGED assessment

CheckPolicy ==
    /\ stage = "policy"
    /\ IF call.policy.healthy THEN Pass("adapter")
       ELSE Conclude("Indeterminate", call.policy.reason, "unknown", "None", "None",
                     FALSE, "unhealthy", Unattributed)
    /\ UNCHANGED <<call, log>>

AdapterReason(error) ==
    IF error[2] = "UnsupportedTool" THEN "TOOL_UNSUPPORTED"
    ELSE IF error[1] = "ToolInput" THEN "TOOL_INPUT_INVALID"
    ELSE IF error[2] = "InputTooLarge" THEN "ENVELOPE_TOO_LARGE"
    ELSE "ENVELOPE_INVALID"

\* The references of an envelope the adapter refused: its own bytes, and no
\* session.  Anonymous is the mutation that has none.
Anonymous(e) == Unattributed
Refused(e) == References(e, Nothing)

Adapt ==
    /\ stage = "adapter"
    /\ IF Reads.adapter[1] = "Extracted" THEN Pass("intent")
       ELSE Blocked(AdapterReason(Reads.adapter), "None", "None",
                    Refused(call.envelope))
    /\ UNCHANGED <<call, log>>

Own == References(call.envelope, Reads.session)

\* The kind is narrowed to a literal of the program; AsRead is the mutation
\* that takes it from the interpreter.
AsRead(tool, kind) == TRUE
Narrows(tool, kind) == kind \in Literal(tool)

Interpret ==
    /\ stage = "intent"
    /\ IF Reads.kind = "NotLiteral"
         THEN Blocked("COMMAND_NOT_LITERAL", Tool, "None", Own)
       ELSE IF Reads.kind = "Unsupported" \/ ~Narrows(Tool, Reads.kind)
         THEN Blocked("OPERATION_INTERPRETATION_UNSUPPORTED", Tool, "None", Own)
       ELSE IF call.place = "None"
         THEN Blocked("TRUSTED_CONFIGURATION_MISSING", Tool, Reads.kind, Own)
       ELSE Pass("resolve")
    /\ UNCHANGED <<call, log>>

ResolutionReason(error) ==
    IF error \in {"OperationKindUnsupported", "EffectUnsupported"}
      THEN "TARGET_RESOLUTION_UNSUPPORTED"
      ELSE "TARGET_RESOLUTION_INDETERMINATE"

ResolveFails(error) ==
    /\ stage = "resolve"
    /\ call' = [call EXCEPT !.refusal = error]
    /\ Blocked(ResolutionReason(error), Tool, Reads.kind, Own)
    /\ UNCHANGED log

ResolveTo(context) ==
    /\ stage = "resolve"
    /\ call' = [call EXCEPT !.context = context]
    /\ Pass("prove")
    /\ UNCHANGED log

Established ==
    EvidenceFromIntent(Reads.kind, Reads.effect,
        [targets |-> call.context.targets, containment |-> call.context.containment,
         reversibility |-> call.context.reversibility, blast |-> call.context.blast,
         environment |-> call.place])

Prove ==
    /\ stage = "prove"
    /\ IF Provable(Established) THEN Pass("decide")
       ELSE Blocked("OPERATION_NOT_PROVABLE", Tool, Reads.kind, Own)
    /\ UNCHANGED <<call, log>>

DecideCall ==
    /\ stage = "decide"
    /\ LET outcome == PolicyOutcome(call.policy.policy, PipelineFacts(Established))
       IN  Conclude(Gated(Established, call.health, Decide(Established, outcome)),
                    Reason(Established, call.health, outcome),
                    ReportedHealth(Established, call.health),
                    Tool, Reads.kind, TRUE, outcome, Own)
    /\ UNCHANGED <<call, log>>

\* build: the event holds literals, digests and identifiers made of digests.
Event(a, environment, sink) ==
    [id |-> EventId(a.references.invocation),
     type |-> IF a.outcome = "Deny" THEN "Denied" ELSE "Evaluated",
     correlation |-> a.references.correlation,
     actor |-> a.references.session, session |-> a.references.session,
     tool |-> IF a.tool = "None" THEN "unknown" ELSE a.tool,
     outcome |-> a.outcome, environment |-> environment, audit |-> sink]

Environment == IF call.place = "None" THEN "Unknown" ELSE call.place

\* record, which nobody looks at the result of.
Record(written) ==
    /\ stage = "record"
    /\ log' = Append(log,
         [call |-> call, assessment |-> assessment,
          event |-> IF written THEN Event(assessment, Environment, call.health)
                               ELSE Nothing])
    /\ call' = Idle
    /\ assessment' = Unassessed
    /\ stage' = "idle"

PipelineNext ==
    \/ \E e \in Envelopes, policy \in Policies, place \in Places \cup {"None"},
          sink \in Healths \ {"Unknown"} : Begin(e, policy, place, sink)
    \/ CheckPolicy \/ Adapt \/ Interpret
    \/ \E error \in Refusals : ResolveFails(error)
    \/ \E context \in Contexts : ResolveTo(context)
    \/ Prove \/ DecideCall
    \/ \E written \in BOOLEAN : Record(written)

PipelineSpec == PipelineInit /\ [][PipelineNext]_pipelineVars
-----------------------------------------------------------------------------
\* The properties.  Who stopped the call c: the first that could not go on.
Culprit(c) ==
    LET reads == Reading[c.envelope]
    IN  IF ~c.policy.healthy THEN "policy"
        ELSE IF reads.adapter[1] # "Extracted" THEN "adapter"
        ELSE IF reads.kind \notin Literal(reads.adapter[2]) THEN "interpreter"
        ELSE IF c.place = "None" THEN "configuration"
        ELSE IF c.refusal # "none" THEN "resolver"
        ELSE "decision"

\* The reasons each part may give.
AdapterReasons ==
    {"ENVELOPE_TOO_LARGE", "ENVELOPE_INVALID", "TOOL_UNSUPPORTED", "TOOL_INPUT_INVALID"}
InterpreterReasons == {"COMMAND_NOT_LITERAL", "OPERATION_INTERPRETATION_UNSUPPORTED"}
ResolverReasons == {"TARGET_RESOLUTION_UNSUPPORTED", "TARGET_RESOLUTION_INDETERMINATE"}
DecisionReasons ==
    {"OPERATION_NOT_PROVABLE", "AUDIT_UNAVAILABLE_FOR_MUTATION", "APPROVAL_REQUIRED",
     "BASELINE_DENIED", "POLICY_DENIED", "OPERATION_PROVEN", "POLICY_INDETERMINATE"}

Blames(part) ==
    CASE part = "policy" -> Faults
      [] part = "adapter" -> AdapterReasons
      [] part = "interpreter" -> InterpreterReasons
      [] part = "configuration" -> {"TRUSTED_CONFIGURATION_MISSING"}
      [] part = "resolver" -> ResolverReasons
      [] part = "decision" -> DecisionReasons

\* The answer sends its reader to the part that stopped the call: its reason
\* blames the first part that could not go on, the tool is named from the
\* adapter on, the kind from the interpreter on and only as a literal of the
\* program, and only the last part decides anything but Indeterminate.
AnswersBlameTheCulprit ==
    \A i \in DOMAIN log :
        LET a == log[i].assessment
            culprit == Culprit(log[i].call)
        IN  /\ a.reason \in Blames(culprit)
            /\ a.tool = "None" <=> culprit \in {"policy", "adapter"}
            /\ a.kind = "None" <=> culprit \in {"policy", "adapter", "interpreter"}
            /\ a.kind # "None" => a.kind \in Literal(a.tool)
            /\ a.outcome # "Indeterminate" => culprit = "decision" /\ a.proven

\* Records can be told apart and put together (AuditReferences, uuid_shaped):
\* two events have one identifier exactly when they are about the same bytes,
\* and then they agree on the session and the tool.  Calls made while policy
\* could not be activated are recorded as about nothing and share the
\* identifier of the empty input; an envelope that is sent again has the
\* identifier of the first time, whatever is decided then.
Recorded == {i \in DOMAIN log : log[i].event # Nothing}
Attributed == {i \in Recorded : log[i].call.policy.healthy}
RecordsReconcile ==
    /\ \A i, j \in Attributed :
          /\ log[i].event.id = log[j].event.id
                <=> log[i].call.envelope = log[j].call.envelope
          /\ log[i].event.id = log[j].event.id =>
                /\ log[i].event.correlation = log[j].event.correlation
                /\ log[i].event.session = log[j].event.session
                /\ log[i].event.tool = log[j].event.tool
    /\ \A i \in Recorded \ Attributed : \A j \in Attributed :
          log[i].event.id = log[j].event.id <=> log[j].call.envelope = Nothing
    /\ \A i \in Recorded : log[i].event.outcome = log[i].assessment.outcome
=============================================================================
