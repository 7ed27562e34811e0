------------------------------ MODULE MCReaders ------------------------------
(***************************************************************************)
(* Everything the program reads before it decides and writes afterwards,   *)
(* on small instances: the envelope and its strings, the command in it,    *)
(* the patch document, the trusted configuration, policy bundles and the   *)
(* location they are in; the pipeline that passes from one to the next;    *)
(* the JSON and the time it writes, and the probes of doctor.  The parts   *)
(* share no state, so a behaviour is one of one part: part says which.     *)
(* All have variables of their own.                                        *)
(***************************************************************************)
EXTENDS PolicyActivation, TrustedConfiguration, Assessment, PatchDocument,
        GitCommand, CodexEnvelope, Timestamp, Probe, JsonString, ShellWords,
        MCPolicyBundle, JsonWriter

CONSTANT Null

VARIABLE part

vars == <<part, writerVars, policyVars, loaderVars, pipelineVars, patchVars,
          commandVars, envelopeVars, clockVars, probeVars, stringVars, shellVars,
          bundleVars>>
-----------------------------------------------------------------------------
\* Patch documents of at most six lines and two operations.
Line(is, path) == [is |-> is, path |-> path]
DocumentLines ==
    {Line(is, <<>>) : is \in {"Begin", "End", "Unknown", "Body", "Strange"}}
        \cup {Line(is, p) : is \in {"Add", "Update", "Delete", "Move"},
                            p \in {<<"f">>, <<"g">>}}
        \cup {Line("Update", <<"g", "/", "f">>), Line("Add", <<"g", "\\", "f">>),
              Line("Add", <<"..", "/", "f">>), Line("Add", <<"f", "/", "x:y">>),
              Line("Delete", <<"/", "f">>), Line("Update", <<"f", "/", "g", "/", "h">>),
              Line("Delete", <<"C:", "/", "f">>), Line("Add", <<"f", "/">>),
              Line("Add", <<>>)}

\* Envelopes with names of fields and of nothing, values that are right and
\* that are not, and one text that is longer than any name or string may be.
EnvelopeTexts ==
    {"hook_event_name", "tool_name", "tool_input", "cwd", "transcript_path",
     "command", "path", "long", "PreToolUse", "Bash", "", " "}
EnvelopeSize ==
    [t \in EnvelopeTexts |-> CASE t = "long" -> 4 [] t = "path" -> 3
                               [] t = "" -> 0 [] OTHER -> 1]
EnvelopeFields ==
    [hook_event_name |-> {"PreToolUse", "path"}, tool_name |-> {"Bash", ""},
     cwd |-> {"path", "long"}, transcript_path |-> {"path"},
     tool_input |-> {"command", " "}]

\* A location of at most four names, of which one is a link, and three
\* bundles; two state one restriction under different identities.
Selects(dimension, value) ==
    [d \in {"operation_effect", "environment"} |->
        IF d = dimension THEN {value} ELSE {}]
Restriction(id, restriction, dimension, value) ==
    [id |-> id, restriction |-> restriction, paths |-> FALSE,
     selects |-> Selects(dimension, value)]
DenyUpdates == Restriction("r1", "Deny", "operation_effect", "Update")
AskRemote == Restriction("r2", "Ask", "environment", "Production")

BundleCatalogue ==
    {[layer |-> "Organization", id |-> "b1", rules |-> {DenyUpdates}],
     [layer |-> "User", id |-> "b1", rules |-> {DenyUpdates, AskRemote}],
     [layer |-> "User", id |-> "b1", rules |-> {AskRemote}]}

\* Two calls: envelopes the adapter refuses, the empty one among them, a
\* command that is not literal, one the interpreter knows and no arm has a
\* literal for, and two that are interpreted.
Calls == {"e1", "e2", "e3", "e4", "e5", "e6", Null}
ReadAs(adapter, kind, effect) ==
    [adapter |-> adapter, session |-> "s1", kind |-> kind, effect |-> effect]
CallReading ==
    (Null :> ReadAs(<<"Envelope", "InvalidJson">>, "Unsupported", "Read")) @@
    [e1 |-> ReadAs(<<"Envelope", "FieldTooLong">>, "Unsupported", "Read"),
     e2 |-> ReadAs(<<"ToolInput", "UnsupportedTool">>, "Unsupported", "Read"),
     e3 |-> ReadAs(<<"Extracted", "Bash">>, "NotLiteral", "Read"),
     e4 |-> ReadAs(<<"Extracted", "Bash">>, "git.status", "Read"),
     e5 |-> ReadAs(<<"Extracted", "Bash">>, "git.push", "Publish"),
     e6 |-> ReadAs(<<"Extracted", "apply_patch">>, "patch.update_file", "Update")]
CallPolicies ==
    {[healthy |-> FALSE, reason |-> "POLICY_BUNDLE_INVALID", policy |-> {}],
     [healthy |-> TRUE, reason |-> "NONE",
      policy |-> {[identity |-> <<"User", "b1", "r1">>, rule |-> DenyUpdates]}]}
Establishing(blast) ==
    [targets |-> "Complete", containment |-> "RepositoryLocal",
     reversibility |-> "Reversible", blast |-> blast]

CallDigest == [x \in Calls \cup {"s1"} |-> [bulk |-> x, version |-> 7, variant |-> 13]]
CallContexts == {Establishing("Single"), Establishing("Unknown")}

\* Objects of at most three members; strings that try to leave their quotes.
OddTexts == {<<>>, <<34>>, <<97, 92>>, <<10, 31>>, <<92, 117>>, <<44, 58>>}
OddLists == {<<>>, <<<<92>>, <<>>>>}
OddKeys == {<<34, 92>>}
-----------------------------------------------------------------------------
\* What the parts assume of their constants.
ASSUME PartsAssumption ==
    /\ LinesAssumption
    /\ WordsAssumption /\ FieldsAssumption
    /\ SettingsAssumption
    /\ ReadingAssumption /\ WorldAssumption
    /\ CallsAssumption /\ DigestAssumption
    /\ ClockAssumption
    /\ TextAssumption
    /\ ProbeAssumption

\* A part that is not on is in one of its initial states.
Init ==
    /\ part \in {"patch", "git", "envelope", "configuration", "activation", "pipeline",
                 "clock", "doctor", "shell", "string", "bundle", "writer"}
    /\ part # "shell" => commandText = <<>>
    /\ part # "activation" => located = FALSE /\ directory = Empty
    /\ part # "clock" => days = 0 /\ seconds = 0
    /\ part # "envelope" => parsed = "Reading"
    /\ part # "configuration" => named = FALSE
    /\ part # "patch" => oversize = FALSE
    /\ PipelineInit /\ CommandInit /\ ProbeInit /\ StringInit /\ BundleInit
    /\ EnvelopeInit /\ PolicyInit /\ LoaderInit /\ PatchInit /\ ClockInit
    /\ ShellInit /\ WriterInit

ActivationStep ==
    /\ part = "activation" /\ (Activate \/ Operate)
    /\ UNCHANGED <<part, writerVars, loaderVars, pipelineVars, patchVars, commandVars, envelopeVars,
                   clockVars, probeVars, stringVars, shellVars, bundleVars>>
ConfigurationStep ==
    /\ part = "configuration" /\ LoaderNext
    /\ UNCHANGED <<part, writerVars, policyVars, pipelineVars, patchVars, commandVars, envelopeVars,
                   clockVars, probeVars, stringVars, shellVars, bundleVars>>
PipelineStep ==
    /\ part = "pipeline" /\ PipelineNext
    /\ UNCHANGED <<part, writerVars, policyVars, loaderVars, patchVars, commandVars, envelopeVars,
                   clockVars, probeVars, stringVars, shellVars, bundleVars>>
PatchStep ==
    /\ part = "patch" /\ PatchNext
    /\ UNCHANGED <<part, writerVars, policyVars, loaderVars, pipelineVars, commandVars, envelopeVars,
                   clockVars, probeVars, stringVars, shellVars, bundleVars>>
GitStep ==
    /\ part = "git" /\ CommandNext
    /\ UNCHANGED <<part, writerVars, policyVars, loaderVars, pipelineVars, patchVars, envelopeVars,
                   clockVars, probeVars, stringVars, shellVars, bundleVars>>
\* Bound: the two strings of an envelope come in one order, and so do the two
\* paths; tool_input is anywhere between them.
Ordered ==
    /\ field = "tool_name" => "hook_event_name" \in DOMAIN fields
    /\ field = "transcript_path" => "cwd" \in DOMAIN fields
EnvelopeStep ==
    /\ part = "envelope" /\ EnvelopeNext /\ Ordered'
    /\ UNCHANGED <<part, writerVars, policyVars, loaderVars, pipelineVars, patchVars, commandVars,
                   clockVars, probeVars, stringVars, shellVars, bundleVars>>
ClockStep ==
    /\ part = "clock" /\ NextDay
    /\ UNCHANGED <<part, writerVars, policyVars, loaderVars, pipelineVars, patchVars, commandVars,
                   envelopeVars, probeVars, stringVars, shellVars, bundleVars>>
DoctorStep ==
    /\ part = "doctor" /\ ProbeNext
    /\ UNCHANGED <<part, writerVars, policyVars, loaderVars, pipelineVars, patchVars, commandVars,
                   envelopeVars, clockVars, stringVars, shellVars, bundleVars>>
StringStep ==
    /\ part = "string" /\ StringNext
    /\ UNCHANGED <<part, writerVars, policyVars, loaderVars, pipelineVars, patchVars, commandVars,
                   envelopeVars, clockVars, probeVars, shellVars, bundleVars>>
ShellStep ==
    /\ part = "shell" /\ ShellNext
    /\ UNCHANGED <<part, writerVars, policyVars, loaderVars, pipelineVars, patchVars, commandVars,
                   envelopeVars, clockVars, probeVars, stringVars, bundleVars>>
BundleStep ==
    /\ part = "bundle" /\ BundleNext
    /\ UNCHANGED <<part, writerVars, policyVars, loaderVars, pipelineVars, patchVars, commandVars,
                   envelopeVars, clockVars, probeVars, stringVars, shellVars>>
WriterStep ==
    /\ part = "writer" /\ WriterNext
    /\ UNCHANGED <<part, policyVars, loaderVars, pipelineVars, patchVars, commandVars, envelopeVars,
                   clockVars, probeVars, stringVars, shellVars, bundleVars>>

Next ==
    \/ ActivationStep \/ ConfigurationStep \/ PipelineStep \/ PatchStep
    \/ GitStep \/ EnvelopeStep \/ ClockStep \/ DoctorStep \/ StringStep
    \/ ShellStep \/ BundleStep \/ WriterStep

Spec == Init /\ [][Next]_vars
=============================================================================
