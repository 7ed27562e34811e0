----------------------------- MODULE HookProcess -----------------------------
(***************************************************************************)
(* One process of ofw (crates/ofw-cli/src/main.rs): the hook that Codex    *)
(* starts before every tool call, or the assess command.  The main thread  *)
(* reads the configuration, activates policy, opens the trail, reads the   *)
(* envelope, assesses it, records the assessment and answers; in the hook  *)
(* a watchdog thread answers instead once the deadline has passed.  The    *)
(* first of them to exit ends the process.                                 *)
(*                                                                         *)
(* What the envelope holds is the evidence of the operation it asks for,   *)
(* or Unusable when the adapter, the interpreter or the resolver refuses   *)
(* it.  The trail is open or not, with the health its opening found        *)
(* (AuditSink.tla), and an append to it succeeds or fails.  Death by a      *)
(* signal leaves nothing behind here that another process sees; what it    *)
(* does to the trail is in AuditSink.tla.                                  *)
(***************************************************************************)
EXTENDS PolicyActivation, DecisionCore

CONSTANTS
    Operations,         \* the evidence an envelope may lead to
    Unusable,           \* an envelope that leads to none
    TooLarge,           \* an envelope past MAX_ENVELOPE_BYTES
    None

ASSUME OperationsAssumption == Operations \subseteq Evidence
ASSUME EnvelopesAssumption ==
    /\ {Unusable, TooLarge, None} \cap Operations = {}
    /\ Unusable # TooLarge /\ None \notin {Unusable, TooLarge}

VARIABLES
    mode,               \* "hook" or "assess"
    main,               \* what the main thread does next
    watchdog,           \* "unarmed", "armed", "answering"
    configured,         \* whether there is a trusted configuration
    sink,               \* whether the trail is open
    health,             \* audit_health
    input,              \* the envelope
    assessment,
    recorded,           \* the append to the trail
    denying,            \* the reason main denies with
    stdout,             \* how much of its answer it has written
    stderr,             \* the reasons printed
    unheard,            \* the reasons that stderr did not take
    exit                \* exit code, once the process has ended

processVars == <<mode, main, watchdog, configured, sink, health, input,
                 assessment, recorded, denying, stdout, stderr, unheard, exit>>
vars == <<policyVars, processVars>>

Envelopes == Operations \cup {Unusable, TooLarge}

\* The exit codes: EXIT_OK, EXIT_DENY, a panic nobody catches.
ExitCodes == {"0", "2", "101"}

Assessed(outcome, reason, audit, proven) ==
    [outcome |-> outcome, reason |-> reason, audit |-> audit, proven |-> proven]

\* There is no assessment yet.
Unassessed == Assessed("none", "none", "none", FALSE)

\* pipeline::assess.  UnloadedIsEmpty is the mutation that takes a policy
\* which did not load for an empty one.
UnloadedIsEmpty(policy, place, e, trail) ==
    IF ~place \/ e = Unusable
      THEN Assessed("Indeterminate", "BLOCKED", "not_applicable", FALSE)
      ELSE LET outcome == PolicyOutcome(policy.policy, PipelineFacts(e))
           IN  Assessed(Gated(e, trail, Decide(e, outcome)),
                        Reason(e, trail, outcome), ReportedHealth(e, trail),
                        Provable(e))

Assess(policy, place, e, trail) ==
    IF ~policy.healthy
      THEN Assessed("Indeterminate", policy.reason, "unknown", FALSE)
    ELSE IF ~place \/ e = Unusable
      THEN Assessed("Indeterminate", "BLOCKED", "not_applicable", FALSE)
    ELSE LET outcome == PolicyOutcome(policy.policy, PipelineFacts(e))
         IN  Assessed(Gated(e, trail, Decide(e, outcome)),
                      Reason(e, trail, outcome), ReportedHealth(e, trail),
                      Provable(e))

Init ==
    /\ PolicyInit
    /\ mode \in {"hook", "assess"}
    /\ main = "start"
    /\ watchdog = "unarmed"
    /\ configured = FALSE
    /\ sink = "none" /\ health = "Unhealthy"
    /\ input = None
    /\ assessment = Unassessed
    /\ recorded = "none"
    /\ denying = "none"
    /\ stdout = "empty" /\ stderr = {} /\ unheard = {}
    /\ exit = "running"

Running == exit = "running"
-----------------------------------------------------------------------------
\* The main thread.

\* deny(reason), up to the line on stderr.
Deny(reason) ==
    /\ main' = "deny"
    /\ denying' = reason

\* run_hook with arguments it does not know.
RejectArguments ==
    /\ main = "start" /\ mode = "hook"
    /\ Deny("USAGE_INVALID")
    /\ UNCHANGED <<watchdog, configured, sink, health, input, assessment,
                   recorded, stdout, stderr, unheard, exit>>

\* arm_deadline; assess has none.  NotArmed is the mutation without it.
NotArmed == watchdog' = "unarmed"
Armed == watchdog' = IF mode = "hook" THEN "armed" ELSE "unarmed"

Arm ==
    /\ main = "start"
    /\ main' = "configure"
    /\ Armed
    /\ UNCHANGED <<configured, sink, health, input, assessment, recorded,
                   denying, stdout, stderr, unheard, exit>>

\* thread::spawn panics when there is no thread to be had, and nothing
\* catches that.
SpawnPanics ==
    /\ main = "start" /\ mode = "hook"
    /\ exit' = "101"
    /\ UNCHANGED <<main, watchdog, configured, sink, health, input,
                   assessment, recorded, denying, stdout, stderr, unheard>>

\* trusted_configuration.
Configure ==
    /\ main = "configure"
    /\ main' = "activate"
    /\ configured' \in BOOLEAN
    /\ UNCHANGED <<watchdog, sink, health, input, assessment, recorded,
                   denying, stdout, stderr, unheard, exit>>

\* policy_activation has returned.
TakeActivation ==
    /\ main = "activate" /\ reader = "over"
    /\ main' = "open"
    /\ UNCHANGED <<watchdog, configured, sink, health, input, assessment,
                   recorded, denying, stdout, stderr, unheard, exit>>

\* audit::open_sink: no directory and one that cannot be opened are alike.
NoSink == sink' = "none" /\ health' = "Unhealthy"

OpenSink ==
    /\ main = "open"
    /\ main' = "read"
    /\ \/ NoSink
       \/ sink' = "open" /\ health' \in {"Healthy", "Degraded"}
    /\ UNCHANGED <<watchdog, configured, input, assessment, recorded,
                   denying, stdout, stderr, unheard, exit>>

\* An error of the input: the hook denies, assess reports it.
InputError(reason) ==
    IF mode = "hook"
      THEN Deny(reason) /\ UNCHANGED assessment
      ELSE /\ main' = "answer"
           /\ assessment' = Assessed("Indeterminate", reason,
                                     "not_applicable", FALSE)
           /\ UNCHANGED denying

\* read_bounded_stdin returns, which it does only once the parent closes its
\* end.
ReadInput(envelope) ==
    /\ main = "read"
    /\ input' = envelope
    /\ IF envelope = TooLarge
         THEN InputError("ENVELOPE_TOO_LARGE")
         ELSE main' = "assess" /\ UNCHANGED <<assessment, denying>>
    /\ UNCHANGED <<watchdog, configured, sink, health, recorded, stdout,
                   stderr, unheard, exit>>

InputFails ==
    /\ main = "read"
    /\ InputError("INPUT_READ_FAILED")
    /\ UNCHANGED <<watchdog, configured, sink, health, input, recorded,
                   stdout, stderr, unheard, exit>>

AssessInput ==
    /\ main = "assess"
    /\ assessment' = Assess(activation, configured, input, health)
    /\ main' = "record"
    /\ UNCHANGED <<watchdog, configured, sink, health, input, recorded,
                   denying, stdout, stderr, unheard, exit>>

\* AuditSink::append, if there is a sink; AppendAllows is the mutation that
\* records what goes ahead only.
AppendAllows ==
    IF sink = "none" \/ assessment.outcome # "Allow"
      THEN recorded' = "none"
      ELSE recorded' \in {assessment.outcome, "failed"}
AppendEvent ==
    IF sink = "none" THEN recorded' = "none"
                     ELSE recorded' \in {assessment.outcome, "failed"}

\* audit::record; what it returns is dropped.
Record ==
    /\ main = "record"
    /\ main' = "answer"
    /\ AppendEvent
    /\ UNCHANGED <<watchdog, configured, sink, health, input, assessment,
                   denying, stdout, stderr, unheard, exit>>

\* AskProceeds is the mutation that lets an ask through to the host.
AskProceeds(outcome) == outcome \in {"Allow", "Ask"}
MayProceed(outcome) == outcome = "Allow"

\* The match on the outcome that ends run_hook.
Answer ==
    /\ main = "answer" /\ mode = "hook"
    /\ IF MayProceed(assessment.outcome)
         THEN main' = "allow" /\ UNCHANGED denying
         ELSE Deny(assessment.reason)
    /\ UNCHANGED <<watchdog, configured, sink, health, input, assessment,
                   recorded, stdout, stderr, unheard, exit>>

\* allow: the object is written and flushed, or part of it is.
WriteAllow ==
    /\ main = "allow"
    /\ \/ /\ stdout' = "complete"
          /\ main' = "exit_ok" /\ UNCHANGED denying
       \/ /\ stdout' \in {"empty", "partial"}
          /\ Deny("INTERNAL_FAILURE")
    /\ UNCHANGED <<watchdog, configured, sink, health, input, assessment,
                   recorded, stderr, unheard, exit>>

\* deny's writeln and flush: the line gets to stderr, or it does not and
\* nobody notices, because both results are dropped.  DropReason is the
\* mutation that does not write at all.
DropReason(reason) == UNCHANGED <<stderr, unheard>>
PutReason(reason) ==
    \/ stderr' = stderr \cup {reason} /\ UNCHANGED unheard
    \/ unheard' = unheard \cup {reason} /\ UNCHANGED stderr

WriteDeny ==
    /\ main = "deny"
    /\ PutReason(denying)
    /\ main' = "exit_deny"
    /\ UNCHANGED <<watchdog, configured, sink, health, input, assessment,
                   recorded, denying, stdout, exit>>

\* process::exit of the main thread.
Exit ==
    /\ main \in {"exit_ok", "exit_deny"}
    /\ exit' = IF main = "exit_ok" THEN "0" ELSE "2"
    /\ UNCHANGED <<main, watchdog, configured, sink, health, input,
                   assessment, recorded, denying, stdout, stderr, unheard>>

\* run_assess prints the decision as JSON; a write that fails is ignored.
PrintAssessment ==
    /\ main = "answer" /\ mode = "assess"
    /\ stdout' \in {"empty", "partial", "complete"}
    /\ main' = "exit_ok"
    /\ UNCHANGED <<watchdog, configured, sink, health, input, assessment,
                   recorded, denying, stderr, unheard, exit>>

Guarded == {"configure", "activate", "open", "read", "assess", "record"}

\* A panic: the hook catches it and denies, assess does not.
Panic ==
    /\ main \in Guarded
    /\ IF mode = "hook" THEN Deny("INTERNAL_FAILURE") /\ UNCHANGED exit
                        ELSE exit' = "101" /\ UNCHANGED <<main, denying>>
    /\ UNCHANGED <<watchdog, configured, sink, health, input, assessment,
                   recorded, stdout, stderr, unheard>>
-----------------------------------------------------------------------------
\* The watchdog thread.

WatchdogDenies ==
    /\ watchdog = "armed"
    /\ watchdog' = "answering"
    /\ PutReason("DEADLINE_EXCEEDED")
    /\ UNCHANGED <<main, configured, sink, health, input, assessment,
                   recorded, denying, stdout, exit>>

WatchdogExits ==
    /\ watchdog = "answering"
    /\ exit' = "2"
    /\ UNCHANGED <<main, watchdog, configured, sink, health, input,
                   assessment, recorded, denying, stdout, stderr, unheard>>

Watchdog == WatchdogDenies \/ WatchdogExits

Waits == (\E envelope \in Envelopes : ReadInput(envelope)) \/ InputFails

Works ==
    \/ RejectArguments \/ Arm \/ SpawnPanics \/ Configure \/ TakeActivation
    \/ OpenSink \/ AssessInput \/ Record \/ Answer \/ WriteAllow
    \/ WriteDeny \/ Exit \/ PrintAssessment \/ Panic

ProcessStep ==
    /\ Running
    /\ Works \/ Waits \/ Watchdog
    /\ UNCHANGED <<policyVars, mode>>

ActivationStep ==
    /\ Running /\ main = "activate"
    /\ Activate
    /\ UNCHANGED processVars

OperatorStep ==
    /\ Running
    /\ Operate
    /\ UNCHANGED processVars

Next == ProcessStep \/ ActivationStep \/ OperatorStep

Spec == Init /\ [][Next]_vars

\* The watchdog thread runs once it is started.  Nothing obliges the main
\* thread to get anywhere: the parent may keep stdin open and the file system
\* may not answer.
Fairness == WF_vars(ProcessStep /\ Watchdog)

FairSpec == Spec /\ Fairness
-----------------------------------------------------------------------------
TypeOK ==
    /\ PolicyTypeOK
    /\ mode \in {"hook", "assess"}
    /\ main \in Guarded \cup {"start", "answer", "allow", "deny", "exit_ok",
                              "exit_deny"}
    /\ watchdog \in {"unarmed", "armed", "answering"}
    /\ configured \in BOOLEAN
    /\ sink \in {"none", "open"} /\ health \in Healths
    /\ sink = "none" <=> health = "Unhealthy"
    /\ input \in Envelopes \cup {None}
    /\ assessment.outcome \in {"none", "Allow", "Ask", "Deny", "Indeterminate"}
    /\ assessment.proven \in BOOLEAN
    /\ recorded \in {"none", "failed", "Allow", "Ask", "Deny", "Indeterminate"}
    /\ stdout \in {"empty", "partial", "complete"}
    /\ stderr \cup unheard \subseteq {denying, "DEADLINE_EXCEEDED"}
    /\ exit \in ExitCodes \cup {"running"}

\* The reasons the process gave, whether or not stderr took them.
Told == stderr \cup unheard

\* "No branch reaches exit 0 without an explicit allow decision" (main.rs),
\* nor without the whole of the allow object on stdout.  Whichever thread
\* exits with 2 gave its reason first, which is missing from stderr only where
\* stderr did not take it; and a host that has read a whole allow object gets
\* exit 2 after all only because the deadline passed.
AnswersAreWhole ==
    mode = "hook" =>
        /\ exit = "0" => assessment.outcome = "Allow" /\ stdout = "complete"
        /\ exit = "2" => stderr # {} \/ unheard # {}
        /\ exit = "2" /\ stdout = "complete" => "DEADLINE_EXCEEDED" \in Told

\* A tool call goes ahead by the hook's answer only if supplied policy could
\* be loaded, and no rule of a bundle that stood untouched while it was loaded
\* can apply to the operation.
AllowHonoursPolicy ==
    mode = "hook" /\ exit = "0" =>
        /\ activation.healthy
        /\ located =>
             \A f \in DOMAIN since.unchanged \ Links :
                /\ since.unchanged[f] # Damaged
                /\ \A r \in since.unchanged[f].rules :
                      NoMatch(r, PipelineFacts(input))

\* The reasons that no assessment gives: the arguments or the input are at
\* fault, a panic or a failed write of the allow object, the watchdog.
InputReasons == {"ENVELOPE_TOO_LARGE", "INPUT_READ_FAILED"}
Overtaking ==
    InputReasons \cup {"USAGE_INVALID", "INTERNAL_FAILURE", "DEADLINE_EXCEEDED"}

\* An assessment has been given as the answer: printed by assess, an allow
\* object begun by the hook, or a denial with a reason of the assessment's own.
Answered ==
    \/ /\ stdout # "empty"
       /\ mode = "hook" \/ assessment.reason \notin InputReasons
    \/ Told \ Overtaking # {}

\* "Record before the process exits" (main.rs): an assessment that is given as
\* the answer, a denial as well as an allow, was offered to the trail before,
\* if there is one, with the outcome that is answered.  The trail and the host
\* differ in one way only: the trail says Allow and the host is denied, because
\* the allow object could not be written or the deadline came first.  What goes
\* ahead without a healthy trail is a read.
AnswersAreOnRecord ==
    /\ sink = "open" /\ Answered => recorded \in {assessment.outcome, "failed"}
    /\ mode = "hook" /\ exit = "2" /\ recorded = "Allow" =>
         Told \cap {"INTERNAL_FAILURE", "DEADLINE_EXCEEDED"} # {}
    /\ mode = "hook" /\ exit = "0" =>
         /\ recorded \in {"Allow", "failed", "none"}
         /\ input.effect # "Read" => sink = "open" /\ health = "Healthy"

\* The hook answers even if its parent never closes stdin and the file system
\* never returns (arm_deadline).
HookAnswers == mode = "hook" /\ main = "configure" ~> ~Running
=============================================================================
