-------------------------------- MODULE Probe --------------------------------
(***************************************************************************)
(* The deny probes of doctor (crates/ofw-cli/src/probe.rs): the installed  *)
(* command is started twice as the host would start it, and either denies  *)
(* in time or the probe has not passed.                                    *)
(*                                                                         *)
(* The command may be any program (a truncated install, an older build):   *)
(* it waits for the end of its input or does not, writes into pipes nobody *)
(* reads while it runs, exits with any code, hangs, or leaves a process    *)
(* behind that keeps the pipes.  What it prints is counted in pieces.  The *)
(* probes remove the variable of the audit directory from its environment, *)
(* and HookProcess is about the command itself.                            *)
(***************************************************************************)
EXTENDS Naturals, Sequences

CONSTANTS
    Timeout,            \* PROBE_TIMEOUT, in ticks
    PipeSize,           \* what a pipe holds before a write to it blocks
    ExitCodes           \* exit codes, "signal" among them: no code at all

Deny == "2"             \* EXIT_DENY

ProbeAssumption ==
    /\ {Timeout, PipeSize} \subseteq Nat
    /\ Deny \in ExitCodes /\ ExitCodes \cap {"none", "running", "killed"} = {}

VARIABLES
    results,            \* of the probes so far, as ProbeResult
    step,               \* what the probe that is on does next
    child,              \* the command: "none", "running", "killed" or its code
    waits,              \* it acts on the end of its input only
    eof,                \* the end of its input has been sent
    printed,            \* pieces in its two pipes
    kept,               \* another process has the pipes open
    age                 \* ticks since the command was started

probe == <<results, step>>
command == <<child, waits, eof, printed, kept>>
probeVars == <<probe, command, age>>

NoOutput == [stdout |-> 0, stderr |-> 0]
Running == child = "running"
Over == child \notin {"none", "running"}

ProbeInit ==
    /\ results = <<>>
    /\ step = "spawn"
    /\ child = "none"
    /\ waits = FALSE /\ eof = FALSE
    /\ printed = NoOutput
    /\ kept = FALSE
    /\ age = 0
-----------------------------------------------------------------------------
\* probe_denies.

ProbeReturns(result) == results' = Append(results, result) /\ step' = "over"

\* Command::spawn; current_exe fails before it, for both probes at once.
NoExecutable ==
    /\ step = "spawn" /\ results = <<>>
    /\ results' = <<"Unavailable", "Unavailable">> /\ step' = "over"
    /\ UNCHANGED <<command, age>>

SpawnFails ==
    /\ step = "spawn"
    /\ ProbeReturns("Unavailable")
    /\ UNCHANGED <<command, age>>

Spawn(waiting) ==
    /\ step = "spawn"
    /\ step' = "write"
    /\ child' = "running"
    /\ waits' = waiting
    /\ UNCHANGED <<results, eof, printed, kept, age>>

\* The input is written, or the pipe is broken, and the handle is dropped;
\* HandleKept is the mutation that leaves it open.
HandleKept == eof' = FALSE
HandleDropped == eof' = TRUE

Write ==
    /\ step = "write"
    /\ step' = "poll"
    /\ HandleDropped
    /\ UNCHANGED <<results, child, waits, printed, kept, age>>

\* The command answers: its exit code, an empty stdout and a reason on stderr.
\* CodeAlone is the mutation that looks at the code only.
CodeAlone == child = Deny
Denied == child = Deny /\ printed.stdout = 0 /\ printed.stderr > 0

\* try_wait, and the look at the deadline if the command was still running
\* then; it may be over by now.
PollExited ==
    /\ step = "poll" /\ Over
    /\ step' = "collect"
    /\ UNCHANGED <<results, command, age>>

PollRunning ==
    /\ step = "poll" /\ Running
    /\ step' = "look"
    /\ UNCHANGED <<results, command, age>>

Sleep ==
    /\ step = "look" /\ age < Timeout
    /\ step' = "poll"
    /\ UNCHANGED <<results, command, age>>

Expire ==
    /\ step = "look" /\ age >= Timeout
    /\ ProbeReturns("Failed")
    /\ child' = IF Running THEN "killed" ELSE child
    /\ UNCHANGED <<waits, eof, printed, kept, age>>

\* try_wait or wait_with_output fails; the command is left as it is.
WaitFails ==
    /\ step \in {"poll", "collect"}
    /\ ProbeReturns("Unavailable")
    /\ UNCHANGED <<command, age>>

\* wait_with_output returns once nobody has the pipes open any more.
Collect ==
    /\ step = "collect" /\ ~kept
    /\ ProbeReturns(IF Denied THEN "Passed" ELSE "Failed")
    /\ UNCHANGED <<command, age>>

\* run_deny_probes: the second probe, of another process.
NextProbe ==
    /\ step = "over" /\ Len(results) = 1
    /\ step' = "spawn"
    /\ child' = "none" /\ waits' = FALSE /\ eof' = FALSE
    /\ printed' = NoOutput /\ kept' = FALSE /\ age' = 0
    /\ UNCHANGED results
-----------------------------------------------------------------------------
\* The command, and who it leaves behind.

Awake == Running /\ (waits => eof)

WriteTo(pipe) ==
    /\ Awake \/ kept
    /\ printed[pipe] < PipeSize
    /\ printed' = [printed EXCEPT ![pipe] = @ + 1]
    /\ UNCHANGED <<probe, child, waits, eof, kept, age>>

ExitWith(code) ==
    /\ Awake
    /\ child' = code
    /\ UNCHANGED <<probe, waits, eof, printed, kept, age>>

LeaveBehind ==
    /\ Awake /\ ~kept
    /\ kept' = TRUE
    /\ UNCHANGED <<probe, child, waits, eof, printed, age>>

LetGo ==
    /\ kept
    /\ kept' = FALSE
    /\ UNCHANGED <<probe, child, waits, eof, printed, age>>

\* Time passes; the scheduler may keep the probe from looking at the clock.
Tick ==
    /\ step \in {"poll", "look"}
    /\ age <= Timeout
    /\ age' = age + 1
    /\ UNCHANGED <<probe, command>>

ProbeNext ==
    \/ NoExecutable \/ SpawnFails \/ \E waiting \in BOOLEAN : Spawn(waiting)
    \/ Write \/ PollExited \/ PollRunning \/ Sleep \/ Expire \/ WaitFails
    \/ Collect \/ NextProbe
    \/ \E pipe \in DOMAIN NoOutput : WriteTo(pipe)
    \/ \E code \in ExitCodes : ExitWith(code)
    \/ LeaveBehind \/ LetGo \/ Tick

ProbeSpec == ProbeInit /\ [][ProbeNext]_probeVars
-----------------------------------------------------------------------------
\* The verdict on the last probe is right for good (probe_denies): it has
\* passed only if the command has denied all the way, and nobody is left who
\* could still print; it has failed only if the command did not deny, or not
\* in time and through no waiting of the probe's own making; and a command is
\* left running only when the system would not say what became of it.
ProbesTellTheTruth ==
    step = "over" /\ child # "none" =>
        LET verdict == results[Len(results)]
        IN  /\ verdict = "Passed" =>
                  child = Deny /\ printed.stdout = 0 /\ printed.stderr > 0 /\ ~kept
            /\ verdict = "Failed" =>
                  ~Denied \/ (age >= Timeout /\ eof)
            /\ verdict = "Failed" /\ child = "killed" => (waits => eof)
            /\ Running => verdict = "Unavailable"
=============================================================================
