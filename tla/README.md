# A verification development for operation-firewall

operation-firewall (`ofw`) is a hook that a coding agent's host starts before
every tool call. It reads one JSON envelope from stdin, works out what the call
would do, judges that against a built-in baseline and supplied policy, records
the judgement, and lets the call proceed (exit 0 with an allow object on stdout)
or blocks it (exit 2 with a reason on stderr). The host takes any other exit code
for permission to proceed, so every path through the program is part of its
correctness.

This directory holds TLA+ modules translated from the Rust source, the TLC runs
that check them on small instances, and TLAPS proofs for every value of the
constants. All paths below are relative to `src/`.

Contents: [the system](#the-system) · [the modules](#the-modules) ·
[the runs](#the-runs) · [what the runs found](#what-the-runs-found) ·
[the proofs](#the-proofs) · [what is left out](#what-is-left-out) ·
[the plan](#the-plan) · [running it](#running-it)

## The system

| component | source | state | operations | what is hard |
|---|---|---|---|---|
| audit sink | `crates/ofw-audit/src/sink.rs` | the audit directory: active segment, closed segments, quarantine files, lock file; in memory a path and a health | `open` (quarantines a torn line), `append`, `rotate`, `LockGuard::acquire` and its drop | many processes share the directory; nothing but the lock file orders them; writes fail half way, processes are killed, a stale lock must fall and a live one must not |
| policy engine | `crates/ofw-policy/src/lib.rs` | none | validate, compose, evaluate | unknown facts, limits on composition, the attribution of an outcome |
| policy bundle parser | `crates/ofw-policy/src/bundle.rs` | none | `parse_bundle` | all or nothing |
| decision core | `crates/ofw-core/src/lib.rs` | none | proof of a supported operation, baseline, `decide`, evidence from intent | the order of overlapping rows, the ends of the scales |
| audit gate and event | `crates/ofw-audit/src/lib.rs` | none | `gate`, the event and its identifier | a trail that is not healthy |
| contract primitives | `crates/ofw-contracts/src/lib.rs` | none | validated strings, digests, enumerations | what a text must not contain |
| Codex adapter | `crates/ofw-adapter-codex/src/lib.rs` | none | bounded JSON to a normalized envelope; the command out of its `tool_input` | nesting, duplicate keys, surrogate pairs, two readers of one text |
| command interpreter | `crates/ofw-intent/src/lib.rs` | none | tokenizer, git grammar | what is dropped silently, and what order alone tells apart |
| patch interpreter | `crates/ofw-intent/src/patch.rs` | none | apply-patch grammar over lines | a move only behind an update; which effect speaks for a document |
| trusted configuration | `crates/ofw-resolve/src/lib.rs`, `crates/ofw-cli/src/main.rs` | none | from a file or the environment, the file's checks and parser | the file changes between two looks; a key said twice |
| target resolver | `crates/ofw-resolve/src/lib.rs` | none of its own; it observes the file system | `resolve`, `resolve_write_path`, fingerprint, `revalidate` | the file system has links, and changes while it is observed |
| policy activation | `crates/ofw-cli/src/policy.rs` | a snapshot of the policy location | list, read, parse, compose | the operator edits the location meanwhile; every fault is a return |
| assessment pipeline | `crates/ofw-cli/src/pipeline.rs` | none | `assess`, `decided_reason` | which stage decides, and who is blamed |
| audit clock | `crates/ofw-cli/src/audit.rs` | none | the date of an event | leap years and centuries |
| hook and assess process | `crates/ofw-cli/src/main.rs`, `audit.rs` | the process: two threads, stdout, stderr, exit code | `run_hook`, `run_assess`, watchdog, `deny`, `allow`, `record` | the watchdog races the answer; panics; a parent that keeps stdin open |
| JSON writer | `crates/ofw-cli/src/json.rs` | an object under construction | members, nested objects, `finish` | a string that leaves its quotes |
| doctor | `crates/ofw-cli/src/probe.rs`, `main.rs` | a child process and its pipes | the deny probes; a report | a hook that hangs, or answers half |
| tooling | `scripts/` | none | development | – |

How they interact: `main.rs` reads the trusted configuration, activates policy
(`policy.rs`, through the bundle parser and the engine), opens the trail
(`audit.rs`, through the sink), reads stdin, and calls the pipeline: adapter,
interpreter, resolver, `evidence_from_intent`, the engine, `decide`, `gate`.
Then it records and answers. These are calls in one thread. What is concurrent
is outside: a second thread (the watchdog) that may end the process at any
point, other `ofw` processes that share the audit directory, the operator who
edits the policy location, and everybody who changes the file system.

The properties that make each part correct:

- *sink*: appends exclude one another; a lock is held by its creator, outlives it
  only if the creator was killed or could not remove it, and then falls as soon as
  somebody can remove it; no record that was acknowledged disappears; a reader finds whole lines; a damaged line is copied aside before it
  is cut off.
- *engine, core, gate, pipeline*: supplied policy only restricts (ADR 0002); a
  settled outcome is not overturned by a fact learned later; worse consequences
  never get a more lenient baseline; the rules reported as determining an outcome
  are the ones it depends on; a mutation is never allowed without a healthy trail.
- *activation*: a healthy snapshot holds every bundle nobody touched, and one edit is
  seen whole or not at all.
- *process*: exit 0 only with a complete allow that policy, baseline and trail
  agree on; exit 2 always after a reason was given; the record is attempted before
  the answer and says what is answered; the hook ends.
- *readers*: what is accepted is what an independent grammar says of the same
  text, whole and in order, and nothing is repaired or dropped; a refusal is final.
- *pipeline*: an answer blames the part that stopped the call, and records can be
  told apart and put together.
- *resolver*: what it reports is what the operation touches; containment is about
  where things land; a creation overwrites nothing; a fingerprint that is
  unchanged means the same paths.
- *writer, clock, probes*: JSON can be read as nothing but what was written; an event
  is dated as the calendar has it; a probe that passed has seen a denial.

`PROJECT.json` lists the hazards one by one, each with its line and the
properties that are about it.

## The modules

| module | models | extends |
|---|---|---|
| `AuditTrail` | the abstract trail: records arrive whole, one at a time, at the end; an append answers Ok only for a record that is there | |
| `AuditSink` | `sink.rs`, one action per file-system call | |
| `SinkTrail` | the refinement mapping from `AuditSink` to `AuditTrail`, and the circumstances `Calm` in which it is one | `AuditSink` |
| `PolicyEngine` | `ofw-policy/src/lib.rs` as operators | |
| `DecisionCore` | `ofw-core/src/lib.rs`, `gate`, and the last stages of `pipeline.rs` as operators | `PolicyEngine` |
| `MonotonicFloor` | one operation assessed while bundles come and go, facts become known and the operation gets worse: ADR 0002 as action properties | `DecisionCore` |
| `ShellWords` | `tokenize` in `ofw-intent/src/lib.rs`, character by character | `Cuttings` |
| `GitCommand` | `classify` in the same file, word by word | |
| `PatchDocument` | `patch.rs`, line by line | |
| `CodexEnvelope` | `ofw-adapter-codex/src/lib.rs` over JSON tokens, and the second reader over the tokens of `tool_input` | |
| `JsonString` | `parse_string` of the same file over characters | `Cuttings` |
| `TrustedConfiguration` | both loaders (`main.rs`), `from_file`, `parse_configuration` and `new` (`ofw-resolve/src/lib.rs`) | |
| `ContractNames` | the validated strings of `ofw-contracts/src/lib.rs` as operators | |
| `PolicyBundle` | `parse_bundle` in `ofw-policy/src/bundle.rs`, rule by rule, down to the constructors | `ContractNames`, `Cuttings` |
| `PolicyActivation` | `policy.rs` against an operator who edits the location | `PolicyEngine` |
| `FileSystem` | directories, files and links (external): what `std::fs::canonicalize` answers and where a write lands | |
| `TargetResolution` | `resolve` and `revalidate` in `ofw-resolve/src/lib.rs` against a changing file system, one action per `canonicalize` | `FileSystem` |
| `Assessment` | `pipeline.rs` stage by stage, and the event of `audit.rs` | `DecisionCore` |
| `HookProcess` | `main.rs` and `audit.rs`: both threads, composed with the activation and the decision core | `PolicyActivation`, `DecisionCore` |
| `Timestamp` | the calendar of `audit.rs` | |
| `JsonWriter` | `json.rs` over code points | |
| `Probe` | `probe.rs` with the process it starts | |
| `Cuttings` | texts cut into pieces, for stating grammars | |
| `MC…` | instances for TLC; `MCReaders` puts the parts before the decision and behind it side by side | |
| `…_proofs` | the theorems | |

### AuditSink

Each process goes through `idle`, `read` (open reads the active segment),
`quarantine`/`truncate`/`rewrite` (only if the segment ends in an unfinished
line), `opened`, `lock`/`stat`/`break` (the loop of `LockGuard::acquire`),
`measure`/`scan`/`rename` (rotation), `create`/`head`/`tail`/`sync` (the write)
and `release` (the guard's drop, which every return passes). The drop discards the
result of `remove_file`, so it may leave the file behind: `left` remembers the locks
with which that happened, each at the cost of one of the `MaxFaults` failures. The
removal of a stale lock may fail just so, at no cost and any number of times. `Crash`
stands for a kill, `Expire` for the watchdog's `process::exit`; neither runs a
destructor.

A line is two units, a head (some strict prefix) and a tail that ends in the
newline, so that a torn, glued or interleaved line can be told from a whole one.
`write_all` may take effect in two steps because the kernel promises a reader of
the file no more (`TornReads`), and because it may fail after some bytes. Files
are numbered like inodes: a process keeps writing to the file it has open when a
rotation renames it. `std::fs::write` is two steps, the truncation and the
write. All quarantine files are one set of units: the model does not tell when
two of them had the same name. Time is counted in ages: of the lock file, of an
attempt to take the lock, and of the process. A tick never passes the deadline of
an armed watchdog, which is what `process::exit` at the deadline means. With
`Skewed` the modification time of a lock file may lie in the future, where
`elapsed()` fails and the lock is not stale. `LOCK_POLL`, the pause between two
attempts, only spaces them and is left out. Loss of power, which would lose what
`sync_all` did not yet write, is left out too.

`SinkTrail` says what a directory is worth as a trail: `Trail` is the whole lines of
the closed segments and of the active one, in order. While an open is between the
truncation and the rewriting of the active segment, its share of the trail is the
lines it has read and keeps. `Calm` names the circumstances in which `AuditTrail`
is implemented: no running writer loses its lock, and at most one process is killed,
by a signal or by its watchdog, while no other is inside the sink; from then on the
processes come one at a time. What happens in other circumstances is what
`sink_glued`, `sink_open_race` and `sink_stale_race` show.

### PolicyEngine, DecisionCore, MonotonicFloor

A selector is a set of values for each dimension; a scalar fact is the set of its
one value. A dimension whose fact nobody established makes a rule that selects on
it undecided (`Undecided`), as does a path prefix, which no fact resolves. Rows of
the baseline are the clauses of `Baseline` in the order the code tests them.

`MonotonicFloor` has no counterpart in the code as a loop. Its state is what a
decision depends on and its steps change one of these, so that an action property
compares two decisions that differ in one thing. `Supply` and `Withdraw` are what
an operator may do between two calls, `Establish` is a fact becoming known (the
engine is a library that accepts any combination; the pipeline knows its facts
together with the proof), `Worsen` moves to an operation that is at least as bad
in every dimension, by the order `AsBad` that the module states.

### PolicyActivation

Listing is not atomic: a name present all along is seen, one that came or went
meanwhile may be. Reading goes in path order, one file at a time. The bundle
parser's verdict is part of the content: `Damaged` is whatever it rejects, a half
written file included. What is not a regular file (`Links`) is passed over, as
`is_file` on an entry's own type does. Edits happen only between the start of the
listing and the last read: an edit before that is another initial state, one
after it changes nothing the process reads.

### HookProcess

`main` is the step the main thread takes next, `watchdog` the state of the other
thread; whichever exits first sets `exit` and stops both. `deny` discards the results of
writing to stderr, so a reason goes to `stderr` or to `unheard`, which nobody reads. An envelope is the
evidence it leads to, or `Unusable` when adapter, interpreter or resolver refuse
it, or `TooLarge`. Opening the trail and appending to it may succeed or fail as in
`AuditSink`; what a failed or killed append leaves in the directory is in that
module and not repeated here. `assess` mode shares the actions and has no watchdog.
The host is assumed to drain stderr and to wait longer (600 s) than the hook's own
deadline (20 s). Death of the whole process by a signal leaves nothing behind here
and is in `AuditSink`.

The operations of the run are the pipeline's own, whose execution surface is
always present, and two that the core would allow if it were not. The theorem
`PipelineNeverAllows` shows that the former are never allowed, so without the
latter the branches behind an allow would never be taken and the properties about
them would hold for want of a case.

### The readers: CodexEnvelope, JsonString, ShellWords, GitCommand, PatchDocument

Each is the reader's own state machine, which takes its input piece by piece and
may refuse at any of them. The input is a history variable (`text`, `symbols`,
`command`, `words`, `read`), and the property compares the outcome with a grammar
that is stated over that input alone and mentions none of the reader's state: a
command is what can be cut into legal pieces, an envelope what is nested and
separated like JSON, a patch what its lines are in relation to one another. A reader
that drops, repeats, repairs or reorders something disagrees with it.

`CodexEnvelope` keeps the stack of containers the recursion of `parse_value` stands
for, and counts values, members, elements and depth where the code does.
`ToolInputCode` is the second reader, which looks at the slice of the text the first
one kept. The fields are of the three kinds the code has: `Strings` (required, up
to `MAX_IDENTIFIER_BYTES`), `Paths` (up to `MAX_PATH_BYTES`, of which `Nullable` may be
null) and `tool_input`. A string is a text with a size; its inside is `JsonString`, where a
character beyond the basic plane takes two escapes. `ShellWords` has one character for
each class `tokenize` tells apart; `GitCommand` one atom per word, with what it looks
for inside a word (a leading dash, a colon) given as sets. In `PatchDocument` a path
is its components and separators, of which there are two.

### TrustedConfiguration

`configuration_with_provenance` looks for a file in one variable, and if it is named
nothing else decides. `from_file` looks at the metadata and then reads; what the two
looks find is independent, as the file may be replaced in between. The permission
check is the one of Unix.

### ContractNames, PolicyBundle

A document is a header and rules, offered one by one; every value that some check
looks into is there in a form that passes it and in forms that do not. serde stops at
the first thing that is not JSON or not of the type, and everything else is looked at
once the document has been read, in the order of `parse_bundle`. A string nobody looks
into has two lengths, one in bytes (`BytesIn`), which the code measures, and one in
characters (`CharsIn`), which the schema's `maxLength` counts. Of a date the model knows
what each side can tell: its lengths, whether it has the shape the code looks for, whether
it is a `date-time`, and whether its T is a capital.

The properties state what the schema asks of a bundle (`HeaderConforms`, `RulesConform`,
`Dated`, `Signed`) and compare. Code and schema do not agree, so `BundleIsWhole` says how
far they do: what loads has a header and rules that conform, but for its date and its
`key_id`; what conforms is not refused for its values if its lengths are kept in bytes
too and its date has a capital T, which RFC 3339 does not ask for. The differences are
listed under "What the runs found".

### Assessment

`assess` with one action per stage. What adapter and interpreter make of an envelope
depends on its bytes alone and is a constant function, so that an envelope can be sent
again; policy, configuration, resolver and trail are as each call finds them. The
reasons are those of the code, with the place they come from. `Event` is what
`audit.rs` builds; its identifier keeps the digest but for the bits that are
overwritten with the version and the variant of a UUID.

### JsonWriter, Timestamp, Probe

A text is a sequence of code points. The property reads it back by RFC 8259, with a
reader that goes from character to character and knows what it is inside of and what may
come next, and compares what it has read at the end with what was added. There is one way
to go on from each place, so no text has two readings; of the escapes the reader takes
those there are for characters that must be escaped, and refuses the others.
`Timestamp` runs a calendar beside `civil_from_days`. `Probe` is the parent's loop
around `try_wait` against a child that may do anything a process may: exit with any
code, hang, fill a pipe, or leave another process behind that keeps the pipes open.

### FileSystem, TargetResolution

A path is a sequence of names and a file system a function from the paths there
are to directories, files and links. A lookup takes one name after another
(`Onward`: `..` after links, a bound on links, a file in the middle of a path is
an error) until none is left (`Walk`, a recursive function). `Canonical` is the
lookup that `std::fs::canonicalize` performs, `Lands` the one of an editor that
creates what is missing. Between any two calls of the resolver others may put,
replace or remove an entry. A candidate is resolved, and later that one or another,
as an approval might be redeemed for something else; the fingerprints are compared
with `revalidate`. Nothing in the program redeems approvals yet; the library offers
it, with the promise that is checked. A name has a number of bytes, and may be no
UTF-8, which `bounded_utf8` refuses. Digests are taken to be injective.

`seen.steady` says that since the round began no link was changed and none
dangles. The properties have it as a premise instead of "nothing changed": files
and directories may come and go in the middle of a resolution.
`Touches` is where a read or a write ends up, through links. Removing a link acts on
the link itself, while the resolver reports where it leads; the candidates of the
runs therefore remove nothing that may be a link.

## The runs

Deadlock is checked except in `readers`, `hook`, `shell_continuation` and the
resolution runs, where what is modelled ends.

| run | instance | asks |
|---|---|---|
| `sink_faults` | 3 hook processes, 1 append each, every record rotates, torn reads, 1 failing write, sync or removal on drop, 1 kill, watchdogs due after 1 tick, locks stale after more than 1 | `TypeOK`, `MutualExclusion`, `LockHasOwner`, `LiveLockNotJudged`, `AppendNeverErases` |
| `sink_trail` | 2 hook processes, 2 appends each, segments of two records, watchdogs due after 3 ticks, lock times in the future, one death by a kill or a watchdog | `ImplementsTrail` (refinement of `AuditTrail`), `DamageQuarantinedFirst` |
| `sink_live` | 2 processes, 1 failing write, sync or removal on drop, 1 kill, lock times in the future, a stale lock's removal may fail any number of times, fair | `StaleLockFalls`, `LockAttemptEnds` |
| `floor` | 3 files, 4 bundles that match, miss, wait for a fact and reuse identifiers, limits of 2 bundles and 4 rules, 400 initial pairs of operation and health | `AllowIsEarned`, `DeterminingRulesDecide`, `FloorHolds`, `SettledOutcome`, `BaselineBlameStands`, `WorseNotFreer` |
| `hook` | both modes, 2 names, 2 bundles, 1 edit, 3 operations, fair watchdog | `AnswersAreWhole`, `AllowHonoursPolicy`, `AnswersAreOnRecord`, `HookAnswers` |
| `resolution` | 7 candidates and 11 pairs of one approved and one tried, 5 changeable places, the repository reached through a link, a directory with a long name and one that is no UTF-8, limits of 4 components and 7 bytes, 2 changes | `TargetsAreExact`, `ContainmentIsExact`, `CreatesAreNew`, `RevalidationSeesChanges` |
| `readers` | twelve parts side by side: see below | `EnvelopeIsStrict`, `LimitsAreExact`, `ToolInputIsWhole`, `DecodesUtf16`, `WordsAreLiteral`, `OperandsAreExact`, `PatchIsGrammar`, `PatchIsCovered`, `ConfigurationIsWhole`, `BundleIsWhole`, `UntouchedBundlesLoaded`, `SingleEditIsAtomic`, `AnswersBlameTheCulprit`, `RecordsReconcile`, `WritesTheCalendar`, `ReadsBack`, `ProbesTellTheTruth` |
| `sink_open_race`, `sink_stale_race`, `sink_glued`, `resolution_dangling`, `shell_continuation` | see below | one sentence of the documentation each, which the code does not keep |

The parts of `readers` share no state, and a behaviour is one of one part: the union
of their state spaces, not the product. They are

| part | instance |
|---|---|
| envelope | 5 fields, one of each kind at least (a path that may be null and one that may not), repeated, empty or too long; the two strings come in one order and so do the two paths (`Ordered`), `tool_input` is anywhere; it may hold containers to depth 3 with 2 members and 1 element; 8 values, 29 tokens |
| string | 7 symbols, code points on both sides of every boundary of the surrogates |
| command | every text of 5 characters of 8 classes, limits of 4 characters, 1 word and 2 characters in it |
| git | every command of 7 words out of 13, 2 path operands at most |
| patch | every document of 6 lines out of 22, 2 operations at most |
| configuration | 4 lines and every assignment of the variables |
| bundle | 2 rules and one too many, each value in turn out of its pattern, one string with more bytes than it may have characters |
| activation | 4 names, one of them a link, 3 bundles, limits of 2 files and 3 rules, 2 edits |
| pipeline | 2 calls out of 7 envelopes, the empty one among them, under healthy and unhealthy policy |
| clock | 430 days from the beginning of 7 years at the ends of the kinds of century |
| writer | 3 members, nested or not, of 6 strings that try to leave their quotes |
| doctor | 2 probes of commands that allow, deny or die, a deadline of 2 ticks, pipes of 2 pieces |

Why the bounds are enough. In the sink the smallest interesting story takes three
processes: one that holds or left the lock and two that see it stale. One append
per process is what the hook does; two appends in a process exist only in tests
and in the runs where processes take turns. A segment limit of one record makes
every append rotate, one of two records gives segments with something before the
line in question. One kill and one failing write suffice for every single-fault
story; what two faults do is described below. Two closed segments reach the end
of the indices, where rotation fails. In the floor, limits of two bundles and four
rules are exceeded by the catalogue, so refusal happens. Every limit of a reader is
within reach of its inputs, and so is the last input below it. A reader's story is
short: a duplicate takes two members, a misplaced move a line before it and one behind
it, a dropped operand a separator, an operand and another. In the activation four
names exceed the limit of two files, and two edits let a bundle move. In the
resolution two changes allow one inside a round and one between the rounds, or a
replacement and its reversal; a link to itself reaches the limit on links.

Fairness. `sink_live` assumes that a process that is inside a call of the sink
takes steps, that time passes and that a watchdog that is due fires; it does not
assume that anybody opens a sink or appends, nor that a removal ever succeeds. `hook` assumes only that
the watchdog thread runs once it is started: nothing else is needed for `HookAnswers`, and
nothing else could be assumed, as the parent may keep stdin open and a file system
may hang.

What is shown in particular:

- `LiveLockNotJudged` is about two constants in two crates, `LOCK_STALE_AFTER` in
  the sink and `HOOK_DEADLINE` in the process: a lock that was judged stale and is
  still there never belongs to a running hook. It does not say that a running
  writer cannot lose its lock: a breaker removes by name, and the lock of that name
  may be a new one. `usurped` records that this has happened, and
  `MutualExclusion`, `LockHasOwner` and `AppendNeverErases` speak of the time before.
- `LockHasOwner` names the two ways a lock file outlives its append: a kill, and a drop
  that could not remove it. `StaleLockFalls` is about both.
- `LockAttemptEnds` and `StaleLockFalls` make one exception, for the process that fails to
  remove a stale lock again and again: it goes on for ever, which is in the model and
  without the exception refutes both. A lock whose time lies in the future keeps nobody
  past the deadline.
- `AnswersAreWhole` says that a reason was given, not that the host could read it:
  `deny` ignores a stderr that fails. `AnswersAreOnRecord` is about every answer an
  assessment gives, the denials first of all, since today's operations are never allowed
  (`PipelineNeverAllows`). Trail and host differ in one way only: an allow on record is
  denied when its object could not be written or the deadline came first. What `deny`
  says of arguments, of an input that is too large or cannot be read, or after a panic is
  no assessment's answer and need not be on record.
- `LimitsAreExact` is the converse of the limits in `EnvelopeIsStrict`, for those that
  are counted over the whole text: values, nesting, members and elements. That a legal
  envelope is accepted in every other respect is not claimed: the order in which the
  reader looks at things decides which of several errors it names, and numbers have no
  spelling here.
- `ImplementsTrail` in `sink_trail` holds for one death, at whichever step of the
  process that is killed it falls. A second kill can fall between the truncation and the rewriting of the active segment
  (`std::fs::write`, `sink.rs:278`), which loses all its records.
- `SingleEditIsAtomic` has no counterpart for two edits: a restriction that is moved
  from a file that is read later to one that has been read is in neither.
- `PatchIsCovered` is what `CreatesAreNew` rests on: a candidate whose effect is
  `Create` holds nothing but creations, so the resolver may check every path of it for
  being new.
- `RecordsReconcile` says what an identifier can be used for, and what not: an envelope
  that is sent again has the identifier of the first time, and every call made while
  policy could not be activated has that of the empty envelope.
- `WordsAreLiteral` compares with the grammar of the tokenizer's documentation; a shell
  differs in one place, which is `shell_continuation`.
- `ProbesTellTheTruth` says nothing of whether a probe ends, which it need not: see
  below.
- `CreatesAreNew` allows for a file that appears while the creation is being
  resolved; the resolver observes points in time, as its documentation says.

## What the runs found

Each of these runs checks one sentence of the documentation and TLC answers with a
behaviour that contradicts it.

- **`sink_open_race`** – "There is no path where a write silently does not happen"
  (`sink.rs:20-21`). An open that finds a torn line rewrites the active segment from
  what it read, without the lock. A record appended in between, whose writer was told
  Ok, is gone.
- **`sink_stale_race`** – "interleaving is possible in that window, and the
  quarantine path is what catches its result" (`sink.rs:100-101`). Two breakers of one
  stale lock interleave their lines so that the segment ends in a newline, and
  quarantining looks only at what follows the last newline.
- **`sink_glued`** – "A record is a whole line or it is not there" (`sink.rs:15`).
  A write fails after some bytes; a process that had opened the sink before appends
  to the torn prefix and answers Ok; the two make one terminated line.
- **`resolution_dangling`** – "a component that does not exist cannot be a link to
  anywhere" (`ofw-resolve/src/lib.rs:824-826`). `canonicalize` fails for a link whose
  target does not exist just as for a missing name, so the resolved target is the
  link's own path while a write lands where the link points.
- **`shell_continuation`** – "Splits a command into literal words, or refuses", with
  the remark that accepting too much is the unsafe error (`ofw-intent/src/lib.rs:91-98`).
  A backslash before a line feed, outside quotes, becomes a line feed in the word,
  where a shell removes both. Inside double quotes the tokenizer refuses it.

Met while modelling and not made into runs:

- a stale lock that cannot be removed is tried again at once, past the look at the
  deadline (`sink.rs:305-307`), so `acquire` outlasts `LOCK_TIMEOUT`, "how long to keep
  trying for the lock before giving up" (`sink.rs:89`), without end where no watchdog is
  armed;
- the watchdog may print its reason between the answer of the main thread and its exit,
  although it "cannot fire after a decision has been emitted" (`main.rs:247-248`);
- `"maxLength": 512` of a rationale (`policy-bundle.schema.json:58`) counts characters
  where `RestrictionRule::new` counts bytes (`ofw-policy/src/lib.rs:246`,
  252 for alternatives, 139 for path prefixes), so a rule that conforms may be refused,
  and with it the snapshot;
- a `key_id` that is missing passes for null, although the schema requires it
  (`policy-bundle.schema.json:20`);
- stderr may not take the reason of an exit 2 (`main.rs:238-239`), where the usage text
  says that every such exit has it on stderr;
- a date with a lower-case t, which RFC 3339 allows, is refused, and one that is only
  shaped like a date-time is loaded (`bundle.rs:227-269`);
- a `key_id` of any length is loaded;
- `thread::spawn` panics when no thread is to be had, before anything catches it
  (`main.rs:250`);
- `assess` prints the health the trail had when it was opened, also after an append that
  failed (`main.rs:399`);
- stdout may hold part of an allow object on exit 2;
- a `.json` entry that is a symbolic link is passed over without a fault
  (`policy.rs:137-143`);
- arguments that are not Unicode panic in `std::env::args`;
- without an audit directory the health is unhealthy where the usage text says degraded
  (`main.rs:115`), and the same text calls the interpreted subset read-only git,
  although patches are in it (`main.rs:111-113`);
- a bundle's selector may be null where the schema wants an array
  (`policy-bundle.schema.json:49-54`);
- a patch that names `a/b` and `a\b` names one file twice on Windows and passes the
  check for repeated paths (`patch.rs:278`);
- a probe has no deadline once its child has exited, and waits for whoever still has the
  pipes open (`probe.rs:125`), although a probe that hangs must not hang `doctor`
  (`probe.rs:24`);
- a probe starts the running executable itself, so that a shim or a wrapper script is
  not on its way (`probe.rs:8-11` says it is).

## The proofs

All theorems hold for every value of the constants that satisfies the named
assumptions. No module has a `RECURSIVE` operator. Where a proof is about a recursive
function, an induction over its argument is an argument about the least
counterexample (`LeastNumber`, which follows from the order of the naturals being
well-founded): so for `FlattenSeq` (`JoinedRecursion`, `FlatRecursion`), for the values in
a text (`ValueRecursion`), for the ways to cut a text (`CuttingsRecursion`), for the words of
a command (`WordsRecursion`), for a reader of JSON (`ReadRecursion`), for the lookup of paths (`WalkRecursion`) and for the prefixes
of a path (`PrefixGrows`).

**Cuttings** (`Cuttings_proofs`; no assumptions). Lemmas only, which the readers share.
`CuttingsAreExact`: the recursive definition gives exactly the sequences of legal pieces
that join to the text, so that a witness is a sequence and its `FlattenSeq`. `UniqueCut`:
where no legal piece begins another (`PrefixFree`), a text has at most one cutting, and of
two cuttings that stand at the same place the shorter begins the longer (`PrefixCut`).
`MappedFlattens`: the values of the pieces grow as the pieces do.

**AuditSink** (`AuditSink_proofs`; assumptions: bounds and timeouts are natural
numbers, the switches Boolean, `Free` no record).

- `TypeCorrect`: `TypeOK`, by one lemma per group of variables (`DiskStep`,
  `LockStep`, …), each with one step per action.
- `ExclusiveAppend`, `LockNotLeaked`: neither `MutualExclusion` nor `LockHasOwner` is
  inductive. `HolderInv` is: until a writer is usurped, the lock file carries the
  record of whoever is inside append, and otherwise that of an append that was killed
  or of one whose drop failed (`left`). Two processes inside would have to own the
  same lock, which names one process.
- `StaleLocksAreDead`: `LiveLockNotJudged` needs three parts. `LockUsed`: a lock file
  belongs to an append that was begun; `LockYoung`: the lock of an append under way
  is no older than the process, so an armed watchdog bounds its age by the deadline;
  `JudgedOver`: the append whose lock was judged stale is over or its process dead,
  and stays so.
- `AppendsOnlyAdd`: `AppendNeverErases` as an action property. A new segment has a file
  of its own (`FreshIndex`), so that a step that is not an open's rewriting lets
  files only grow (`Grows`), and a rotation only renames.
- `SinkIsTrail`: `CalmSpec` implements `AuditTrail`, for any number of processes,
  appends and segments, where a write is one step and no write, sync or removal fails
  (`~TornReads`, `MaxFaults = 0`). The mapping goes through files line by line, so the invariant
  (`CalmInv`) has to say what the active segment looks like at every step: whole lines;
  whole lines and the head of one, whose writer is known; whole lines and the head of
  one whose writer is dead; or what an open has left of it while it repairs
  (`Whole`, `Written`, `Torn`, `Rewritten`). `UnfinishedParts` is the lemma about
  `Unfinished` and `Intact` this takes. Then every step leaves the trail alone
  (`MovingTrail`: also the truncation, the rewriting and the rotation do), except for
  `WriteTail`, which adds the writer's own record at the end (`TailTrail`); only
  `Release` answers Ok, and the record is there by then (`TrailInv`).
- `DamageKept`: in the same circumstances `DamageQuarantinedFirst`, wherever the kill
  falls.

**MonotonicFloor** (in `Decision_proofs`; assumptions: the dimensions are those of
the code, the facts' values are values, bundles are valid, files and rules finitely
many). Monotonicity is a chain: more bundles compose to more rules
(`ComposeMonotone`), more rules evaluate to an outcome at least as strong
(`EvaluateMonotone`), `decide` and `gate` keep the order (`DecideMonotone`,
`GateMonotone`); hence `FloorIsMonotonic`. `FloorTypeCorrect` is the type invariant the
others use. `OutcomesSettle` rests on a rule that
matches or misses doing so under every extension of the facts. `BaselineStands`,
`BaselineIsMonotone`, `AllowsAreEarned`, `AttributionIsExact` prove
the properties of the same run, `UnrecordedStop` proves `UnrecordedMutationsStop`, which
no run checks; `PipelineNeverAllows` is about
`evidence_from_intent`: today's interpreted subset is denied or asked about.

**PolicyActivation** (in `HookProcess_proofs`). `PolicyInv` adds to the types where
an untouched file can be (`Progress`): in the directory, then among the names still to
be read, then among those loaded with the same content. `NoUntouchedBundleDropped`
is its last case. `EditsAreAtomic` is about a run with one edit of one location.
Its invariant `Atomic` says that what has been read, with what the directory
would answer to the names still to be read, is the location before the edit or after
it (`ReadsAs`); before the edit the two are the same, and an edit makes them differ
in a single name (`DifferIn`), which is still to be read or has been.

**TrustedConfiguration** (`Ambient_proofs`; assumption: `SettingsAssumption`).
`ConfigurationWhole`: while a file is parsed, each setting found was said by exactly one
of the lines read (`Agreed`); at the end of the file every key has one.

**Timestamp** (in `Ambient_proofs`; assumption: `ClockAssumption`). `ClockIsCalendar` is
`WritesTheCalendar` for every day from 1970 on. Calendar and clock count the same days
(`ClockInv`): the day `days + 719468` after the first of March of the year nought is the
days of the years before the date's (`BeforeYear`), of the months before
(`BeforeMonth`) and its own. The calendar's next date keeps that (`TomorrowCounts`, from
`MonthsFollow` and `YearsFollow`), and the code's divisions by 1460, 36524 and 146096
find the year whose days these are (`YearOfDay`), so that `civil_from_days` is the
inverse (`CivilInverts`). That a year of an era has a century, a block of four years and
a rest (`YearInCenturies`) is what makes the leap years linear arithmetic.

**Probe** (in `Ambient_proofs`; assumption: `ProbeAssumption`, that an exit code is one
and not the state of a child that has none). `ProbesTruthful` is
`ProbesTellTheTruth`, for any commands, outputs and times. What the last verdict
rests on stays as it was (`Stands`): a pass on a child that is over and on pipes
that are empty and closed, a failure on that or on a deadline that has gone by.

**PolicyBundle** (in `Ambient_proofs`; assumptions: `NamesAssumption`, `CapsAssumption`,
`ProseAssumption`, `DocumentsAssumption`). `BundleWhole` is `BundleIsWhole` for documents
of any length with texts and arrays of any length. The constructors of the code look at the segments between
dots and count the dots; the schema's patterns are about pieces that are joined. That
both say the same is `JoinedSegments`: the last dot takes one piece and one segment off a
text (`LastSegment`, `LastMade`), and what is left is shorter. It gives `NameExact`,
`VersionExact` (whose sign is the first there is, `SignIsFirst`) and, with an array counted
as a set (`CountedOnce`), `RuleExact` and `HeaderExact`: a rule or header is without a fault
exactly when it conforms with its lengths in bytes and has a date of the right shape. The
invariant (`BundleInv`) says how far the document has been looked at (`Converts`) and that
it is decided by exactly that (`Fits`, `Decided`). What the schema says follows on one
side from there being no more characters than bytes (`RuleInCharacters`, from
`ProseAssumption`) and on the other from a `date-time` with a capital T having the shape
(`DatedIsIssued`, from `DocumentsAssumption`).

**PatchDocument** (`Interpreters_proofs`; assumption: `LinesAssumption`). `PatchCovered`
is `PatchIsCovered` for documents of any length. `Covers` relates the two lists the
reader keeps to the directives it has read: paths to paths, and for every directive an
operation at least as severe, because a move takes the place of the update before it.
`DominantIsMost`, that a list of operations has a most severe one, goes through the
four severities in turn. `PatchGrammatical` is `PatchIsGrammar`: the reader sees a line
once and keeps three things of what it has read (`Kept`: was the end read, is a move still
possible, how many paths), the grammar is about the whole document. A line continues a
grammatical document exactly when the reader has no reason against it (`Continues`,
`ReasonIsGrammar`), a line that does not is fatal to every continuation (`PrefixGrows`),
and `check_path`, part by part, accepts the paths the grammar has (`PathGrammar`).

**CodexEnvelope** (`Envelope_proofs`; assumption: `FieldsAssumption`, which says also
that the fields are finitely many, that `tool_input` is none of the strings, that the
name `command` fits its limit and that some nesting is allowed). `EnvelopeStrict` and
`ToolInputWhole` are `EnvelopeIsStrict` and `ToolInputIsWhole` for any fields, limits and
nesting. The grammar defines a value by the values in it, so that it takes an
induction over stretches of the text to make `IsValue` what its definition says
(`ValueRecursion`), and that a value stays one when the text goes on (`ValueStays`). The
reader has no such view: it has a stack. What a frame stands for is `Level`: the parts
of its container but the last are whole, and it has counted and named all that were begun;
what the stack stands for is `Nest`: each container lies in the last part of the one
below. `Inside` adds what the reader is in the middle of (`Progress`, `Naming`) and that
the fields kept are the members that are whole (`Fills`). There is a lemma for each
kind of token the reader goes on with (`KeyTaken` to `EnvelopeClosed`), and one for each
action (`KeyKeeps` to `FinishKeeps`). At the end the stack is empty and `Fills` speaks of the
whole text (`Whole`). `ToolInputWhole` then runs the second reader over a stretch that
is a value and an object (`ObjectJudged`). The limits are beside this: the values
counted are the strings, atoms and containers of the text less the names before its colons
(`CountInv`), and each string is within the limit of the field it stands in (`FieldsFit`).
`LimitsAreExact` has no theorem.

**JsonString** (in `Envelope_proofs`; assumption: `RangesAssumption`, that code points are
scalars, quads 16 bits and limits natural numbers). `StringDecodesUtf16` is `DecodesUtf16`
for strings of any length over any characters. The invariant (`StringInv`) says that the
symbols read are characters of the grammar followed by what has been read of one that is
not complete (`Held`), and that those characters spell, in UTF-16 units, what has been
decoded and the high surrogate that waits for its other half (`Decoded`, `Waiting`). A quad
that is no surrogate completes a character and a unit at once, a high surrogate a character
only (`PairBegun`), and the low one behind it a code point whose encoding is the two
(`PairEncoded`), which is where a forgotten 0x10000 shows.

**ShellWords** (in `Interpreters_proofs`; assumption: `ShellAssumption`, that the literal
characters are none of those the tokenizer tells apart). `ShellWordsAreLiteral` is
`WordsAreLiteral` for commands of any length and any limits, in both directions: what is
accepted has a cutting with these words, and what is refused has none within the limits. The
second needs more than the first: that legal pieces are prefix-free (`LegalPrefixFree`, for
double quotes by the same of what is between them), so that the pieces read so far begin
every cutting of the whole command (`CuttingBegins`), and that words only grow
(`WordsGrow`), so that a limit that is exceeded stays so (`TooLongForAll`). The invariant
(`ShellInv`) is that the characters consumed are legal pieces and a beginning of one more,
with what the mode says of it (`ReadTo`, `Held`, `QuoteRead`), whose words are the tokens and
the word begun (`Begun`); there is a lemma for each mode (`BlankKept` to `DoubleEscapeKept`) and
one for the end (`FinishKept`).

**GitCommand** (in `Interpreters_proofs`; assumption: `WordsAssumption`, where a word with
a dash is no subcommand). `OperandsExact` is `OperandsAreExact` for commands of any
length: what the reader keeps (`KeepsWords`) is determined by the first separator, which
a word read later does not move (`OneMoreWord`, `RestOfAppend`).

**Assessment** (in `Decision_proofs`; assumptions: `ReadingAssumption`, `WorldAssumption`,
and for the second `DigestAssumption`, that digests do not collide, even without the
bits a UUID overwrites). The invariant follows the call that is under way: what has been
passed (`Passed`), whom that leaves to blame (`Blamed`) and whose references the
assessment carries (`Attributes`); an entry of the log satisfies the last two for good.
`CulpritIsBlamed` and `IdentifiersReconcile` read off them.

**HookProcess** (`HookProcess_proofs`). The invariant is `PolicyInv` and
`ProcessInv`: the snapshot is final once a later step depends on it (`Late`), an allow
names an operation that was proven under a healthy snapshot none of whose rules can
apply (`AllowState`), the trail is written between the assessment and the answer, and
each exit code belongs to the thread that exited, whose reason is among `Told`. From it follow `HookTypeCorrect`,
`AnswersWhole`, `AllowsHonourPolicy` (with `NoUntouchedBundleDropped`'s invariant) and
`AnswersOnRecord`.

**JsonWriter** (in `HookProcess_proofs`; assumption: what is written are sequences of code
points, `TextAssumption`). A reader that goes through `a \o b` ends where one does that
goes through `b` behind `a` (`AfterConcat`), so readings are put together like the text.
The spelling of a character takes a reader inside a string to that string with the
character behind it, whatever is around the string (`EscapedReads`, with the four hexadecimal
digits in `FourDigits`); by induction on the string, a quoted text takes one that may
begin a string past that string (`QuotedReads`), and by induction on the list a list of
strings (`EveryListReads`). The invariant `WriterInv` says of every object under
construction that its buffer takes a reader that expects a value, wherever that is, into
an object with the members in its history, before the first or behind the last of them.
It quantifies over all readers, which is what makes it inductive: the text of an object
is written before anyone knows what it becomes a member of. Adding a member keeps it
(`WithReads`), a finished object is one value (`FinishedReads`), and `WrittenReadsBack`
follows.

**FileSystem** (in `TargetResolution_proofs`; assumptions: `..` is no name of an entry, the bound
on links is a natural number). Lemmas only. A lookup that goes on has fewer links left
or fewer names to come (`Shorter`), which gives an induction over lookups
(`LookupInduction`) and makes `Walk` what its definition says (`WalkRecursion`). From it:
the lookup of `p \o q` is the lookup of `p` and then of `q` (`Compose`); where a lookup
ends there is no link on the way (`EndsLinkFree`); a lookup depends on the links alone,
not on the files and directories that come and go (`LedDependsOnLinks`); what exists is
found by both kinds of lookup in the same place (`ExistingFound`), and what `Canonical`
misses, while no link dangles, is led through no link (`MissedIsUnled`), which is the
step of the resolver that `resolution_dangling` is about.

**TargetResolution** (`TargetResolution_proofs`; assumptions: as above, what
there may be in a place is a directory, a file or a link (`NodesAssumption`), and no operand
of a creation or of a patch says `..` (`CandidatesAssumption`), which the patch reader
refuses, `patch.rs:385-390`). Nothing the resolver was told about files and directories
need be true a step later; what keeps is where links lead (`Led`). The invariant says
that of the boundary, the working directory, the ancestor under examination and every
target found (`KeptInv`), that an answer is about the targets (`AnswerInv`), and
of what was checked for being new (`ExactInv`). Then `ResolvedIsTouched`,
`ContainmentExact`, `CreationsAreNew` and `ApprovalsHold` prove the properties of the run
`resolution`. `ContainmentIsExact` has as a premise, besides steady links, that the
repository is still there.

Only model-checked:

- `LimitsAreExact`, the converse of the limits in `EnvelopeIsStrict`;
- the liveness properties `StaleLockFalls`, `LockAttemptEnds` and `HookAnswers`: the
  prover does not do liveness under fairness.

## What is left out

- The report that `doctor` prints around its probes, `version` and the usage text; the
  repository's scripts, schemas, fuzz targets and hooks.
- The spelling of numbers in the envelope, serde's own grammar, the JSON of an event,
  which the compiler derives.
- In the sink: loss of power; a full index space (`sink.rs:238`, 9999 closed segments,
  behind which every append fails; the model's `MaxClosed` makes rotation fail too, but
  no property is about it); quarantine files that collide within a millisecond
  (`sink.rs:181`).
- A `kill()` of the probe's own child that fails (`probe.rs:116` discards its result).
- A linked bundle that is passed over (`policy.rs:143`) is in the model, and no property
  says what an operator may expect of it. No thread for the watchdog (`main.rs:250`) is in
  the model as `SpawnPanics`.
- The age of a snapshot: policy and trail are read before stdin (`main.rs:153`), and the
  deadline bounds by how much.

## The plan

Done: every component of the program, from the envelope to the record, with the
refinement of the trail and the proofs above. What would add most from here:

1. A composition of two hook processes with the sink, so that what `record` offers is
   what a reader of the trail finds.
2. The candidates of `PatchDocument` and `GitCommand` in place of the enumerated ones of
   `MCTargetResolution`.

## Running it

```
tlc -workers 2 -config sink_faults.cfg MCAuditSink.tla
tlapm AuditSink_proofs.tla
```

The runs of `AuditSink` take `MCAuditSink`, `floor` takes `MCMonotonicFloor`, `hook`
`MCHookProcess`, `resolution*` `MCTargetResolution`, `readers` `MCReaders` (with the
bundles of `MCPolicyBundle`) and `shell_continuation` `ShellWords`. The
largest are `sink_faults` with 2.9 million states, `readers` with 1.8, `resolution` with
1.6 and `hook` with 1.4; each takes two to four minutes on two cores.
