----------------------------- MODULE GitCommand -----------------------------
(***************************************************************************)
(* classify (crates/ofw-intent/src/lib.rs): the words of a command are     *)
(* read one by one against the table of interpreted git subcommands and    *)
(* become an operation with its path candidates, or one reason.            *)
(*                                                                         *)
(* Data abstraction.  A word is an atom; what the reader looks at inside a *)
(* word (an opening dash, a colon) is a set of words.  MAX_PATH_OPERANDS   *)
(* is a parameter.                                                         *)
(***************************************************************************)
EXTENDS Naturals, Sequences

CONSTANTS
    Words,              \* the words a command may hold
    Dashed,             \* those that open with a dash
    Colons,             \* those with a colon in them
    MaxPathOperands,    \* MAX_PATH_OPERANDS
    MaxWords            \* bound: the words looked at

\* INTERPRETED_SUBCOMMANDS: the flags and the operands of each.
Subcommands == {"status", "rev-parse", "log", "diff"}
Flags ==
    [s \in Subcommands |->
       CASE s = "status" ->
              {"-s", "--short", "--porcelain", "-b", "--branch", "--long"}
         [] s = "rev-parse" ->
              {"--show-toplevel", "--absolute-git-dir", "--git-dir",
               "--is-inside-work-tree"}
         [] s = "log" ->
              {"--oneline", "--stat", "--name-only", "--name-status", "--no-color"}
         [] s = "diff" ->
              {"--stat", "--name-only", "--name-status", "--cached", "--staged",
               "--no-color"}]
TakesPathspecs == {"log", "diff"}

WordsAssumption ==
    /\ Dashed \subseteq Words /\ Colons \subseteq Words
    /\ Dashed \cap Subcommands = {}
    /\ {MaxPathOperands, MaxWords} \subseteq Nat

VARIABLES
    words,              \* history: the words read so far
    profile,            \* the subcommand whose row of the table applies
    seen,               \* flags seen
    separator,          \* separator_seen
    operands,           \* path_candidates
    class               \* Reading, Supported or an UnsupportedReason

commandVars == <<words, profile, seen, separator, operands, class>>

RefuseCommand(reason) ==
    /\ class' = reason
    /\ UNCHANGED <<profile, seen, separator, operands>>
-----------------------------------------------------------------------------
CommandInit ==
    /\ words = <<>>
    /\ profile = "none"
    /\ seen = {}
    /\ separator = FALSE
    /\ operands = <<>>
    /\ class = "Reading"

Program(w) ==
    /\ words = <<>>
    /\ IF w = "git" THEN UNCHANGED <<profile, seen, separator, operands, class>>
                    ELSE RefuseCommand("ProgramUnsupported")

Subcommand(w) ==
    /\ Len(words) = 1
    /\ IF w \in Dashed THEN RefuseCommand("GlobalOptionRejected")
       ELSE IF w \notin Subcommands THEN RefuseCommand("SubcommandUnsupported")
       ELSE profile' = w /\ UNCHANGED <<seen, separator, operands, class>>

\* check_pathspec, after the bound.
Pathspec(w) ==
    /\ separator
    /\ IF Len(operands) >= MaxPathOperands THEN RefuseCommand("TooManyPathOperands")
       ELSE IF w \in {""} \cup Colons THEN RefuseCommand("PathspecUnsupported")
       ELSE operands' = Append(operands, w)
              /\ UNCHANGED <<profile, seen, separator, class>>

\* Where the separator begins; EverySeparator is the mutation that takes a
\* later -- for one too, so that no file of that name is ever resolved.
EverySeparator(w) == w = "--"
Separates(w) == w = "--" /\ ~separator

Separator(w) ==
    /\ Separates(w)
    /\ IF profile \in TakesPathspecs
         THEN separator' = TRUE /\ UNCHANGED <<profile, seen, operands, class>>
         ELSE RefuseCommand("SeparatorNotAccepted")

Flag(w) ==
    /\ ~separator
    /\ IF w \notin Flags[profile] THEN RefuseCommand("ArgumentNotAllowlisted")
       ELSE IF w \in seen THEN RefuseCommand("ArgumentRepeated")
       ELSE seen' = seen \cup {w}
              /\ UNCHANGED <<profile, separator, operands, class>>

Argument(w) ==
    /\ Len(words) >= 2
    /\ IF Separates(w) THEN Separator(w) ELSE Pathspec(w) \/ Flag(w)

ReadWord(w) ==
    /\ class = "Reading"
    /\ Len(words) < MaxWords
    /\ words' = Append(words, w)
    /\ Program(w) \/ Subcommand(w) \/ Argument(w)

\* The command has no further word.
FinishCommand ==
    /\ class = "Reading"
    /\ class' = IF words = <<>> THEN "ProgramUnsupported"
                ELSE IF Len(words) = 1 THEN "SubcommandMissing"
                ELSE "Supported"
    /\ UNCHANGED <<words, profile, seen, separator, operands>>

CommandNext == FinishCommand \/ \E w \in Words : ReadWord(w)

CommandSpec == CommandInit /\ [][CommandNext]_commandVars

\* The IntentCandidate; that git may run configured programs is not for a row
\* of the table to say.
CommandCandidate ==
    [kind |-> <<"git", profile>>, effect |-> "Read",
     surface |-> "RepositoryConfigControlled", privilege |-> "Standard",
     publication |-> "Contained", paths |-> operands]
-----------------------------------------------------------------------------
\* The property.

\* The first separator of the command, or the position after its last word.
SeparatorWords == {i \in 3..Len(words) : words[i] = "--"}
FirstSeparator ==
    IF SeparatorWords = {} THEN Len(words) + 1
    ELSE CHOOSE i \in SeparatorWords : \A j \in SeparatorWords : i <= j

\* What the closed grammar says of the words alone.
IsCommand ==
    /\ Len(words) >= 2 => words[2] \in Subcommands
    /\ words # <<>> => words[1] = "git"
    /\ \A i \in 3..(FirstSeparator - 1) :
          /\ words[i] \in Flags[words[2]]
          /\ \A j \in 3..(i - 1) : words[j] # words[i]
    /\ SeparatorWords # {} => words[2] \in TakesPathspecs
    /\ \A i \in (FirstSeparator + 1)..Len(words) : words[i] \notin {""} \cup Colons
    /\ Len(words) - FirstSeparator <= MaxPathOperands

\* A command is supported exactly when it is in the grammar, a refusal is
\* final, and the operands are the words after the first separator, all of
\* them: "treating a post-separator --stat as a flag would silently drop a
\* file genuinely named --stat" (classify).
OperandsAreExact ==
    /\ class \in {"Reading", "Supported"} =>
          /\ IsCommand
          /\ operands = SubSeq(words, FirstSeparator + 1, Len(words))
    /\ class \notin {"Reading", "Supported"} => ~IsCommand \/ Len(words) < 2
=============================================================================
