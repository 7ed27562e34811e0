--------------------------- MODULE PatchDocument ---------------------------
(***************************************************************************)
(* interpret_patch (crates/ofw-intent/src/patch.rs): one apply-patch       *)
(* document is read line by line against a closed table of directives and  *)
(* becomes the operation it would have, or one reason for refusing it.     *)
(*                                                                         *)
(* Data abstraction.  A line is what the reader tells apart: a terminator, *)
(* a directive with its path, another "*** " line, a body line, or a line  *)
(* that is none of these.  A path is the sequence of its components and    *)
(* separators, of which there are two, without the carriage returns at its *)
(* end; lengths in bytes are lengths of such sequences.                    *)
(***************************************************************************)
EXTENDS Naturals, Sequences, FiniteSets

CONSTANTS
    FileNames,          \* components that name a file or a directory
    Drives,             \* components that open with a letter and a colon
    ColonNames,         \* components with a colon further on
    Lines,              \* the lines a document may hold
    MaxPatchLines,      \* MAX_PATCH_LINES
    MaxPatchOperations, \* MAX_PATCH_OPERATIONS
    MaxPatchPath        \* MAX_PATCH_PATH_BYTES

\* FileOperation.
Operations == {"Add", "Update", "Move", "Delete"}
Severity == [Add |-> 0, Update |-> 1, Move |-> 2, Delete |-> 3]
Effect == [Add |-> "Create", Update |-> "Update", Move |-> "Move",
           Delete |-> "Delete"]
Kind == [Add |-> "patch.add_file", Update |-> "patch.update_file",
         Move |-> "patch.move_file", Delete |-> "patch.delete_file"]
Bodies == {"Body", "Strange"}   \* Strange: a shape is_body_line does not read
Headers == {"Begin", "End", "Unknown"}

Separators == {"/", "\\"}
PathParts == FileNames \cup Drives \cup ColonNames \cup Separators \cup {".", ".."}

\* A component is all there is between two separators.
LinesAssumption ==
    /\ FileNames \cap (Drives \cup ColonNames \cup Separators \cup {".", ".."}) = {}
    /\ Lines \subseteq [is : Operations \cup Bodies \cup Headers,
                        path : Seq(PathParts)]
    /\ \A line \in Lines : \A i \in 2..Len(line.path) :
          line.path[i - 1] \in Separators \/ line.path[i] \in Separators
    /\ {MaxPatchLines, MaxPatchOperations, MaxPatchPath} \subseteq Nat
    /\ MaxPatchLines # 0

VARIABLES
    oversize,           \* the document is longer than MAX_PATCH_BYTES
    read,               \* history: the lines read so far
    ops,                \* operations, as the kinds they have by now
    paths,              \* the path candidates
    terminated,         \* *** End Patch has been read
    awaiting,           \* update_awaiting_move
    ended,              \* the document has no further line
    verdict             \* Reading, Supported or the reason for a refusal

patchVars == <<oversize, read, ops, paths, terminated, awaiting, ended, verdict>>

Entries(s) == {s[i] : i \in DOMAIN s}
-----------------------------------------------------------------------------
\* check_path: the absolute forms first, then the first component that is not
\* a name decides; a separator at the end or before another is an empty one.
Unnamed(p, i) ==
    IF p[i] \in Separators THEN i = Len(p) \/ p[i + 1] \in Separators
                           ELSE p[i] \notin FileNames
PathReason(p) ==
    IF Len(p) \notin 1..MaxPatchPath THEN "PathUnsupported"
    ELSE IF p[1] \in Separators \cup Drives THEN "PathAbsolute"
    ELSE IF \A i \in DOMAIN p : ~Unnamed(p, i) THEN "none"
    ELSE LET first == CHOOSE i \in DOMAIN p :
                 Unnamed(p, i) /\ \A j \in 1..(i - 1) : ~Unnamed(p, j)
         IN  IF p[first] \in {".", ".."} THEN "PathTraversal" ELSE "PathUnsupported"

\* What parse refuses a directive for, in the order of its checks.
DirectiveReason(line) ==
    IF line.is = "Move" /\ ~awaiting THEN "MoveWithoutSource"
    ELSE IF PathReason(line.path) # "none" THEN PathReason(line.path)
    ELSE IF line.path \in Entries(paths) THEN "PathRepeated"
    ELSE IF Len(paths) >= MaxPatchOperations THEN "TooManyOperations"
    ELSE "none"

\* And what it refuses any line for.
LineReason(line) ==
    IF read = <<>> THEN IF line.is = "Begin" THEN "none" ELSE "BeginMissing"
    ELSE IF Len(read) >= MaxPatchLines THEN "DocumentTooLarge"
    ELSE IF terminated THEN "EndMissing"
    ELSE IF line.is = "End" THEN "none"
    ELSE IF line.is = "Begin" THEN "DirectiveRepeated"
    ELSE IF line.is = "Unknown" THEN "DirectiveUnsupported"
    ELSE IF line.is \in Operations THEN DirectiveReason(line)
    ELSE IF ops = <<>> THEN "ContentBeforeDirective"
    ELSE IF line.is = "Strange" THEN "ContentUnsupported"
    ELSE "none"

\* A move takes the place of the update before it.
RecordDirective(line) ==
    IF line.is = "Move" THEN [ops EXCEPT ![Len(ops)] = "Move"]
                        ELSE Append(ops, line.is)

\* A move names a second path; MoveHidesSource is the mutation that keeps one.
MoveHidesSource(line) ==
    IF line.is = "Move" THEN [paths EXCEPT ![Len(paths)] = line.path]
                        ELSE Append(paths, line.path)
Candidates(line) == Append(paths, line.path)

\* Only an update on the line before lets a move attach; AnyUpdateBefore
\* forgets that a body line comes between.
AnyUpdateBefore(line) ==
    line.is = "Update" \/ (awaiting /\ line.is \in {"Body", "End"})
Awaits(line) == line.is = "Update" \/ (awaiting /\ line.is = "End")
-----------------------------------------------------------------------------
PatchInit ==
    /\ oversize \in BOOLEAN
    /\ read = <<>>
    /\ ops = <<>>
    /\ paths = <<>>
    /\ terminated = FALSE
    /\ awaiting = FALSE
    /\ ended = FALSE
    /\ verdict = IF oversize THEN "DocumentTooLarge" ELSE "Reading"

\* The next line is refused ...
RefuseLine(line) ==
    /\ LineReason(line) # "none"
    /\ verdict' = LineReason(line)
    /\ UNCHANGED <<ops, paths, terminated, awaiting>>

\* ... or is a directive ...
Direct(line) ==
    /\ line.is \in Operations
    /\ LineReason(line) = "none"
    /\ ops' = RecordDirective(line)
    /\ paths' = Candidates(line)
    /\ awaiting' = Awaits(line)
    /\ UNCHANGED <<terminated, verdict>>

\* ... or a terminator or a body line.
PassLine(line) ==
    /\ line.is \notin Operations
    /\ LineReason(line) = "none"
    /\ terminated' = (line.is = "End")
    /\ awaiting' = Awaits(line)
    /\ UNCHANGED <<ops, paths, verdict>>

ReadPatchLine(line) ==
    /\ verdict = "Reading"
    /\ read' = Append(read, line)
    /\ RefuseLine(line) \/ Direct(line) \/ PassLine(line)
    /\ UNCHANGED <<oversize, ended>>

\* The document ends.
FinishPatch ==
    /\ verdict = "Reading"
    /\ verdict' = IF read = <<>> THEN "BeginMissing"
                  ELSE IF ~terminated THEN "EndMissing"
                  ELSE IF ops = <<>> THEN "NoOperations"
                  ELSE "Supported"
    /\ ended' = TRUE
    /\ UNCHANGED <<oversize, read, ops, paths, terminated, awaiting>>

PatchNext == FinishPatch \/ \E line \in Lines : ReadPatchLine(line)

PatchSpec == PatchInit /\ [][PatchNext]_patchVars

\* The operation the document is decided as (max_by_key of the severities).
Dominant ==
    CHOOSE o \in Entries(ops) :
        \A other \in Entries(ops) : Severity[other] <= Severity[o]

\* The IntentCandidate of a supported document.
PatchCandidate ==
    [kind |-> Kind[Dominant], effect |-> Effect[Dominant],
     surface |-> "WrittenPathMayBeExecuted", privilege |-> "Standard",
     publication |-> "Contained", paths |-> paths]
-----------------------------------------------------------------------------
\* The properties.

Directives == {i \in DOMAIN read : read[i].is \in Operations}

\* A path that stays inside the worktree as it is spelled: names with one
\* separator between any two.
Inner(p) ==
    /\ Len(p) \in 1..MaxPatchPath /\ Len(p) % 2 = 1
    /\ \A i \in DOMAIN p : p[i] \in IF i % 2 = 1 THEN FileNames ELSE Separators

\* The grammar, said of the text alone: what every prefix of a document
\* satisfies ...
IsPatchPrefix ==
    /\ Len(read) <= MaxPatchLines
    /\ \A i \in DOMAIN read : read[i].is = "Begin" <=> i = 1
    /\ \A i \in DOMAIN read : read[i].is = "End" => i = Len(read)
    /\ \A i \in DOMAIN read : read[i].is \notin {"Unknown", "Strange"}
    /\ \A i \in DOMAIN read : read[i].is = "Body" => \E d \in Directives : d < i
    /\ \A i \in Directives : read[i].is = "Move" => read[i - 1].is = "Update"
    /\ \A i \in Directives : Inner(read[i].path)
    /\ \A i, j \in Directives : read[i].path = read[j].path => i = j
    /\ Cardinality(Directives) <= MaxPatchOperations

\* ... and what makes it a whole document.
IsPatch == read # <<>> /\ read[Len(read)].is = "End" /\ Directives # {}

\* The interpreter is the grammar: a document that is supported is one of the
\* closed shapes, and a refusal, however early, is final because no
\* continuation of what was read is one (patch.rs "What is refused").
PatchIsGrammar ==
    /\ verdict = "Reading" => IsPatchPrefix /\ ~oversize
    /\ verdict = "Supported" => IsPatchPrefix /\ IsPatch /\ ~oversize
    /\ verdict \notin {"Reading", "Supported"} =>
          oversize \/ ~IsPatchPrefix \/ (ended /\ ~IsPatch)

\* One decision authorises the whole document: every path any directive names,
\* both ends of a move included, is a target, nothing else is, and the
\* document's effect is that of its most consequential directive.
PatchIsCovered ==
    verdict = "Supported" =>
        /\ Entries(PatchCandidate.paths) = {read[i].path : i \in Directives}
        /\ \A i \in Directives : Severity[read[i].is] <= Severity[Dominant]
        /\ \E i \in Directives : Effect[read[i].is] = PatchCandidate.effect
=============================================================================
