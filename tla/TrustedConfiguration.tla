------------------------ MODULE TrustedConfiguration ------------------------
(***************************************************************************)
(* Where trusted configuration comes from: a file or the environment       *)
(* (crates/ofw-cli/src/main.rs), the checks on the file, its parser and    *)
(* the constructor both loaders end in (crates/ofw-resolve/src/lib.rs).    *)
(*                                                                         *)
(* The file is looked at twice, once for its metadata and once for its     *)
(* text, and is anybody's in between: what one look finds says nothing of  *)
(* what the other does.  Values are strings that are told apart by what     *)
(* the checks ask of them; lines are trimmed.  The permission check is the *)
(* one of Unix.                                                            *)
(***************************************************************************)
EXTENDS Naturals, Sequences

CONSTANTS
    SettingValues,      \* what a variable or the value of a line may be
    Absolute,           \* those that are absolute paths
    Unicode,            \* those that are UTF-8
    Long,               \* those past MAX_PATH_BYTES
    Labels,             \* those environment_from_label knows
    MaxLines            \* bound: lines of a file

SettingsAssumption ==
    /\ Absolute \cup Unicode \cup Long \cup Labels \subseteq SettingValues
    /\ Labels \subseteq Unicode
    /\ MaxLines \in Nat

PathKeys == {"working_directory", "repository_boundary"}
Keys == PathKeys \cup {"environment"}

\* A line: blank or a comment, broken (no `=`, or nothing on a side of it), or
\* a pair, whose key need not be one of the three.
ConfigurationLines ==
    [is : {"blank", "broken"}, key : {""}, value : {""}]
        \cup [is : {"pair"}, key : Keys \cup {"other"}, value : Unicode]

VARIABLES
    named,              \* whether OFW_CONFIG_FILE is set
    loading,              \* the loader's next step
    lines,              \* history: the lines read
    settings,           \* the values found so far, by key
    configuration,      \* the values in force, by key: all of them or none
    provenance,         \* ConfigurationProvenance, or Undecided
    refusal             \* the ConfigurationError, none so far

loaderVars == <<named, loading, lines, settings, configuration, provenance, refusal>>

NoSettings == [k \in {} |-> ""]

LoaderInit ==
    /\ named \in BOOLEAN
    /\ loading = "start"
    /\ lines = <<>>
    /\ settings = NoSettings
    /\ configuration = NoSettings
    /\ provenance = "Undecided"
    /\ refusal = "none"
-----------------------------------------------------------------------------
\* TrustedConfiguration::new, on a value for each key.
NewError(c) ==
    IF c["working_directory"] \notin Absolute THEN "WorkingDirectoryNotAbsolute"
    ELSE IF c["repository_boundary"] \notin Absolute
      THEN "RepositoryBoundaryNotAbsolute"
    ELSE IF \E k \in PathKeys : c[k] \notin Unicode THEN "NonUtf8Path"
    ELSE IF \E k \in PathKeys : c[k] \in Long THEN "PathTooLong"
    ELSE "none"

\* What either loader ends with.
Return(c, source, error) ==
    /\ loading' = "over"
    /\ configuration' = c
    /\ provenance' = source
    /\ refusal' = error
    /\ UNCHANGED <<named, settings>>

\* Every fault of a file that is named.
Refuse(code) == Return(NoSettings, "FileRejected", code)

\* from_environment, for the variables there are.
FromEnvironment(variables) ==
    /\ loading = "start" /\ ~named
    /\ IF /\ DOMAIN variables = Keys
          /\ variables["environment"] \in Labels
          /\ NewError(variables) = "none"
         THEN Return(variables, "Environment", "none")
         ELSE Return(NoSettings, "Absent", "none")
    /\ UNCHANGED lines

\* from_file: the metadata.
Stat(found) ==
    /\ loading = "start" /\ named
    /\ CASE found = "unreadable" -> Refuse("FileUnreadable")
         [] found = "large" -> Refuse("FileTooLarge")
         [] found = "shared" -> Refuse("FileWritableByOthers")
         [] found = "exclusive" ->
              /\ loading' = "read"
              /\ UNCHANGED <<named, settings, configuration, provenance, refusal>>
    /\ UNCHANGED lines

ReadFile(readable) ==
    /\ loading = "read"
    /\ IF readable
         THEN /\ loading' = "parse"
              /\ UNCHANGED <<named, settings, configuration, provenance, refusal>>
         ELSE Refuse("FileUnreadable")
    /\ UNCHANGED lines

\* A key that has a value already; LastWins is the mutation that replaces it.
LastWins(key) == FALSE
Repeated(key) == key \in DOMAIN settings

\* parse_configuration, one line.
LineError(l) ==
    IF l.is = "broken" THEN "FileMalformed"
    ELSE IF l.key \notin Keys THEN "FileUnknownKey"
    ELSE IF l.key = "environment" /\ l.value \notin Labels THEN "FileMalformed"
    ELSE IF Repeated(l.key) THEN "FileDuplicateKey"
    ELSE "none"

ReadLine(l) ==
    /\ loading = "parse" /\ Len(lines) < MaxLines
    /\ lines' = Append(lines, l)
    /\ \/ /\ l.is = "blank"
          /\ UNCHANGED <<named, loading, settings, configuration, provenance, refusal>>
       \/ /\ l.is # "blank" /\ LineError(l) # "none"
          /\ Refuse(LineError(l))
       \/ /\ l.is # "blank" /\ LineError(l) = "none"
          /\ settings' = [k \in DOMAIN settings \cup {l.key} |->
                            IF k = l.key THEN l.value ELSE settings[k]]
          /\ UNCHANGED <<named, loading, configuration, provenance, refusal>>

EndOfFile ==
    /\ loading = "parse"
    /\ IF DOMAIN settings # Keys THEN Refuse("FileMissingKey")
       ELSE IF NewError(settings) # "none" THEN Refuse(NewError(settings))
       ELSE Return(settings, "File", "none")
    /\ UNCHANGED lines

LoaderNext ==
    \/ \E keys \in SUBSET Keys : \E variables \in [keys -> SettingValues] :
          FromEnvironment(variables)
    \/ \E found \in {"unreadable", "large", "shared", "exclusive"} : Stat(found)
    \/ \E readable \in BOOLEAN : ReadFile(readable)
    \/ \E l \in ConfigurationLines : ReadLine(l)
    \/ EndOfFile

LoaderSpec == LoaderInit /\ [][LoaderNext]_loaderVars
-----------------------------------------------------------------------------
\* What the text of a file gives, each key exactly once and nothing else.
SaidIn(key) == {i \in DOMAIN lines : lines[i].is = "pair" /\ lines[i].key = key}
Unambiguous ==
    /\ \A k \in Keys : \E i \in DOMAIN lines : SaidIn(k) = {i}
    /\ \A i \in DOMAIN lines :
          lines[i].is = "blank" \/ \E k \in Keys : i \in SaidIn(k)

Usable(c) ==
    /\ c["environment"] \in Labels
    /\ \A k \in PathKeys : c[k] \in (Absolute \cap Unicode) \ Long

\* A file that is named decides alone: a configuration in force is the one it
\* states, every key once and no line ignored, so that no line added to it can
\* move the boundary; what it states is in force; and its being unusable never
\* hands the decision to the variables (configuration_with_provenance).
ConfigurationIsWhole ==
    /\ provenance = "File" =>
          /\ named /\ Unambiguous
          /\ \A k \in Keys : \A i \in SaidIn(k) : configuration[k] = lines[i].value
    /\ provenance \in {"Environment", "Absent"} => ~named /\ lines = <<>>
    /\ configuration # NoSettings => Usable(configuration)
    /\ refusal \in {"FileDuplicateKey", "FileMissingKey", "FileMalformed",
                    "FileUnknownKey"} =>
          ~Unambiguous \/ \E i \in SaidIn("environment") : lines[i].value \notin Labels
=============================================================================
