------------------------------ MODULE FileSystem ------------------------------
(***************************************************************************)
(* The file system the resolver asks about: directories, files and         *)
(* symbolic links, as a function from the paths there are to what is       *)
(* there.  A path is a sequence of names from the root, which always       *)
(* exists; the name Up stands for "..".                                    *)
(*                                                                         *)
(* None of this is code of the repository: Canonical is what               *)
(* std::fs::canonicalize answers, and Lands is where an editor that        *)
(* creates missing directories ends up when it writes to a path.           *)
(***************************************************************************)
EXTENDS Naturals, Sequences, SequencesExt

CONSTANTS
    Names,              \* the names of directory entries
    Up,                 \* the name ".."
    MaxLinks            \* links one lookup follows before it gives up

ASSUME UpAssumption == Up \notin Names
ASSUME MaxLinksAssumption == MaxLinks \in Nat

Paths == Seq(Names \cup {Up})

Dir == [type |-> "Dir", to |-> <<>>]
File == [type |-> "File", to |-> <<>>]
Link(path) == [type |-> "Link", to |-> path]

\* The directory a path is an entry of, in a path that has one.
Parent(path) == Front(path)

\* Every entry is in a directory, and the root is one.
WellFormed(fs) ==
    \A p \in DOMAIN fs :
       Parent(p) # <<>> => Parent(p) \in DOMAIN fs /\ fs[Parent(p)] = Dir

\* What an entry is, and what a file system is: entries with names, in directories.
IsNode(node) == node.to \in Paths /\ node \in {Dir, File, Link(node.to)}
IsFileSystem(fs) ==
    /\ DOMAIN fs \subseteq Seq(Names) \ {<<>>}
    /\ \A p \in DOMAIN fs : IsNode(fs[p])
    /\ WellFormed(fs)

\* A lookup under way: the links it may still follow, where it is, and the
\* names it has still to look up.
Lookups == [links : 0..MaxLinks, at : Seq(Names), rest : Paths]
Going(links, at, rest) == [links |-> links, at |-> at, rest |-> rest]
Start(path) == Going(MaxLinks, <<>>, path)

IsLink(fs, p) == p \in DOMAIN fs /\ fs[p].type = "Link"

\* What is no link and a lookup passes, with more names to come or without.
\* "read" takes what exists; "create" also a name that does not, as a directory
\* or a file about to be created; "links" minds nothing but links.
Passes(fs, mode, p, more) ==
    /\ p \notin DOMAIN fs => mode # "read"
    /\ p \in DOMAIN fs /\ fs[p].type = "File" /\ more => mode = "links"

\* The lookup s one name further: the set of the one lookup it becomes, or {}.
Onward(fs, mode, s) ==
    LET next == Append(s.at, Head(s.rest))
        ahead == Tail(s.rest)
    IN  IF Head(s.rest) = Up
          THEN {Going(s.links, IF s.at = <<>> THEN <<>> ELSE Parent(s.at), ahead)}
        ELSE IF IsLink(fs, next)
          THEN IF s.links = 0 THEN {}
               ELSE {Going(s.links - 1, <<>>, fs[next].to \o ahead)}
        ELSE IF Passes(fs, mode, next, ahead # <<>>)
          THEN {Going(s.links, next, ahead)}
        ELSE {}

\* Where lookups end: the set of the one lookup without more names, or {}.
Walk(fs, mode) ==
    LET walk[s \in Lookups] ==
          IF s.rest = <<>> THEN {s} ELSE UNION {walk[t] : t \in Onward(fs, mode, s)}
    IN  walk

Lookup(fs, path, mode) == {t.at : t \in Walk(fs, mode)[Start(path)]}

Canonical(fs, path) == Lookup(fs, path, "read")
Lands(fs, path) == Lookup(fs, path, "create")

LinksOf(fs) == {<<p, fs[p].to>> : p \in {p \in DOMAIN fs : fs[p].type = "Link"}}

\* Some link leads nowhere.
Dangling(fs) == \E l \in LinksOf(fs) : Canonical(fs, l[1]) = {}

\* path is boundary or below it, by component.
Inside(path, boundary) == IsPrefix(boundary, path)
=============================================================================
