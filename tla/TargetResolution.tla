--------------------------- MODULE TargetResolution ---------------------------
(***************************************************************************)
(* The target resolver (crates/ofw-resolve/src/lib.rs) against a file      *)
(* system that others change while it looks: every std::fs::canonicalize   *)
(* is a step of its own.  A candidate is resolved, and later one that may  *)
(* be another; the fingerprints of the two resolutions are compared, as    *)
(* they would be for an approval that is redeemed.                         *)
(*                                                                         *)
(* Digests are taken to be injective, and both resolutions to be of one    *)
(* build, so that the revisions in the fingerprint are the same.           *)
(*                                                                         *)
(* Bounds: MaxChanges, the changes others make to the file system, and     *)
(* Redemptions, what is tried with the approval of what.                   *)
(***************************************************************************)
EXTENDS FileSystem, FiniteSets, Functions

CONSTANTS
    Nodes,              \* what others may put where, by path
    Fixed,              \* what is there and stays
    Candidates,         \* what the interpreters may produce
    Redemptions,        \* bound: pairs of the one approved and the one tried
    Boundary, Working,  \* the configured repository and working directory
    Foreign,            \* names that are no UTF-8
    Width,              \* the bytes of a name
    MaxSegments,        \* MAX_PATH_SEGMENTS
    MaxBytes,           \* MAX_PATH_BYTES
    MaxChanges          \* bound

ASSUME LimitsAssumption == {MaxSegments, MaxBytes, MaxChanges} \subseteq Nat
ASSUME NamesAssumption == Foreign \subseteq Names /\ Width \in [Names -> Nat \ {0}]
ASSUME ConfigurationAssumption == {Boundary, Working} \subseteq Paths
ASSUME NodesAssumption ==
    /\ DOMAIN Nodes \cup DOMAIN Fixed \subseteq Seq(Names) \ {<<>>}
    /\ \A p \in DOMAIN Nodes : \A node \in Nodes[p] : IsNode(node)
    /\ \A p \in DOMAIN Fixed : IsNode(Fixed[p])

VARIABLES
    fs,
    candidate,
    stage,              \* what the resolver does next
    boundary, working,  \* as canonicalized; {} before
    targets,            \* the operands resolved so far
    missing,            \* names stripped by the walk to an existing ancestor
    result,
    recorded,           \* what the first round resolved, to what, how steadily
    round,
    seen,               \* history: what became of the file system in the round
    changes

resolver == <<stage, boundary, working, targets, missing, result>>
vars == <<fs, candidate, resolver, recorded, round, seen, changes>>

\* An operand as it is written: relative, or absolute.
Operand(absolute, path) == [absolute |-> absolute, path |-> path]

\* PathBuf::join: an absolute operand replaces what it is joined to.
Join(base, operand) ==
    IF operand.absolute THEN operand.path ELSE base \o operand.path

\* target_scope.
PatchKinds == {"patch.add_file", "patch.update_file", "patch.delete_file",
               "patch.move_file"}
GitKinds == {"git.status", "git.rev_parse", "git.log", "git.diff"}
TargetScope(c) ==
    IF c.kind \in GitKinds /\ c.paths = <<>> THEN "Repository"
    ELSE IF c.kind \in {"git.log", "git.diff"} THEN "Paths"
    ELSE IF c.kind \in PatchKinds /\ c.paths # <<>> THEN "WritePaths"
    ELSE "Unsupported"
ScopeError(c) ==
    IF c.kind \in PatchKinds \cup GitKinds THEN "OperandsUnexpectedForKind"
                                           ELSE "OperationKindUnsupported"

\* Operands are paths; those of a patch have no ".." (patch.rs refuses one), and
\* nothing else creates.
ASSUME CandidatesAssumption ==
    \A c \in Candidates :
       /\ c.paths \in Seq([absolute : BOOLEAN, path : Paths])
       /\ c.kind \in PatchKinds \/ c.effect = "Create" =>
             c.paths \in Seq([absolute : BOOLEAN, path : Seq(Names)])

ReversibilityOf(effect) ==
    CASE effect \in {"Read", "Create"} -> "Reversible"
      [] effect \in {"Update", "Delete", "Move"} -> "ConditionallyRecoverable"
      [] OTHER -> "Unsupported"

Pending == [status |-> "pending"]
Refused(error) == [status |-> "error", error |-> error]

Places == DOMAIN Nodes

\* Everything that may be there at once, Fixed included.
WithFixed(f) ==
    [p \in DOMAIN f \cup DOMAIN Fixed |-> IF p \in DOMAIN f THEN f[p] ELSE Fixed[p]]
FileSystems ==
    {WithFixed(f) : f \in UNION {{g \in [there -> UNION Range(Nodes)] :
                                  \A p \in there : g[p] \in Nodes[p]} :
                                there \in SUBSET Places}}

Init ==
    /\ fs \in {f \in FileSystems : WellFormed(f)}
    /\ candidate \in Candidates
    /\ stage = "scope"
    /\ boundary = {} /\ working = {}
    /\ targets = <<>> /\ missing = <<>>
    /\ result = Pending
    /\ recorded = [candidate |-> candidate, result |-> Pending, steady |-> FALSE]
    /\ round = 1
    /\ seen = [steady |-> ~Dangling(fs), appeared |-> {}]
    /\ changes = 0
-----------------------------------------------------------------------------
\* resolve: each error is a return.
Fail(error) ==
    /\ stage' = "over"
    /\ result' = Refused(error)
    /\ UNCHANGED <<boundary, working, targets, missing>>

\* The next operand, and where it is looked for.
NextOperand == candidate.paths[Len(targets) + 1]
Joined == Join(CHOOSE w \in working : TRUE, NextOperand)

\* CheckNothing is the mutation without the check of a creation.
CheckNothing == "operand"
Check == IF candidate.effect = "Create" THEN "check" ELSE "operand"

StageFor(resolved) ==
    IF Len(resolved) = Len(candidate.paths) THEN "conclude" ELSE Check

\* target_scope and the reversibility of the effect.
Scope ==
    /\ stage = "scope"
    /\ IF TargetScope(candidate) = "Unsupported"
         THEN Fail(ScopeError(candidate))
       ELSE IF ReversibilityOf(candidate.effect) = "Unsupported"
         THEN Fail("EffectUnsupported")
       ELSE /\ stage' = "boundary"
            /\ UNCHANGED <<boundary, working, targets, missing, result>>

CanonicalizeBoundary ==
    /\ stage = "boundary"
    /\ IF Canonical(fs, Boundary) = {}
         THEN Fail("RepositoryBoundaryUnresolvable")
         ELSE /\ boundary' = Canonical(fs, Boundary)
              /\ stage' = "working"
              /\ UNCHANGED <<working, targets, missing, result>>

CanonicalizeWorking ==
    /\ stage = "working"
    /\ IF Canonical(fs, Working) = {}
         THEN Fail("WorkingDirectoryUnresolvable")
         ELSE /\ working' = Canonical(fs, Working)
              /\ IF TargetScope(candidate) = "Repository"
                   THEN /\ targets' = SetToSeq(Canonical(fs, Working))
                        /\ stage' = "conclude"
                   ELSE stage' = StageFor(<<>>) /\ UNCHANGED targets
              /\ UNCHANGED <<boundary, missing, result>>

\* A creation whose target is there already.
CheckCreation ==
    /\ stage = "check"
    /\ IF Canonical(fs, Joined) # {}
         THEN Fail("CreationTargetExists")
         ELSE /\ stage' = "operand"
              /\ UNCHANGED <<boundary, working, targets, missing, result>>

Resolve(path) ==
    /\ targets' = Append(targets, path)
    /\ stage' = StageFor(targets')
    /\ missing' = <<>>
    /\ UNCHANGED <<boundary, working, result>>

\* One operand that exists; one that does not fails a read, and starts the
\* walk of resolve_write_path.
CanonicalizeOperand ==
    /\ stage = "operand"
    /\ \/ \E path \in Canonical(fs, Joined) : Resolve(path)
       \/ /\ Canonical(fs, Joined) = {}
          /\ IF TargetScope(candidate) = "Paths"
               THEN Fail("PathOperandUnresolvable")
               ELSE /\ stage' = "walk"
                    /\ UNCHANGED <<boundary, working, targets, missing, result>>

\* The names pushed back, in the order they were stripped from the end;
\* AppendStripped is the mutation that forgets to reverse them.
AppendStripped(ancestor, names) == ancestor \o names
AppendMissing(ancestor, names) == ancestor \o Reverse(names)

\* One turn of the loop of resolve_write_path.  The root exists, so the walk
\* never runs out of ancestors.
WalkUp ==
    /\ stage = "walk"
    /\ LET ancestor == SubSeq(Joined, 1, Len(Joined) - Len(missing))
           stripped == Append(missing, Last(ancestor))
           found == Canonical(fs, Parent(ancestor))
       IN  \/ \E path \in found : Resolve(AppendMissing(path, stripped))
           \/ /\ found = {}
              /\ IF Len(stripped) > MaxSegments
                   THEN Fail("TooManyPathSegments")
                   ELSE /\ missing' = stripped
                        /\ UNCHANGED <<stage, boundary, working, targets, result>>

\* bounded_utf8: what is wrong with a path, or "None".  A separator stands
\* before every name and for the root, which is a component of its own.
Bytes(path) == FoldLeft(LAMBDA n, name : n + 1 + Width[name], 0, path)

BoundError(path) ==
    IF Range(path) \cap Foreign # {} THEN "NonUtf8Path"
    ELSE IF ~(Bytes(path) <= MaxBytes) THEN "PathTooLong"
    ELSE IF Len(path) + 1 > MaxSegments THEN "TooManyPathSegments"
    ELSE "None"

\* Containment is decided on the canonical boundary; ByConfiguration is the
\* mutation that takes the configured one.
ByConfiguration(path) == Inside(path, Boundary)
Contained(path) == \E b \in boundary : Inside(path, b)

\* What becomes text, in that order, and what of it exceeds a limit.
Spelled == Append(targets, CHOOSE b \in boundary : TRUE)
Unbounded == {i \in DOMAIN Spelled : BoundError(Spelled[i]) # "None"}

Conclude ==
    /\ stage = "conclude"
    /\ IF Unbounded # {}
         THEN Fail(BoundError(Spelled[Min(Unbounded)]))
         ELSE /\ stage' = "over"
              /\ result' =
                   [status |-> "ok",
                    containment |-> IF \A p \in Range(targets) : Contained(p)
                                      THEN "RepositoryLocal"
                                      ELSE "CrossBoundary",
                    reversibility |-> ReversibilityOf(candidate.effect),
                    targets |-> targets, boundary |-> boundary]
              /\ UNCHANGED <<boundary, working, targets, missing>>

Step ==
    /\ \/ Scope \/ CanonicalizeBoundary \/ CanonicalizeWorking
       \/ CheckCreation \/ CanonicalizeOperand \/ WalkUp \/ Conclude
    /\ recorded' = IF round = 1 THEN [recorded EXCEPT !.result = result', !.steady = seen.steady]
                                ELSE recorded
    /\ UNCHANGED <<fs, candidate, round, seen, changes>>
-----------------------------------------------------------------------------
\* Where the operation's reads and writes end up, in the file system as it is
\* now.
Touches == [i \in 1..Len(candidate.paths) |->
              Lands(fs, Join(Working, candidate.paths[i]))]

\* What the approval is redeemed for, any time after the first resolution.
Again(other) ==
    /\ stage = "over" /\ round = 1 /\ result.status = "ok"
    /\ round' = 2
    /\ <<candidate, other>> \in Redemptions
    /\ candidate' = other
    /\ stage' = "scope"
    /\ boundary' = {} /\ working' = {} /\ targets' = <<>> /\ missing' = <<>>
    /\ result' = Pending
    /\ seen' = [steady |-> ~Dangling(fs), appeared |-> {}]
    /\ UNCHANGED <<fs, recorded, changes>>

\* ResolvedTargets::fingerprint: how often each target occurs stands for the
\* sorted list.
Fingerprint(c, r) ==
    [kind |-> c.kind, boundary |-> r.boundary, count |-> Len(r.targets),
     set |-> [t \in Range(r.targets) |->
                Cardinality({i \in DOMAIN r.targets : r.targets[i] = t})]]

\* revalidate compares every field; CountOnly is the mutation without the last
\* comparison.
CountOnly(old, new) ==
    old.kind = new.kind /\ old.boundary = new.boundary /\ old.count = new.count
Unchanged(old, new) == old = new

\* Others put something in place, replace what has nothing below it, or
\* remove it.
Change(new) ==
    /\ changes < MaxChanges
    /\ WellFormed(new)
    /\ fs' = new
    /\ changes' = changes + 1
    /\ seen' = [steady |-> /\ seen.steady /\ ~Dangling(new)
                           /\ LinksOf(new) = LinksOf(fs),
                appeared |-> seen.appeared \cup (DOMAIN new \ DOMAIN fs)]
    /\ UNCHANGED <<candidate, resolver, recorded, round>>

PutAt(p, node) == Change([q \in DOMAIN fs \cup {p} |-> IF q = p THEN node ELSE fs[q]])
TakeAway(p) == p \in DOMAIN fs /\ Change([q \in DOMAIN fs \ {p} |-> fs[q]])

Others == \E p \in Places : TakeAway(p) \/ \E node \in Nodes[p] : PutAt(p, node)

Next == Step \/ (\E other \in Candidates : Again(other)) \/ Others

Spec == Init /\ [][Next]_vars
-----------------------------------------------------------------------------
Resolved == result.status = "ok"

\* What was resolved is what the operation touches: while links stay as they
\* are and none dangles, every operand lands at its target or nowhere, even
\* though files and directories come and go during the resolution; and no
\* target exceeds a limit, however many names the walk put back, or is spelled
\* in a way that stands for another path too.
TargetsAreExact ==
    Resolved /\ seen.steady /\ candidate.paths # <<>> =>
        /\ Len(result.targets) = Len(candidate.paths)
        /\ \A p \in Range(result.targets) :
              Len(p) < MaxSegments /\ Bytes(p) <= MaxBytes /\ Range(p) \cap Foreign = {}
        /\ \A i \in DOMAIN result.targets : Touches[i] \subseteq {result.targets[i]}

\* "a path is inside or outside a boundary because of what the filesystem
\* says, never because of how the string was spelled" (lib.rs): an answer of
\* RepositoryLocal means that nothing lands outside a repository that is still
\* there, an answer of CrossBoundary that something would.
ContainmentIsExact ==
    Resolved /\ seen.steady =>
        LET here == Canonical(fs, Boundary)
            inside(p) == \E b \in here : Inside(p, b)
        IN  IF result.containment = "RepositoryLocal"
              THEN here # {} => \A i \in DOMAIN Touches : \A p \in Touches[i] : inside(p)
              ELSE \E p \in Range(result.targets) : ~inside(p)

\* The precondition of calling a creation reversible: what it would overwrite
\* came into being while it was being resolved.
CreatesAreNew ==
    Resolved /\ candidate.effect = "Create" /\ seen.steady =>
        \A i \in DOMAIN Touches : Touches[i] \cap DOMAIN fs \subseteq seen.appeared

\* "any change to what the operation would touch yields a different
\* fingerprint, so an approval granted for one target set cannot be redeemed
\* against another" (lib.rs): whatever is resolved later, and whatever became
\* of the file system, if it compares as unchanged then it is the same kind of
\* operation on paths that were approved.
RevalidationSeesChanges ==
    Resolved /\ round = 2 /\ seen.steady /\ recorded.steady
      /\ Unchanged(Fingerprint(recorded.candidate, recorded.result),
                   Fingerprint(candidate, result))
        => /\ UNION Range(Touches) \subseteq Range(recorded.result.targets)
           /\ candidate.kind = recorded.candidate.kind

\* "Only components that do not exist are taken on trust, and a component
\* that does not exist cannot be a link to anywhere" (resolve_write_path): a
\* write lands where it was resolved to.
WritesLandAsResolved ==
    Resolved /\ TargetScope(candidate) = "WritePaths" /\ changes = 0 =>
        \A i \in DOMAIN Touches : Touches[i] \subseteq {result.targets[i]}
=============================================================================
