------------------------ MODULE Interpreters_proofs -------------------------
(***************************************************************************)
(* What the two interpreters promise, for texts of any length: that a      *)
(* patch document is accepted exactly when it is one of the closed shapes  *)
(* and is decided as all of it, that the words of a command are those its  *)
(* pieces spell, and that the operands of a git command are its operands.  *)
(***************************************************************************)
EXTENDS PatchDocument, GitCommand, ShellWords, Cuttings_proofs,
        FiniteSetTheorems

(***************************************************************************)
(* Patch documents: what one decision covers.                              *)
(***************************************************************************)

\* The operations and paths kept while reading stand for the directives read:
\* a move replaces the update it renames, which is less severe.
Covers ==
    /\ Entries(paths) = {read[i].path : i \in Directives}
    /\ \A o \in Entries(ops) : \E i \in Directives : read[i].is = o
    /\ \A i \in Directives : \E o \in Entries(ops) :
          Severity[read[i].is] <= Severity[o]

CoverInv ==
    /\ read \in Seq(Lines)
    /\ ops \in Seq(Operations)
    /\ paths \in Seq(Seq(PathParts))
    /\ awaiting => ops # <<>> /\ ops[Len(ops)] = "Update"
    /\ verdict \in {"Reading", "Supported"} => Covers
    /\ verdict = "Supported" => ops # <<>>
-----------------------------------------------------------------------------
LEMMA Severities ==
    /\ Severity["Add"] = 0 /\ Severity["Update"] = 1
    /\ Severity["Move"] = 2 /\ Severity["Delete"] = 3
    /\ \A o \in Operations : Severity[o] \in 0..3 /\ Severity[o] <= Severity[o]
BY DEF Severity, Operations

\* Among operations there is a most severe one.
LEMMA DominantIsMost ==
    ASSUME ops \in Seq(Operations), ops # <<>>
    PROVE  /\ Dominant \in Entries(ops)
           /\ \A other \in Entries(ops) : Severity[other] <= Severity[Dominant]
<1> DEFINE Most(o) == \A other \in Entries(ops) : Severity[other] <= Severity[o]
<1>1. Entries(ops) \subseteq Operations /\ Entries(ops) # {}
  <2>1. 1 \in DOMAIN ops /\ \A i \in DOMAIN ops : ops[i] \in Operations
    OBVIOUS
  <2> QED
    BY <2>1 DEF Entries
<1>2. \E o \in Entries(ops) : Most(o)
  <2>1. CASE "Delete" \in Entries(ops)
    BY <1>1, <2>1, Severities
  <2>2. CASE "Delete" \notin Entries(ops) /\ "Move" \in Entries(ops)
    BY <1>1, <2>2, Severities DEF Operations
  <2>3. CASE Entries(ops) \subseteq {"Add", "Update"} /\ "Update" \in Entries(ops)
    BY <2>3, Severities
  <2>4. CASE Entries(ops) \subseteq {"Add"}
    BY <1>1, <2>4, Severities
  <2> QED
    BY <1>1, <2>1, <2>2, <2>3, <2>4 DEF Operations
<1> QED
  BY <1>2 DEF Dominant

\* One more line: the directives read before stay, and the line is one itself
\* if it is an operation.
LEMMA OneMoreLine ==
    ASSUME read \in Seq(Lines), NEW line \in Lines, read' = Append(read, line)
    PROVE  /\ read' \in Seq(Lines)
           /\ read'[Len(read) + 1] = line
           /\ \A i \in Directives : read'[i] = read[i]
           /\ Directives' = Directives \cup
                 (IF line.is \in Operations THEN {Len(read) + 1} ELSE {})
<1>1. /\ read' \in Seq(Lines) /\ Len(read) \in Nat
      /\ DOMAIN read = 1..Len(read) /\ DOMAIN read' = 1..(Len(read) + 1)
      /\ \A i \in 1..Len(read) : read'[i] = read[i]
      /\ read'[Len(read) + 1] = line
  OBVIOUS
<1>2. DOMAIN read' = DOMAIN read \cup {Len(read) + 1}
  BY <1>1
<1> QED
  BY <1>1, <1>2 DEF Directives

\* A sequence with one more entry, and with its last entry replaced.
LEMMA AppendEntries ==
    ASSUME NEW S, NEW s \in Seq(S), NEW e
    PROVE  Entries(Append(s, e)) = Entries(s) \cup {e}
<1>1. /\ DOMAIN s = 1..Len(s) /\ Len(s) \in Nat
      /\ DOMAIN Append(s, e) = 1..(Len(s) + 1)
      /\ \A i \in 1..Len(s) : Append(s, e)[i] = s[i]
      /\ Append(s, e)[Len(s) + 1] = e
  OBVIOUS
<1>2. DOMAIN Append(s, e) = DOMAIN s \cup {Len(s) + 1}
  BY <1>1
<1> QED
  BY <1>1, <1>2 DEF Entries

LEMMA ReplaceLast ==
    ASSUME ops \in Seq(Operations), ops # <<>>,
           ops' = [ops EXCEPT ![Len(ops)] = "Move"]
    PROVE  /\ ops' \in Seq(Operations) /\ ops' # <<>>
           /\ "Move" \in Entries(ops')
           /\ Entries(ops') \subseteq Entries(ops) \cup {"Move"}
           /\ \A x \in Entries(ops) : x # ops[Len(ops)] => x \in Entries(ops')
<1>1. Len(ops) \in DOMAIN ops /\ "Move" \in Operations
  BY DEF Operations
<1>2. /\ ops' \in Seq(Operations) /\ ops' # <<>> /\ DOMAIN ops' = DOMAIN ops
      /\ ops'[Len(ops)] = "Move"
      /\ \A i \in DOMAIN ops : i # Len(ops) => ops'[i] = ops[i]
  BY <1>1
<1> QED
  BY <1>1, <1>2 DEF Entries

LEMMA CoverInitInv == PatchInit => CoverInv
<1> SUFFICES ASSUME PatchInit PROVE CoverInv
  OBVIOUS
<1>1. read = <<>> /\ ops = <<>> /\ paths = <<>> /\ ~awaiting
      /\ verdict # "Supported"
  BY DEF PatchInit
<1>2. Directives = {} /\ Entries(paths) = {} /\ Entries(ops) = {}
  BY <1>1 DEF Directives, Entries
<1> QED
  BY <1>1, <1>2 DEF CoverInv, Covers

LEMMA DirectKeepsCover ==
    ASSUME LinesAssumption, CoverInv, verdict = "Reading",
           NEW line \in Lines, read' = Append(read, line), Direct(line)
    PROVE  CoverInv'
<1> DEFINE last == Len(read) + 1
<1>1. /\ line.is \in Operations /\ line.path \in Seq(PathParts)
      /\ verdict' = "Reading" /\ Covers
  BY DEF Direct, LinesAssumption, CoverInv
<1>2. /\ read' \in Seq(Lines) /\ read'[last] = line
      /\ Directives' = Directives \cup {last}
      /\ \A i \in Directives : read'[i] = read[i]
  BY <1>1, OneMoreLine DEF CoverInv
<1>3. paths' = Append(paths, line.path) /\ paths' \in Seq(Seq(PathParts))
      /\ Entries(paths') = Entries(paths) \cup {line.path}
  BY <1>1, AppendEntries DEF Direct, Candidates, CoverInv
<1> HIDE DEF last
<1>4. Entries(paths') = {read'[i].path : i \in Directives'}
  <2>1. Entries(paths) = {read[i].path : i \in Directives}
    BY <1>1 DEF Covers
  <2>2. {read'[i].path : i \in Directives'} =
           {read[i].path : i \in Directives} \cup {line.path}
    BY <1>2
  <2> QED
    BY <1>3, <2>1, <2>2
<1>5. CASE line.is = "Move"
  <2>1. awaiting
    <3>1. LineReason(line) = "none" /\ line.is \in Operations
      BY DEF Direct
    <3>2. DirectiveReason(line) = "none"
      BY <1>5, <3>1 DEF LineReason
    <3> QED
      BY <1>5, <3>2 DEF DirectiveReason
  <2>2. ops # <<>> /\ ops[Len(ops)] = "Update" /\ ops \in Seq(Operations)
    BY <2>1 DEF CoverInv
  <2>3. ops' = [ops EXCEPT ![Len(ops)] = "Move"]
    BY <1>5 DEF Direct, RecordDirective
  <2>4. /\ ops' \in Seq(Operations) /\ ops' # <<>> /\ "Move" \in Entries(ops')
        /\ Entries(ops') \subseteq Entries(ops) \cup {"Move"}
        /\ \A x \in Entries(ops) : x # "Update" => x \in Entries(ops')
    BY <2>2, <2>3, ReplaceLast
  <2>5. ~awaiting'
    BY <1>5 DEF Direct, Awaits
  <2>6. \A o \in Entries(ops') : \E i \in Directives' : read'[i].is = o
    BY <1>1, <1>2, <1>5, <2>4 DEF Covers
  <2>7. ASSUME NEW i \in Directives'
        PROVE \E o \in Entries(ops') : Severity[read'[i].is] <= Severity[o]
    <3>1. CASE i = last
      <4>1. read'[i].is = "Move" /\ "Move" \in Operations
        BY <1>1, <1>2, <1>5, <3>1
      <4> QED
        BY <2>4, <4>1, Severities
    <3>2. CASE i \in Directives
      <4>1. PICK o \in Entries(ops) : Severity[read[i].is] <= Severity[o]
        BY <1>1, <3>2 DEF Covers
      <4>2. CASE o = "Update"
        <5>1. read[i].is \in Operations /\ Severity[read[i].is] <= 1
          BY <3>2, <4>1, <4>2, Severities DEF Directives
        <5>2. Severity[read[i].is] \in 0..3
          BY <5>1, Severities
        <5>3. Severity[read'[i].is] <= Severity["Move"]
          <6>1. read'[i] = read[i] /\ Severity["Move"] = 2
            BY <1>2, <3>2, Severities
          <6>2. \A n \in 0..3 : n <= 1 => n <= 2
            OBVIOUS
          <6>3. Severity[read[i].is] <= 2
            BY <5>1, <5>2, <6>2
          <6> QED
            BY <6>1, <6>3
        <5> QED
          BY <2>4, <5>3
      <4>3. CASE o # "Update"
        BY <1>2, <2>4, <3>2, <4>1, <4>3
      <4> QED
        BY <4>2, <4>3
    <3> QED
      BY <1>2, <3>1, <3>2
  <2> QED
    BY <1>1, <1>2, <1>3, <1>4, <2>4, <2>5, <2>6, <2>7 DEF CoverInv, Covers
<1>6. CASE line.is # "Move"
  <2>1. ops' = Append(ops, line.is) /\ ops \in Seq(Operations)
    BY <1>6 DEF Direct, RecordDirective, CoverInv
  <2>2. /\ ops' \in Seq(Operations) /\ ops' # <<>> /\ ops'[Len(ops')] = line.is
        /\ Entries(ops') = Entries(ops) \cup {line.is}
    BY <1>1, <2>1, AppendEntries
  <2>3. awaiting' => line.is = "Update"
    BY <1>1 DEF Direct, Awaits, Operations
  <2>4. \A o \in Entries(ops') : \E i \in Directives' : read'[i].is = o
    BY ZenonT(60), <1>1, <1>2, <2>2 DEF Covers
  <2>5. ASSUME NEW i \in Directives'
        PROVE \E o \in Entries(ops') : Severity[read'[i].is] <= Severity[o]
    <3>1. CASE i = last
      <4>1. read'[i].is = line.is
        BY <1>2, <3>1
      <4> QED
        BY <1>1, <2>2, <4>1, Severities
    <3>2. CASE i \in Directives
      BY <1>1, <1>2, <2>2, <3>2 DEF Covers
    <3> QED
      BY <1>2, <3>1, <3>2
  <2> QED
    BY <1>1, <1>2, <1>3, <1>4, <2>2, <2>3, <2>4, <2>5 DEF CoverInv, Covers
<1> QED
  BY <1>5, <1>6

LEMMA CoverKeepsInv ==
    ASSUME LinesAssumption, CoverInv, [PatchNext]_patchVars
    PROVE  CoverInv'
<1>1. CASE \E line \in Lines : ReadPatchLine(line)
  <2>1. PICK line \in Lines : ReadPatchLine(line)
    BY <1>1
  <2>2. read' = Append(read, line) /\ verdict = "Reading" /\ Covers
    BY <2>1 DEF ReadPatchLine, CoverInv
  <2>3. read' \in Seq(Lines)
    BY <2>2, OneMoreLine DEF CoverInv
  <2>4. CASE RefuseLine(line)
    <3>1. LineReason(line) \notin {"Reading", "Supported"}
      BY DEF LineReason, DirectiveReason, PathReason
    <3> QED
      BY <2>3, <2>4, <3>1 DEF RefuseLine, CoverInv
  <2>5. CASE Direct(line)
    BY <2>2, <2>5, DirectKeepsCover
  <2>6. CASE PassLine(line)
    <3>1. ops' = ops /\ paths' = paths /\ verdict' = verdict
          /\ line.is \notin Operations
      BY <2>6 DEF PassLine
    <3>2. Directives' = Directives /\ \A i \in Directives : read'[i] = read[i]
      BY <2>2, <3>1, OneMoreLine DEF CoverInv
    <3>3. awaiting' => awaiting
      BY <2>6, <3>1 DEF PassLine, Awaits, Operations
    <3>4. Covers'
      <4>1. Entries(paths)' = Entries(paths) /\ Entries(ops)' = Entries(ops)
        BY <3>1 DEF Entries
      <4>2. {read[i].path : i \in Directives}' = {read[i].path : i \in Directives}
        BY <3>2
      <4> QED
        BY <2>2, <3>2, <4>1, <4>2 DEF Covers
    <3> QED
      BY <2>2, <2>3, <3>1, <3>3, <3>4 DEF CoverInv
  <2> QED
    BY <2>1, <2>4, <2>5, <2>6 DEF ReadPatchLine
<1>2. CASE FinishPatch
  <2>1. verdict = "Reading" /\ Covers
    BY <1>2 DEF FinishPatch, CoverInv
  <2>2. Covers'
    BY <1>2, <2>1 DEF FinishPatch, Covers, Directives
  <2> QED
    BY <1>2, <2>2 DEF FinishPatch, CoverInv
<1>3. CASE UNCHANGED patchVars
  BY <1>3 DEF patchVars, CoverInv, Covers, Directives
<1> QED
  BY <1>1, <1>2, <1>3 DEF PatchNext

\* PatchIsCovered, for documents of any length: every path any directive names
\* is a target, nothing else is, and the document has the effect of its most
\* consequential directive (interpret_patch).
THEOREM PatchCovered ==
    ASSUME LinesAssumption
    PROVE  PatchSpec => []PatchIsCovered
<1>1. CoverInv => PatchIsCovered
  <2> SUFFICES ASSUME CoverInv, verdict = "Supported"
               PROVE /\ Entries(PatchCandidate.paths) = {read[i].path : i \in Directives}
                     /\ \A i \in Directives : Severity[read[i].is] <= Severity[Dominant]
                     /\ \E i \in Directives : Effect[read[i].is] = PatchCandidate.effect
    BY DEF PatchIsCovered
  <2>1. Covers /\ ops # <<>> /\ ops \in Seq(Operations)
    BY DEF CoverInv
  <2>2. /\ Dominant \in Entries(ops) /\ Entries(ops) \subseteq Operations
        /\ \A other \in Entries(ops) : Severity[other] <= Severity[Dominant]
    BY <2>1, DominantIsMost DEF Entries
  <2>3. PatchCandidate.paths = paths /\ PatchCandidate.effect = Effect[Dominant]
    BY DEF PatchCandidate
  <2>4. ASSUME NEW i \in Directives
        PROVE Severity[read[i].is] <= Severity[Dominant]
    <3>1. PICK o \in Entries(ops) : Severity[read[i].is] <= Severity[o]
      BY <2>1 DEF Covers
    <3>2. read[i].is \in Operations
      BY DEF Directives
    <3> QED
      BY <2>2, <3>1, <3>2, Severities
  <2> QED
    BY <2>1, <2>2, <2>3, <2>4 DEF Covers
<1>2. PatchSpec => []CoverInv
  BY CoverInitInv, CoverKeepsInv, PTL DEF PatchSpec
<1> QED
  BY <1>1, <1>2, PTL
-----------------------------------------------------------------------------
\* check_path refuses a path for nothing exactly when the path is names with one
\* separator between any two.
LEMMA PathGrammar ==
    ASSUME LinesAssumption, NEW line \in Lines
    PROVE  PathReason(line.path) = "none" <=> Inner(line.path)
<1> DEFINE p == line.path
<1>1. /\ p \in Seq(PathParts) /\ Len(p) \in Nat /\ DOMAIN p = 1..Len(p)
      /\ \A i \in 2..Len(p) : p[i - 1] \in Separators \/ p[i] \in Separators
      /\ \A part : part \in FileNames => part \notin Separators /\ part \notin Drives
  BY DEF LinesAssumption
<1> HIDE DEF p
<1>2. PathReason(p) = "none" <=>
         /\ Len(p) \in 1..MaxPatchPath
         /\ p[1] \notin Separators \cup Drives
         /\ \A i \in DOMAIN p : ~Unnamed(p, i)
  BY DEF PathReason
<1>3. ASSUME PathReason(p) = "none" PROVE Inner(p)
  <2> DEFINE Right(i) == p[i] \in IF i % 2 = 1 THEN FileNames ELSE Separators
             Wrong == {i \in DOMAIN p : ~Right(i)}
  <2>1. \A i \in 1..Len(p) : ~Unnamed(p, i)
    BY <1>1, <1>2, <1>3
  <2>2. Wrong = {}
    <3> SUFFICES ASSUME Wrong # {} PROVE FALSE
      OBVIOUS
    <3>1. PICK k \in Wrong : \A i \in Wrong : k <= i
      <4>1. Wrong \in SUBSET Nat
        BY <1>1
      <4> QED
        BY <4>1, LeastNumber
    <3>2. k \in 1..Len(p) /\ ~Right(k)
      BY <1>1, <3>1
    <3>3. CASE k = 1
      <4>1. p[1] \in FileNames
        BY <1>2, <1>3, <2>1, <3>2, <3>3 DEF Unnamed
      <4> QED
        BY <3>2, <3>3, <4>1
    <3>4. CASE k # 1
      <4>1. k - 1 \in 1..Len(p) /\ k \in 2..Len(p) /\ k - 1 < k /\ k - 1 # Len(p)
        BY <1>1, <3>2, <3>4
      <4>2. Right(k - 1)
        BY <1>1, <3>1, <4>1
      <4>3. p[k - 1] \in Separators \/ p[k] \in Separators
        BY <1>1, <4>1
      <4>4. CASE k % 2 = 1
        <5>1. p[k - 1] \in Separators
          BY <3>2, <4>2, <4>4
        <5>2. p[k] \notin Separators
          <6>1. ~Unnamed(p, k - 1) /\ (k - 1) + 1 = k
            BY <2>1, <3>2, <4>1
          <6> QED
            BY <5>1, <6>1 DEF Unnamed
        <5>3. p[k] \in FileNames
          BY <2>1, <3>2, <5>2 DEF Unnamed
        <5> QED
          BY <3>2, <4>4, <5>3
      <4>5. CASE k % 2 # 1
        <5>1. p[k - 1] \in FileNames
          BY <3>2, <4>2, <4>5
        <5> QED
          BY <1>1, <3>2, <4>3, <4>5, <5>1
      <4> QED
        BY <4>4, <4>5
    <3> QED
      BY <3>3, <3>4
  <2>3. \A i \in DOMAIN p : Right(i)
    BY <2>2
  <2>4. Len(p) \in 1..MaxPatchPath /\ Len(p) \in DOMAIN p
    BY <1>1, <1>2, <1>3
  <2>5. Len(p) % 2 = 1
    <3>1. CASE p[Len(p)] \in Separators
      <4>1. Unnamed(p, Len(p))
        BY <3>1 DEF Unnamed
      <4> QED
        BY <1>1, <2>1, <2>4, <4>1
    <3>2. CASE p[Len(p)] \notin Separators
      BY <2>3, <2>4, <3>2
    <3> QED
      BY <3>1, <3>2
  <2> QED
    BY <2>3, <2>4, <2>5 DEF Inner
<1>4. ASSUME Inner(p) PROVE PathReason(p) = "none"
  <2>1. /\ Len(p) \in 1..MaxPatchPath /\ Len(p) % 2 = 1
        /\ \A i \in DOMAIN p : p[i] \in IF i % 2 = 1 THEN FileNames ELSE Separators
    BY <1>4 DEF Inner
  <2>2. 1 \in DOMAIN p /\ p[1] \in FileNames
    BY <1>1, <2>1
  <2>3. ASSUME NEW i \in DOMAIN p PROVE ~Unnamed(p, i)
    <3>1. CASE i % 2 = 1
      BY <1>1, <2>1, <3>1 DEF Unnamed
    <3>2. CASE i % 2 # 1
      <4>1. i # Len(p) /\ i + 1 \in DOMAIN p /\ (i + 1) % 2 = 1
        BY <1>1, <2>1, <3>2
      <4>2. p[i] \in Separators /\ p[i + 1] \in FileNames
        BY <2>1, <3>2, <4>1
      <4> QED
        BY <1>1, <4>1, <4>2 DEF Unnamed
    <3> QED
      BY <3>1, <3>2
  <2> QED
    BY <1>1, <1>2, <2>1, <2>2, <2>3
<1> QED
  BY <1>3, <1>4 DEF p

\* What a line must be for a document that may still become one to stay so.
Continues(line) ==
    /\ Len(read) < MaxPatchLines
    /\ line.is = "Begin" <=> read = <<>>
    /\ read # <<>> => read[Len(read)].is # "End"
    /\ line.is \notin {"Unknown", "Strange"}
    /\ line.is = "Body" => Directives # {}
    /\ line.is = "Move" => read[Len(read)].is = "Update"
    /\ line.is \in Operations =>
          /\ Inner(line.path)
          /\ \A i \in Directives : read[i].path # line.path
          /\ Cardinality(Directives) < MaxPatchOperations

LEMMA PrefixGrows ==
    ASSUME LinesAssumption, read \in Seq(Lines), IsPatchPrefix,
           NEW line \in Lines, read' = Append(read, line)
    PROVE  IsPatchPrefix' <=> Continues(line)
<1> DEFINE n == Len(read)
<1>1. /\ n \in Nat /\ Len(read') = n + 1 /\ DOMAIN read = 1..n
      /\ DOMAIN read' = 1..(n + 1) /\ read'[n + 1] = line
      /\ \A i \in 1..n : read'[i] = read[i]
      /\ n = 0 <=> read = <<>>
      /\ {MaxPatchLines, MaxPatchOperations} \subseteq Nat
  BY DEF LinesAssumption
<1>2. /\ Directives' = Directives \cup (IF line.is \in Operations THEN {n + 1} ELSE {})
      /\ \A i \in Directives : read'[i] = read[i] /\ i \in 1..n
  BY <1>1, OneMoreLine DEF Directives
<1>3. /\ IsFiniteSet(Directives) /\ Cardinality(Directives) \in Nat
      /\ line.is \in Operations => Cardinality(Directives') = Cardinality(Directives) + 1
      /\ line.is \notin Operations => Directives' = Directives
  <2>1. IsFiniteSet(1..n) /\ Directives \subseteq 1..n
    BY <1>1, <1>2, FS_Interval
  <2>2. IsFiniteSet(Directives)
    BY <2>1, FS_Subset
  <2>3. Cardinality(Directives) \in Nat
    BY <2>2, FS_CardinalityType
  <2>4. n + 1 \notin Directives
    BY <1>1, <1>2
  <2>5. Cardinality(Directives \cup {n + 1}) = Cardinality(Directives) + 1
    BY <2>2, <2>4, FS_AddElement
  <2> QED
    BY <1>2, <2>2, <2>3, <2>5
<1> HIDE DEF n
<1>4. ASSUME IsPatchPrefix' PROVE Continues(line)
  <2>0. n + 1 \in DOMAIN read'
    BY <1>1
  <2>1. n < MaxPatchLines
    BY <1>1, <1>4 DEF IsPatchPrefix
  <2>2. line.is = "Begin" <=> read = <<>>
    BY <1>1, <1>4, <2>0 DEF IsPatchPrefix
  <2>3. read # <<>> => read[n].is # "End"
    BY <1>1, <1>4 DEF IsPatchPrefix
  <2>4. line.is \notin {"Unknown", "Strange"}
    BY <1>1, <1>4, <2>0 DEF IsPatchPrefix
  <2>5. line.is = "Body" => Directives # {}
    <3> SUFFICES ASSUME line.is = "Body" PROVE Directives # {}
      OBVIOUS
    <3>1. line.is \notin Operations
      BY DEF Operations
    <3> QED
      BY <1>1, <1>3, <1>4, <2>0, <3>1 DEF IsPatchPrefix
  <2>6. line.is = "Move" => read[n].is = "Update"
    <3> SUFFICES ASSUME line.is = "Move" PROVE read[n].is = "Update"
      OBVIOUS
    <3>1. n + 1 \in Directives'
      BY <1>2 DEF Operations
    <3>2. read'[(n + 1) - 1].is = "Update"
      BY <1>1, <1>4, <3>1 DEF IsPatchPrefix
    <3>3. n \in 1..n
      BY <1>1, <2>2
    <3> QED
      BY <1>1, <3>2, <3>3
  <2>7. ASSUME line.is \in Operations
        PROVE  /\ Inner(line.path)
               /\ \A i \in Directives : read[i].path # line.path
               /\ Cardinality(Directives) < MaxPatchOperations
    <3>1. n + 1 \in Directives' /\ Directives \subseteq Directives'
      BY <1>2, <2>7
    <3>2. Inner(line.path)
      <4>1. \A i \in Directives' : Inner(read'[i].path)
        BY <1>4 DEF IsPatchPrefix
      <4> QED
        BY <1>1, <3>1, <4>1
    <3>3. ASSUME NEW i \in Directives PROVE read[i].path # line.path
      <4>1. i # n + 1 /\ i \in Directives' /\ read'[i] = read[i]
        BY <1>1, <1>2, <3>1
      <4>2. \A j, k \in Directives' : read'[j].path = read'[k].path => j = k
        BY <1>4 DEF IsPatchPrefix
      <4> QED
        BY <1>1, <3>1, <4>1, <4>2
    <3>4. Cardinality(Directives) + 1 <= MaxPatchOperations
      BY <1>3, <1>4, <2>7 DEF IsPatchPrefix
    <3> QED
      BY <1>1, <1>3, <3>2, <3>3, <3>4
  <2> QED
    BY <2>1, <2>2, <2>3, <2>4, <2>5, <2>6, <2>7 DEF Continues, n
<1>5. ASSUME Continues(line) PROVE IsPatchPrefix'
  <2>1. /\ n < MaxPatchLines /\ (line.is = "Begin" <=> read = <<>>)
        /\ read # <<>> => read[n].is # "End"
        /\ line.is \notin {"Unknown", "Strange"}
        /\ line.is = "Body" => Directives # {}
        /\ line.is = "Move" => read[n].is = "Update"
    BY <1>5 DEF Continues, n
  <2>2. Len(read') <= MaxPatchLines
    BY <1>1, <2>1
  <2>3. \A i \in DOMAIN read' : read'[i].is = "Begin" <=> i = 1
    <3>1. \A i \in 1..n : read[i].is = "Begin" <=> i = 1
      BY <1>1 DEF IsPatchPrefix
    <3> QED
      BY <1>1, <2>1, <3>1
  <2>4. \A i \in DOMAIN read' : read'[i].is = "End" => i = Len(read')
    <3>1. \A i \in 1..n : read[i].is = "End" => i = n
      BY ZenonT(60), <1>1 DEF IsPatchPrefix, n
    <3> QED
      BY <1>1, <2>1, <3>1
  <2>5. \A i \in DOMAIN read' : read'[i].is \notin {"Unknown", "Strange"}
    BY <1>1, <2>1 DEF IsPatchPrefix
  <2>6. \A i \in DOMAIN read' : read'[i].is = "Body" => \E d \in Directives' : d < i
    BY <1>1, <1>2, <2>1 DEF IsPatchPrefix
  <2>7. \A i \in Directives' : read'[i].is = "Move" => read'[i - 1].is = "Update"
    <3> SUFFICES ASSUME NEW i \in Directives', read'[i].is = "Move"
                 PROVE  read'[i - 1].is = "Update"
      OBVIOUS
    <3>1. CASE i \in Directives
      <4>1. read[i].is = "Move" /\ read[i - 1].is = "Update" /\ i \in 1..n
        BY <1>2, <3>1 DEF IsPatchPrefix
      <4>2. i # 1
        BY <1>1, <4>1 DEF IsPatchPrefix
      <4>3. i - 1 \in 1..n
        BY <1>1, <4>1, <4>2
      <4> QED
        BY <1>1, <4>1, <4>3
    <3>2. CASE i \notin Directives
      <4>1. i = n + 1 /\ line.is = "Move"
        BY <1>1, <1>2, <3>2
      <4>2. read # <<>> /\ n \in 1..n /\ i - 1 = n
        BY <1>1, <2>1, <4>1
      <4> QED
        BY <1>1, <2>1, <4>1, <4>2
    <3> QED
      BY <3>1, <3>2
  <2>8. \A i \in Directives' : Inner(read'[i].path)
    <3>1. line.is \in Operations => Inner(line.path)
      BY <1>5 DEF Continues
    <3> QED
      BY <1>1, <1>2, <3>1 DEF IsPatchPrefix
  <2>9. \A i, j \in Directives' : read'[i].path = read'[j].path => i = j
    <3>1. line.is \in Operations => \A i \in Directives : read[i].path # line.path
      BY <1>5 DEF Continues
    <3>2. \A i, j \in Directives : read[i].path = read[j].path => i = j
      BY DEF IsPatchPrefix
    <3> QED
      BY <1>1, <1>2, <3>1, <3>2
  <2>10. Cardinality(Directives') <= MaxPatchOperations
    <3>1. CASE line.is \in Operations
      <4>1. Cardinality(Directives) < MaxPatchOperations
        BY <1>5, <3>1 DEF Continues
      <4> QED
        BY <1>1, <1>3, <3>1, <4>1
    <3>2. CASE line.is \notin Operations
      BY <1>3, <3>2 DEF IsPatchPrefix
    <3> QED
      BY <3>1, <3>2
  <2>11. \A i \in Directives' : Inner(read[i].path)'
    BY <2>8 DEF Inner
  <2> QED
    BY <2>2, <2>3, <2>4, <2>5, <2>6, <2>7, <2>9, <2>10, <2>11 DEF IsPatchPrefix
<1> QED
  BY <1>4, <1>5

\* What the interpreter keeps of the lines it has read, as long as it reads.
Kept ==
    /\ terminated <=> read # <<>> /\ read[Len(read)].is = "End"
    /\ ~terminated => (awaiting <=> read # <<>> /\ read[Len(read)].is = "Update")
    /\ Len(paths) = Cardinality(Directives)

GrammarInv ==
    /\ verdict \in {"Reading", "Supported"} => Kept /\ IsPatchPrefix /\ ~oversize
    /\ verdict = "Supported" => IsPatch
    /\ verdict \notin {"Reading", "Supported"} =>
          oversize \/ ~IsPatchPrefix \/ (ended /\ ~IsPatch)

\* There are operations exactly when there were directives.
LEMMA SomeOperation ==
    ASSUME ops \in Seq(Operations), Covers
    PROVE  ops = <<>> <=> Directives = {}
<1>1. ops = <<>> <=> Entries(ops) = {}
  <2>1. DOMAIN ops = 1..Len(ops) /\ Len(ops) \in Nat /\ (ops = <<>> <=> Len(ops) = 0)
    OBVIOUS
  <2>2. ops # <<>> => 1 \in DOMAIN ops
    BY <2>1
  <2>3. ops = <<>> => DOMAIN ops = {}
    BY <2>1
  <2> QED
    BY <2>2, <2>3 DEF Entries
<1> QED
  BY <1>1 DEF Covers

\* A directive is refused for nothing exactly when the grammar continues with it.
LEMMA DirectiveContinues ==
    ASSUME LinesAssumption, Covers, Kept, paths \in Seq(Seq(PathParts)),
           read \in Seq(Lines), read # <<>>, ~terminated,
           Len(read) < MaxPatchLines, NEW line \in Lines, line.is \in Operations
    PROVE  DirectiveReason(line) = "none" <=> Continues(line)
<1>1. line.is \notin {"Begin", "Unknown", "Strange", "Body"}
  BY DEF Operations
<1>2. read[Len(read)].is # "End"
  BY DEF Kept
<1>3. Continues(line) <=>
         /\ line.is = "Move" => read[Len(read)].is = "Update"
         /\ Inner(line.path)
         /\ \A i \in Directives : read[i].path # line.path
         /\ Cardinality(Directives) < MaxPatchOperations
  BY <1>1, <1>2 DEF Continues
<1>4. awaiting <=> read[Len(read)].is = "Update"
  BY DEF Kept
<1>5. line.path \notin Entries(paths) <=> \A i \in Directives : read[i].path # line.path
  BY DEF Covers
<1>6. Len(paths) >= MaxPatchOperations <=> ~(Cardinality(Directives) < MaxPatchOperations)
  <2>1. Len(paths) = Cardinality(Directives) /\ Len(paths) \in Nat
        /\ MaxPatchOperations \in Nat
    BY DEF Kept, LinesAssumption
  <2> QED
    BY <2>1
<1>7. PathReason(line.path) = "none" <=> Inner(line.path)
  BY PathGrammar
<1>8. DirectiveReason(line) = "none" <=>
         /\ ~(line.is = "Move" /\ ~awaiting)
         /\ PathReason(line.path) = "none"
         /\ line.path \notin Entries(paths)
         /\ ~(Len(paths) >= MaxPatchOperations)
  BY DEF DirectiveReason
<1> QED
  BY <1>3, <1>4, <1>5, <1>6, <1>7, <1>8

\* And so for any line.
LEMMA ReasonIsGrammar ==
    ASSUME LinesAssumption, CoverInv, GrammarInv, verdict = "Reading",
           NEW line \in Lines
    PROVE  LineReason(line) = "none" <=> Continues(line)
<1>1. /\ Kept /\ Covers /\ read \in Seq(Lines)
      /\ ops \in Seq(Operations) /\ paths \in Seq(Seq(PathParts))
      /\ MaxPatchLines \in Nat /\ MaxPatchLines # 0 /\ Len(read) \in Nat
      /\ line.is \in Operations \cup Bodies \cup Headers
  BY DEF CoverInv, GrammarInv, LinesAssumption
<1>2. ops = <<>> <=> Directives = {}
  BY <1>1, SomeOperation
<1>3. terminated <=> read # <<>> /\ read[Len(read)].is = "End"
  BY <1>1 DEF Kept
<1>4. CASE read = <<>>
  <2>1. LineReason(line) = "none" <=> line.is = "Begin"
    BY <1>4 DEF LineReason
  <2>2. Len(read) < MaxPatchLines
    BY <1>1, <1>4
  <2>3. line.is = "Begin" => line.is \notin Operations
    BY DEF Operations
  <2> QED
    BY <1>4, <2>1, <2>2, <2>3 DEF Continues
<1>5. CASE read # <<>> /\ ~(Len(read) < MaxPatchLines)
  <2>1. Len(read) >= MaxPatchLines
    BY <1>1, <1>5
  <2> QED
    BY <1>5, <2>1 DEF LineReason, Continues
<1>6. CASE read # <<>> /\ terminated
  BY <1>3, <1>6 DEF LineReason, Continues
<1>7. CASE read # <<>> /\ Len(read) < MaxPatchLines /\ ~terminated
  <2>0. ~(Len(read) >= MaxPatchLines)
    BY <1>1, <1>7
  <2>1. CASE line.is \in Operations
    <3>1. LineReason(line) = DirectiveReason(line)
      BY <1>7, <2>0, <2>1 DEF LineReason, Operations
    <3> QED
      BY <1>1, <1>7, <2>1, <3>1, DirectiveContinues
  <2>2. CASE line.is \in {"End", "Begin", "Unknown"}
    BY <1>3, <1>7, <2>0, <2>2 DEF LineReason, Continues, Operations
  <2>3. CASE line.is \in Bodies
    <3>1. line.is \notin Operations
      BY <2>3 DEF Bodies, Operations
    <3> QED
      BY <1>2, <1>3, <1>7, <2>0, <2>3, <3>1 DEF LineReason, Continues, Bodies
  <2> QED
    BY <1>1, <2>1, <2>2, <2>3 DEF Headers
<1> QED
  BY <1>4, <1>5, <1>6, <1>7

LEMMA GrammarInitInv == LinesAssumption /\ PatchInit => GrammarInv
<1> SUFFICES ASSUME LinesAssumption, PatchInit PROVE GrammarInv
  OBVIOUS
<1>1. /\ read = <<>> /\ paths = <<>> /\ ~terminated /\ ~awaiting
      /\ verdict = IF oversize THEN "DocumentTooLarge" ELSE "Reading"
  BY DEF PatchInit
<1>2. Directives = {} /\ DOMAIN read = {} /\ Len(read) = 0 /\ Len(paths) = 0
  BY <1>1 DEF Directives
<1>3. Cardinality(Directives) = 0
  BY <1>2, FS_EmptySet
<1>4. Kept
  BY <1>1, <1>2, <1>3 DEF Kept
<1>5. IsPatchPrefix
  <2>1. {MaxPatchLines, MaxPatchOperations} \subseteq Nat
    BY DEF LinesAssumption
  <2> QED
    BY <1>2, <1>3, <2>1 DEF IsPatchPrefix
<1> QED
  BY <1>1, <1>4, <1>5 DEF GrammarInv

\* A line that is refused leaves a text no patch begins with.
LEMMA RefusalIsFinal ==
    ASSUME LinesAssumption, CoverInv, GrammarInv, verdict = "Reading",
           NEW line \in Lines, read' = Append(read, line), RefuseLine(line)
    PROVE  GrammarInv'
<1>1. LineReason(line) # "none" /\ verdict' = LineReason(line)
  BY DEF RefuseLine
<1>2. LineReason(line) \notin {"Reading", "Supported"}
  BY DEF LineReason, DirectiveReason, PathReason
<1>3. read \in Seq(Lines) /\ IsPatchPrefix
  BY DEF CoverInv, GrammarInv
<1>4. ~Continues(line)
  BY <1>1, ReasonIsGrammar
<1>5. ~IsPatchPrefix'
  BY <1>3, <1>4, PrefixGrows
<1> QED
  BY <1>1, <1>2, <1>5 DEF GrammarInv

\* A line that is accepted leaves one, and is kept for what it is.
LEMMA AcceptedIsKept ==
    ASSUME LinesAssumption, CoverInv, GrammarInv, verdict = "Reading",
           NEW line \in Lines, read' = Append(read, line), oversize' = oversize,
           Direct(line) \/ PassLine(line)
    PROVE  GrammarInv'
<1>1. LineReason(line) = "none" /\ verdict' = "Reading" /\ ~oversize
      /\ read \in Seq(Lines) /\ IsPatchPrefix /\ Kept /\ Len(read) \in Nat
      /\ paths \in Seq(Seq(PathParts))
  BY DEF Direct, PassLine, CoverInv, GrammarInv
<1>2. Continues(line)
  BY <1>1, ReasonIsGrammar
<1>3. IsPatchPrefix'
  BY <1>1, <1>2, PrefixGrows
<1>4. /\ read' # <<>> /\ Len(read') = Len(read) + 1
      /\ read'[Len(read')] = line
  BY <1>1
<1>5. ~terminated
  BY <1>1, <1>2 DEF Kept, Continues
<1>6. terminated' <=> line.is = "End"
  <2>1. CASE Direct(line)
    <3>1. terminated' = terminated /\ line.is # "End"
      BY <2>1 DEF Direct, Operations
    <3> QED
      BY <1>5, <3>1
  <2>2. CASE PassLine(line)
    <3>1. terminated' = (line.is = "End")
      BY <2>2 DEF PassLine
    <3> QED
      BY <3>1
  <2> QED
    BY <2>1, <2>2
<1>7. line.is # "End" => (awaiting' <=> line.is = "Update")
  BY DEF Direct, PassLine, Awaits
<1>8. Len(paths') = Cardinality(Directives')
  <2>1. /\ IsFiniteSet(Directives)
        /\ Len(read) + 1 \notin Directives
        /\ Directives \subseteq 1..Len(read)
    <3>1. Directives \subseteq 1..Len(read) /\ IsFiniteSet(1..Len(read))
      <4>1. DOMAIN read = 1..Len(read) /\ IsFiniteSet(1..Len(read))
        BY <1>1, FS_Interval
      <4> QED
        BY <4>1 DEF Directives
    <3>2. IsFiniteSet(Directives)
      BY <3>1, FS_Subset
    <3> QED
      BY <1>1, <3>1, <3>2
  <2>2. Directives' = Directives \cup
           (IF line.is \in Operations THEN {Len(read) + 1} ELSE {})
    BY <1>1, OneMoreLine
  <2>3. CASE Direct(line)
    <3>1. line.is \in Operations /\ paths' = Append(paths, line.path)
      BY <2>3 DEF Direct, Candidates
    <3>2. Cardinality(Directives \cup {Len(read) + 1}) = Cardinality(Directives) + 1
      BY <2>1, FS_AddElement
    <3>3. Len(paths') = Len(paths) + 1
      BY <1>1, <3>1
    <3> QED
      BY <1>1, <2>2, <3>1, <3>2, <3>3 DEF Kept
  <2>4. CASE PassLine(line)
    <3>1. line.is \notin Operations /\ paths' = paths
      BY <2>4 DEF PassLine
    <3>2. Directives' = Directives
      BY <2>2, <3>1
    <3> QED
      BY <1>1, <3>1, <3>2 DEF Kept
  <2> QED
    BY <2>3, <2>4
<1>9. Kept'
  BY <1>4, <1>6, <1>7, <1>8 DEF Kept
<1> QED
  BY <1>1, <1>3, <1>9 DEF GrammarInv

LEMMA GrammarKeepsInv ==
    ASSUME LinesAssumption, CoverInv, GrammarInv, [PatchNext]_patchVars
    PROVE  GrammarInv'
<1>1. CASE \E line \in Lines : ReadPatchLine(line)
  <2>1. PICK line \in Lines : ReadPatchLine(line)
    BY <1>1
  <2>2. read' = Append(read, line) /\ verdict = "Reading" /\ oversize' = oversize
        /\ (RefuseLine(line) \/ Direct(line) \/ PassLine(line))
    BY <2>1 DEF ReadPatchLine
  <2> QED
    BY <2>2, RefusalIsFinal, AcceptedIsKept
<1>2. CASE FinishPatch
  <2>1. /\ Kept /\ Covers /\ IsPatchPrefix /\ ~oversize /\ ops \in Seq(Operations)
    BY <1>2 DEF FinishPatch, GrammarInv, CoverInv
  <2>2. IsPatch <=> read # <<>> /\ terminated /\ ops # <<>>
    BY <2>1, SomeOperation DEF IsPatch, Kept
  <2>3. /\ (Kept' <=> Kept) /\ (IsPatchPrefix' <=> IsPatchPrefix)
        /\ (IsPatch' <=> IsPatch) /\ oversize' = oversize /\ ended'
    <3>1. UNCHANGED <<oversize, read, ops, paths, terminated, awaiting>> /\ ended' = TRUE
      BY <1>2 DEF FinishPatch
    <3>2. Directives' = Directives
      BY <3>1 DEF Directives
    <3>3. Kept' <=> Kept
      BY <3>1, <3>2 DEF Kept
    <3>4. IsPatch' <=> IsPatch
      BY <3>1, <3>2 DEF IsPatch
    <3>5. IsPatchPrefix' <=> IsPatchPrefix
      BY <3>1, <3>2 DEF IsPatchPrefix
    <3> QED
      BY <3>1, <3>3, <3>4, <3>5
  <2>4. verdict' = IF read = <<>> THEN "BeginMissing"
                   ELSE IF ~terminated THEN "EndMissing"
                   ELSE IF ops = <<>> THEN "NoOperations"
                   ELSE "Supported"
    BY <1>2 DEF FinishPatch
  <2> QED
    BY <2>1, <2>2, <2>3, <2>4 DEF GrammarInv
<1>3. CASE UNCHANGED patchVars
  <2>1. UNCHANGED <<oversize, read, ops, paths, terminated, awaiting, ended, verdict>>
    BY <1>3 DEF patchVars
  <2>2. Directives' = Directives
    BY <2>1 DEF Directives
  <2>3. (IsPatchPrefix' <=> IsPatchPrefix) /\ (IsPatch' <=> IsPatch) /\ (Kept' <=> Kept)
    BY <2>1, <2>2 DEF IsPatchPrefix, IsPatch, Kept
  <2> QED
    BY <2>1, <2>3 DEF GrammarInv
<1> QED
  BY <1>1, <1>2, <1>3 DEF PatchNext

\* PatchIsGrammar, for documents of any length and any limits: a document is
\* supported exactly when it is one of the closed shapes, and a line is refused
\* only when no continuation of the text is one (interpret_patch, check_path).
THEOREM PatchGrammatical ==
    ASSUME LinesAssumption
    PROVE  PatchSpec => []PatchIsGrammar
<1>1. GrammarInv => PatchIsGrammar
  BY DEF GrammarInv, PatchIsGrammar
<1>2. PatchSpec => []CoverInv
  BY CoverInitInv, CoverKeepsInv, PTL DEF PatchSpec
<1>3. PatchSpec => []GrammarInv
  BY <1>2, GrammarInitInv, GrammarKeepsInv, PTL DEF PatchSpec
<1> QED
  BY <1>1, <1>3, PTL
-----------------------------------------------------------------------------
(***************************************************************************)
(* Git commands.                                                           *)
(***************************************************************************)

\* What the reader of a command keeps, in terms of the words it has read.
KeepsWords ==
    /\ separator <=> SeparatorWords # {}
    /\ Len(words) >= 2 => profile = words[2]
    /\ seen = {words[i] : i \in 3..(FirstSeparator - 1)}
    /\ operands = SubSeq(words, FirstSeparator + 1, Len(words))

CommandInv ==
    /\ words \in Seq(Words)
    /\ SeparatorWords # {} => \E i \in SeparatorWords : \A j \in SeparatorWords : i <= j
    /\ class \in {"Reading", "Supported"} => IsCommand /\ KeepsWords
    /\ class \notin {"Reading", "Supported"} => ~IsCommand \/ Len(words) < 2

LEMMA FirstIsSeparator ==
    ASSUME CommandInv
    PROVE  /\ SeparatorWords # {} =>
                /\ FirstSeparator \in SeparatorWords
                /\ \A j \in SeparatorWords : FirstSeparator <= j
           /\ SeparatorWords = {} => FirstSeparator = Len(words) + 1
           /\ FirstSeparator \in 1..(Len(words) + 1)
           /\ Len(words) \in Nat
<1>1. Len(words) \in Nat
  BY DEF CommandInv
<1>2. CASE SeparatorWords = {}
  BY <1>1, <1>2 DEF FirstSeparator
<1>3. CASE SeparatorWords # {}
  <2>1. \E i \in SeparatorWords : \A j \in SeparatorWords : i <= j
    BY <1>3 DEF CommandInv
  <2>2. /\ FirstSeparator \in SeparatorWords
        /\ \A j \in SeparatorWords : FirstSeparator <= j
    BY <1>3, <2>1 DEF FirstSeparator
  <2> QED
    BY <1>1, <1>3, <2>2 DEF SeparatorWords
<1> QED
  BY <1>2, <1>3

\* One more word may be the first separator, and otherwise leaves it where it was
\* or, if there is none yet, behind the last word.
LEMMA OneMoreWord ==
    ASSUME CommandInv, NEW w \in Words, words' = Append(words, w)
    PROVE  /\ words' \in Seq(Words) /\ Len(words') = Len(words) + 1
           /\ \A i \in 1..Len(words) : words'[i] = words[i]
           /\ words'[Len(words) + 1] = w
           /\ SeparatorWords' = SeparatorWords \cup
                 (IF w = "--" /\ Len(words) >= 2 THEN {Len(words) + 1} ELSE {})
           /\ SeparatorWords' # {} =>
                 \E i \in SeparatorWords' : \A j \in SeparatorWords' : i <= j
           /\ SeparatorWords # {} => FirstSeparator' = FirstSeparator
           /\ SeparatorWords = {} =>
                 FirstSeparator' = IF w = "--" /\ Len(words) >= 2
                                     THEN Len(words) + 1 ELSE Len(words) + 2
<1>1. /\ words' \in Seq(Words) /\ Len(words') = Len(words) + 1 /\ Len(words) \in Nat
      /\ \A i \in 1..Len(words) : words'[i] = words[i]
      /\ words'[Len(words) + 1] = w
  BY DEF CommandInv
<1>2. SeparatorWords' = SeparatorWords \cup
                 (IF w = "--" /\ Len(words) >= 2 THEN {Len(words) + 1} ELSE {})
  <2>1. 3..Len(words)' = (3..Len(words)) \cup (IF Len(words) >= 2 THEN {Len(words) + 1} ELSE {})
    BY <1>1
  <2>2. \A i \in 3..Len(words) : words'[i] = words[i]
    BY <1>1
  <2> QED
    BY <1>1, <2>1, <2>2 DEF SeparatorWords
<1>3. \A j \in SeparatorWords' : j \in Nat
  BY DEF SeparatorWords
<1>4. CASE SeparatorWords # {}
  <2>1. /\ FirstSeparator \in SeparatorWords /\ FirstSeparator \in 1..(Len(words) + 1)
        /\ \A j \in SeparatorWords : FirstSeparator <= j
    BY <1>4, FirstIsSeparator
  <2>2. FirstSeparator \in SeparatorWords' /\ \A j \in SeparatorWords' : FirstSeparator <= j
    BY <1>1, <1>2, <2>1
  <2>3. FirstSeparator' \in SeparatorWords' /\ \A j \in SeparatorWords' : FirstSeparator' <= j
    BY <2>2 DEF FirstSeparator
  <2>4. FirstSeparator' = FirstSeparator
    BY <1>1, <1>3, <2>1, <2>2, <2>3
  <2> QED
    BY <1>1, <1>2, <1>4, <2>2, <2>4
<1>5. CASE SeparatorWords = {} /\ w = "--" /\ Len(words) >= 2
  <2>1. SeparatorWords' = {Len(words) + 1}
    BY <1>2, <1>5
  <2>2. FirstSeparator' = Len(words) + 1
    BY <1>1, <2>1 DEF FirstSeparator
  <2> QED
    BY <1>1, <1>2, <1>5, <2>1, <2>2
<1>6. CASE SeparatorWords = {} /\ ~(w = "--" /\ Len(words) >= 2)
  <2>1. SeparatorWords' = {}
    BY <1>2, <1>6
  <2>2. FirstSeparator' = Len(words) + 2
    BY <1>1, <2>1 DEF FirstSeparator
  <2> QED
    BY <1>1, <1>2, <1>6, <2>1, <2>2
<1> QED
  BY <1>4, <1>5, <1>6

\* The rest of a sequence behind a place, when one more is appended.
LEMMA RestOfAppend ==
    ASSUME NEW S, NEW s \in Seq(S), NEW e \in S, NEW m \in 1..(Len(s) + 1)
    PROVE  /\ SubSeq(Append(s, e), m, Len(s) + 1) = Append(SubSeq(s, m, Len(s)), e)
           /\ \A k \in Nat : k > Len(s) + 1 => SubSeq(Append(s, e), k, Len(s) + 1) = <<>>
           /\ SubSeq(s, m, Len(s)) \in Seq(S)
           /\ Len(SubSeq(s, m, Len(s))) = Len(s) + 1 - m
<1> DEFINE a == Append(s, e)
           r == SubSeq(s, m, Len(s))
           t == SubSeq(a, m, Len(s) + 1)
<1>1. /\ a \in Seq(S) /\ Len(a) = Len(s) + 1 /\ Len(s) \in Nat
      /\ \A i \in 1..Len(s) : a[i] = s[i]
      /\ a[Len(s) + 1] = e
  OBVIOUS
<1> HIDE DEF a
<1>2. /\ r \in Seq(S) /\ Len(r) = Len(s) + 1 - m
      /\ \A i \in 1..Len(r) : r[i] = s[m + i - 1]
  <2>1. \A i \in m..Len(s) : s[i] \in S
    OBVIOUS
  <2> QED
    BY <1>1, <2>1, SubSeqProperties
<1>3. /\ t \in Seq(S) /\ Len(t) = Len(s) + 2 - m
      /\ \A i \in 1..Len(t) : t[i] = a[m + i - 1]
  <2>1. \A i \in m..(Len(s) + 1) : a[i] \in S
    BY <1>1
  <2>2. m \in 1..Len(a) + 1 /\ Len(s) + 1 \in (m - 1)..Len(a)
    BY <1>1
  <2> QED
    BY SMTT(60), <1>1, <2>1, <2>2, SubSeqProperties
<1> HIDE DEF r, t
<1>4. /\ Append(r, e) \in Seq(S) /\ Len(Append(r, e)) = Len(r) + 1
      /\ \A i \in 1..Len(r) : Append(r, e)[i] = r[i]
      /\ Append(r, e)[Len(r) + 1] = e
  BY <1>2
<1>5. t = Append(r, e)
  <2>1. ASSUME NEW i \in 1..Len(t) PROVE t[i] = Append(r, e)[i]
    <3>1. CASE i = Len(t)
      BY SMTT(60), <1>1, <1>2, <1>3, <1>4, <3>1
    <3>2. CASE i # Len(t)
      <4>0. m \in Nat /\ m >= 1 /\ i \in Nat /\ i >= 1 /\ i <= Len(t) /\ i # Len(t)
        BY <1>1, <1>3, <3>2
      <4>2. Len(s) \in Nat /\ Len(r) = Len(s) + 1 - m /\ Len(t) = Len(s) + 2 - m
        BY <1>1, <1>2, <1>3
      <4>1. i \in 1..Len(r) /\ m + i - 1 \in 1..Len(s)
        BY ONLY <4>0, <4>2
      <4> QED
        BY <1>1, <1>2, <1>3, <1>4, <4>1
    <3> QED
      BY <3>1, <3>2
  <2> QED
    <3>1. Len(t) = Len(Append(r, e))
      BY <1>1, <1>2, <1>3, <1>4
    <3> QED
      BY ONLY <1>3, <1>4, <2>1, <3>1, SeqEqual
<1>6. \A k \in Nat : k > Len(s) + 1 => SubSeq(a, k, Len(s) + 1) = <<>>
  BY <1>1
<1> QED
  BY <1>2, <1>5, <1>6 DEF a, r, t

StillRead == class \in {"Reading", "Supported"}

LEMMA ProgramStep ==
    ASSUME WordsAssumption, CommandInv, StillRead, NEW w \in Words, words' = Append(words, w),
           Program(w)
    PROVE  CommandInv'
<1>1. words = <<>> /\ Len(words) = 0 /\ SeparatorWords = {}
  BY DEF Program, SeparatorWords
<1>2. /\ words' \in Seq(Words) /\ Len(words') = 1 /\ words'[1] = w
      /\ SeparatorWords' = {} /\ FirstSeparator' = 2
  BY <1>1, OneMoreWord
<1>3. CASE w = "git"
  <2>1. UNCHANGED <<profile, seen, separator, operands, class>>
    BY <1>3 DEF Program
  <2>2. IsCommand'
    BY <1>2, <1>3 DEF IsCommand, WordsAssumption
  <2>3. KeepsWords
    BY DEF CommandInv, StillRead
  <2>4. seen = {} /\ operands = <<>> /\ ~separator
    <3>1. FirstSeparator = 1
      BY <1>1, FirstIsSeparator
    <3> QED
      BY <1>1, <2>3, <3>1 DEF KeepsWords
  <2>5. SubSeq(words', 3, 1) = <<>>
    BY <1>1, <1>2, RestOfAppend DEF CommandInv
  <2>6. KeepsWords'
    BY <1>2, <2>1, <2>4, <2>5 DEF KeepsWords
  <2> QED
    BY <1>2, <2>1, <2>2, <2>6 DEF CommandInv, StillRead
<1>4. CASE w # "git"
  BY <1>2, <1>4 DEF Program, RefuseCommand, CommandInv
<1> QED
  BY <1>3, <1>4

LEMMA SubcommandStep ==
    ASSUME WordsAssumption, CommandInv, StillRead, NEW w \in Words, words' = Append(words, w),
           Subcommand(w)
    PROVE  CommandInv'
<1>1. Len(words) = 1 /\ SeparatorWords = {}
  BY DEF Subcommand, SeparatorWords
<1>2. /\ words' \in Seq(Words) /\ Len(words') = 2 /\ words'[2] = w
      /\ words'[1] = words[1]
      /\ SeparatorWords' = {} /\ FirstSeparator' = 3
  BY <1>1, OneMoreWord
<1>3. CASE w \in Subcommands
  <2>0. w \notin Dashed
    BY <1>3 DEF WordsAssumption
  <2>1. UNCHANGED <<seen, separator, operands, class>> /\ profile' = w
    BY <1>3, <2>0 DEF Subcommand
  <2>2. words # <<>>
    BY <1>1
  <2>3. IsCommand /\ KeepsWords
    BY DEF CommandInv, StillRead
  <2>4. IsCommand'
    <3>1. words[1] = "git" /\ MaxPathOperands \in Nat
      BY <2>2, <2>3 DEF IsCommand, WordsAssumption
    <3>2. 3..(FirstSeparator' - 1) = {} /\ (FirstSeparator' + 1)..Len(words') = {}
      BY <1>2
    <3>3. Len(words') - FirstSeparator' <= MaxPathOperands
      BY <1>2, <3>1
    <3> QED
      BY <1>2, <1>3, <3>1, <3>2, <3>3 DEF IsCommand
  <2>5. seen = {} /\ operands = <<>> /\ ~separator
    <3>1. FirstSeparator = 2
      BY <1>1, FirstIsSeparator
    <3> QED
      BY <1>1, <2>3, <3>1 DEF KeepsWords
  <2>6. SubSeq(words', 4, 2) = <<>>
    BY <1>1, <1>2, RestOfAppend DEF CommandInv
  <2>7. KeepsWords'
    BY <1>2, <2>1, <2>5, <2>6 DEF KeepsWords
  <2> QED
    BY <1>2, <2>1, <2>4, <2>7 DEF CommandInv, StillRead
<1>4. CASE w \notin Subcommands
  <2>1. ~IsCommand'
    BY <1>2, <1>4 DEF IsCommand
  <2> QED
    BY <1>2, <1>4, <2>1 DEF Subcommand, RefuseCommand, CommandInv
<1> QED
  BY <1>3, <1>4

LEMMA SeparatorStep ==
    ASSUME WordsAssumption, CommandInv, StillRead, NEW w \in Words, words' = Append(words, w),
           Len(words) >= 2, Separator(w)
    PROVE  CommandInv'
<1>1. IsCommand /\ KeepsWords /\ w = "--" /\ ~separator /\ Len(words) \in Nat
  BY DEF CommandInv, StillRead, Separator, Separates
<1>2. SeparatorWords = {} /\ FirstSeparator = Len(words) + 1
  BY <1>1, FirstIsSeparator DEF KeepsWords
<1>3. /\ words' \in Seq(Words) /\ Len(words') = Len(words) + 1
      /\ \A i \in 1..Len(words) : words'[i] = words[i]
      /\ words'[Len(words) + 1] = w
      /\ SeparatorWords' = {Len(words) + 1} /\ FirstSeparator' = Len(words) + 1
  BY <1>1, <1>2, OneMoreWord
<1>4. profile = words[2] /\ words'[2] = words[2] /\ words'[1] = words[1] /\ words # <<>>
  BY <1>1, <1>3 DEF KeepsWords
<1>5. CASE profile \in TakesPathspecs
  <2>1. UNCHANGED <<profile, seen, operands, class>> /\ separator'
    BY <1>5 DEF Separator
  <2>2. IsCommand'
    <3>1. /\ words[1] = "git" /\ words[2] \in Subcommands /\ MaxPathOperands \in Nat
          /\ \A i \in 3..Len(words) : /\ words[i] \in Flags[words[2]]
                                      /\ \A j \in 3..(i - 1) : words[j] # words[i]
      <4>1. FirstSeparator - 1 = Len(words) /\ MaxPathOperands \in Nat
        BY <1>1, <1>2 DEF WordsAssumption
      <4> QED
        BY <1>1, <1>4, <4>1 DEF IsCommand
    <3>2. /\ 3..(FirstSeparator' - 1) = 3..Len(words)
          /\ (FirstSeparator' + 1)..Len(words') = {}
      BY <1>1, <1>3
    <3>3. \A i \in 3..Len(words) :
             words'[i] = words[i] /\ \A j \in 3..(i - 1) : words'[j] = words[j]
      BY <1>1, <1>3
    <3>4. Len(words') - FirstSeparator' <= MaxPathOperands
      BY <1>1, <1>3, <3>1
    <3> QED
      <4>1. \A i \in 3..(FirstSeparator' - 1) :
               /\ words'[i] \in Flags[words'[2]]
               /\ \A j \in 3..(i - 1) : words'[j] # words'[i]
        <5> TAKE i \in 3..(FirstSeparator' - 1)
        <5>1. i \in 3..Len(words)
          BY <3>2
        <5>2. words'[i] = words[i] /\ \A j \in 3..(i - 1) : words'[j] = words[j]
          BY <3>3, <5>1
        <5> QED
          BY <1>4, <3>1, <5>1, <5>2, Zenon
      <4> QED
        BY <1>4, <1>5, <3>1, <3>2, <3>4, <4>1 DEF IsCommand
  <2>3. operands = <<>>
    BY <1>1, <1>2 DEF KeepsWords
  <2>4. SubSeq(words', FirstSeparator' + 1, Len(words')) = <<>>
    BY <1>1, <1>3, RestOfAppend DEF CommandInv
  <2>5. seen' = {words'[i] : i \in 3..(FirstSeparator' - 1)}
    BY <1>1, <1>2, <1>3, <2>1 DEF KeepsWords
  <2>6. KeepsWords'
    BY <1>3, <1>4, <2>1, <2>3, <2>4, <2>5 DEF KeepsWords
  <2> QED
    BY <1>3, <2>1, <2>2, <2>6 DEF CommandInv, StillRead
<1>6. CASE profile \notin TakesPathspecs
  <2>1. ~IsCommand'
    BY <1>3, <1>4, <1>6 DEF IsCommand
  <2> QED
    BY <1>1, <1>3, <1>6, <2>1 DEF Separator, RefuseCommand, CommandInv
<1> QED
  BY <1>5, <1>6

LEMMA PathspecStep ==
    ASSUME WordsAssumption, CommandInv, StillRead, NEW w \in Words, words' = Append(words, w),
           Len(words) >= 2, Pathspec(w)
    PROVE  CommandInv'
<1>1. IsCommand /\ KeepsWords /\ separator /\ Len(words) \in Nat
  <2>1. separator
    BY DEF Pathspec
  <2> QED
    BY <2>1 DEF CommandInv, StillRead
<1>0. MaxPathOperands \in Nat
  BY DEF WordsAssumption
<1>2. SeparatorWords # {} /\ FirstSeparator \in SeparatorWords
      /\ FirstSeparator \in 3..Len(words)
  BY <1>1, FirstIsSeparator DEF KeepsWords, SeparatorWords
<1>3. /\ words' \in Seq(Words) /\ Len(words') = Len(words) + 1
      /\ \A i \in 1..Len(words) : words'[i] = words[i]
      /\ words'[Len(words) + 1] = w
      /\ SeparatorWords' # {} /\ FirstSeparator' = FirstSeparator
      /\ \E i \in SeparatorWords' : \A j \in SeparatorWords' : i <= j
  BY <1>1, <1>2, OneMoreWord
<1>4. /\ profile = words[2] /\ words'[2] = words[2] /\ words'[1] = words[1] /\ words # <<>>
      /\ 1 \in 1..Len(words)
  BY <1>1, <1>2, <1>3 DEF KeepsWords
<1>5. /\ operands = SubSeq(words, FirstSeparator + 1, Len(words))
      /\ Len(operands) = Len(words) - FirstSeparator
      /\ SubSeq(words', FirstSeparator + 1, Len(words')) = Append(operands, w)
  <2>1. operands = SubSeq(words, FirstSeparator + 1, Len(words))
    BY <1>1 DEF KeepsWords
  <2>2. FirstSeparator + 1 \in 1..(Len(words) + 1)
    BY <1>1, <1>2
  <2> QED
    <3>1. words \in Seq(Words) /\ words' = Append(words, w)
      BY DEF CommandInv
    <3>2. /\ SubSeq(words', FirstSeparator + 1, Len(words) + 1) = Append(operands, w)
          /\ Len(operands) = Len(words) + 1 - (FirstSeparator + 1)
      BY SMTT(60), <2>1, <2>2, <3>1, RestOfAppend
    <3> QED
      <4>1. Len(words') = Len(words) + 1 /\ Len(words) \in Nat
            /\ FirstSeparator \in Nat
        BY <1>1, <1>2, <1>3
      <4>2. Len(operands) = Len(words) - FirstSeparator
        BY ONLY <3>2, <4>1
      <4> QED
        BY ONLY <2>1, <3>2, <4>1, <4>2
<1>9. Len(operands) \in Int /\ MaxPathOperands \in Int
  BY <1>0, <1>1, <1>2, <1>5
<1>6. CASE Len(operands) >= MaxPathOperands
  <2>1. ~IsCommand'
    <3>1. Len(words)' - FirstSeparator' > MaxPathOperands
      BY <1>0, <1>1, <1>2, <1>3, <1>5, <1>6
    <3>2. ~(Len(words') - FirstSeparator' <= MaxPathOperands)
      BY <1>0, <1>1, <1>2, <1>3, <3>1
    <3> QED
      BY <3>2 DEF IsCommand
  <2> QED
    BY <1>1, <1>3, <1>6, <2>1 DEF Pathspec, RefuseCommand, CommandInv
<1>7. CASE Len(operands) < MaxPathOperands /\ w \in {""} \cup Colons
  <2>1. ~IsCommand'
    <3>1. Len(words) + 1 \in (FirstSeparator' + 1)..Len(words')
      BY <1>1, <1>2, <1>3
    <3> QED
      BY <1>3, <1>7, <3>1 DEF IsCommand
  <2>2. ~(Len(operands) >= MaxPathOperands)
    <3>1. Len(operands) < MaxPathOperands
      BY <1>7, Zenon
    <3> QED
      BY ONLY <1>0, <1>9, <3>1
  <2> QED
    BY <1>1, <1>3, <1>7, <2>1, <2>2 DEF Pathspec, RefuseCommand, CommandInv
<1>8. CASE Len(operands) < MaxPathOperands /\ w \notin {""} \cup Colons
  <2>0. ~(Len(operands) >= MaxPathOperands)
    <3>1. Len(operands) < MaxPathOperands
      BY <1>8, Zenon
    <3> QED
      BY ONLY <1>0, <1>9, <3>1
  <2>1. UNCHANGED <<profile, seen, separator, class>> /\ operands' = Append(operands, w)
    BY <1>8, <2>0 DEF Pathspec
  <2>2. IsCommand'
    <3>1. \A i \in 3..(FirstSeparator' - 1) :
             /\ words'[i] \in Flags[words'[2]]
             /\ \A j \in 3..(i - 1) : words'[j] # words'[i]
      <4>1. \A i \in 3..(FirstSeparator - 1) : words'[i] = words[i]
        BY <1>1, <1>2, <1>3
      <4>2. \A i \in 3..(FirstSeparator - 1) : \A j \in 3..(i - 1) : words'[j] = words[j]
        BY <1>1, <1>2, <1>3
      <4>3. \A i \in 3..(FirstSeparator - 1) :
              /\ words[i] \in Flags[words[2]]
              /\ \A j \in 3..(i - 1) : words[j] # words[i]
        BY <1>1 DEF IsCommand
      <4> QED
        BY ONLY <1>3, <1>4, <4>1, <4>2, <4>3
    <3>2. ASSUME NEW i \in (FirstSeparator' + 1)..Len(words') PROVE words'[i] \notin {""} \cup Colons
      <4>1. CASE i = Len(words) + 1
        BY <1>3, <1>8, <4>1
      <4>2. CASE i # Len(words) + 1
        <5>1. i \in (FirstSeparator + 1)..Len(words) /\ i \in 1..Len(words)
          BY <1>1, <1>2, <1>3, <4>2
        <5> QED
          BY <1>1, <1>3, <5>1 DEF IsCommand
      <4> QED
        BY <4>1, <4>2
    <3>3. Len(words') - FirstSeparator' <= MaxPathOperands
      <4>1. /\ Len(words) \in Nat /\ FirstSeparator \in Nat
            /\ Len(words') = Len(words) + 1 /\ FirstSeparator' = FirstSeparator
        BY <1>1, <1>2, <1>3
      <4>2. Len(operands) < MaxPathOperands
        BY <1>8, Zenon
      <4> QED
        BY <1>0, <1>5, <4>1, <4>2
    <3>4. words[2] \in Subcommands /\ words[1] = "git" /\ words[2] \in TakesPathspecs
      BY <1>1, <1>2, <1>4 DEF IsCommand
    <3> QED
      BY <1>4, <3>1, <3>2, <3>3, <3>4 DEF IsCommand
  <2>3. seen' = {words'[i] : i \in 3..(FirstSeparator' - 1)}
    <3>1. \A i \in 3..(FirstSeparator - 1) : words'[i] = words[i]
      BY <1>1, <1>2, <1>3
    <3> QED
      BY ZenonT(60), <1>1, <1>3, <2>1, <3>1 DEF KeepsWords
  <2>4. KeepsWords'
    BY <1>1, <1>3, <1>4, <1>5, <2>1, <2>3 DEF KeepsWords
  <2> QED
    BY <1>3, <2>1, <2>2, <2>4 DEF CommandInv, StillRead
<1>10. Len(operands) >= MaxPathOperands \/ Len(operands) < MaxPathOperands
  BY <1>9
<1> QED
  BY <1>6, <1>7, <1>8, <1>10

LEMMA FlagStep ==
    ASSUME WordsAssumption, CommandInv, StillRead, NEW w \in Words, words' = Append(words, w),
           Len(words) >= 2, ~Separates(w), Flag(w)
    PROVE  CommandInv'
<1>1. IsCommand /\ KeepsWords /\ w # "--" /\ ~separator /\ Len(words) \in Nat
  BY DEF CommandInv, StillRead, Flag, Separates
<1>2. SeparatorWords = {} /\ FirstSeparator = Len(words) + 1
  BY <1>1, FirstIsSeparator DEF KeepsWords
<1>3. /\ words' \in Seq(Words) /\ Len(words') = Len(words) + 1
      /\ \A i \in 1..Len(words) : words'[i] = words[i]
      /\ words'[Len(words) + 1] = w
      /\ SeparatorWords' = {} /\ FirstSeparator' = Len(words) + 2
  BY <1>1, <1>2, OneMoreWord
<1>4. profile = words[2] /\ words'[2] = words[2] /\ words'[1] = words[1] /\ words # <<>>
  BY <1>1, <1>3 DEF KeepsWords
<1>5. FirstSeparator' - 1 = Len(words) + 1 /\ Len(words) + 1 \in 3..(FirstSeparator' - 1)
  BY <1>1, <1>3
<1>6. seen = {words[i] : i \in 3..Len(words)}
  BY <1>1, <1>2 DEF KeepsWords
<1>7. CASE w \notin Flags[profile]
  <2>1. ~IsCommand'
    BY ZenonT(60), <1>3, <1>4, <1>5, <1>7 DEF IsCommand
  <2> QED
    BY <1>1, <1>3, <1>7, <2>1 DEF Flag, RefuseCommand, CommandInv
<1>8. CASE w \in Flags[profile] /\ w \in seen
  <2>1. PICK i \in 3..Len(words) : words[i] = w
    BY <1>6, <1>8
  <2>2. i \in 3..((Len(words) + 1) - 1) /\ words'[i] = words'[Len(words) + 1]
    BY <1>1, <1>3, <2>1
  <2>3. ~IsCommand'
    BY <1>5, <2>2 DEF IsCommand
  <2> QED
    BY <1>1, <1>3, <1>8, <2>3 DEF Flag, RefuseCommand, CommandInv
<1>9. CASE w \in Flags[profile] /\ w \notin seen
  <2>1. UNCHANGED <<profile, separator, operands, class>> /\ seen' = seen \cup {w}
    BY <1>9 DEF Flag
  <2>2. IsCommand'
    <3>1. ASSUME NEW i \in 3..(FirstSeparator' - 1)
          PROVE  /\ words'[i] \in Flags[words'[2]]
                 /\ \A j \in 3..(i - 1) : words'[j] # words'[i]
      <4>1. CASE i = Len(words) + 1
        <5>1. words'[i] = w /\ \A j \in 3..(i - 1) : words'[j] \in seen
          BY <1>1, <1>3, <1>6, <4>1
        <5> QED
          BY <1>4, <1>9, <5>1
      <4>2. CASE i # Len(words) + 1
        <5>1. i \in 3..(FirstSeparator - 1) /\ i \in 1..Len(words)
              /\ \A j \in 3..(i - 1) : j \in 1..Len(words)
          BY <1>1, <1>2, <1>3, <4>2
        <5> QED
          BY <1>1, <1>3, <1>4, <5>1 DEF IsCommand
      <4> QED
        BY <4>1, <4>2
    <3>2. (FirstSeparator' + 1)..Len(words') = {}
      BY <1>1, <1>3
    <3>3. Len(words') - FirstSeparator' <= MaxPathOperands
      BY <1>1, <1>3 DEF WordsAssumption
    <3>4. words[2] \in Subcommands /\ words[1] = "git"
      BY <1>1, <1>4 DEF IsCommand
    <3> QED
      BY <1>3, <1>4, <3>1, <3>2, <3>3, <3>4 DEF IsCommand
  <2>3. seen' = {words'[i] : i \in 3..(FirstSeparator' - 1)}
    <3>1. 3..(FirstSeparator' - 1) = (3..Len(words)) \cup {Len(words) + 1}
      BY <1>1, <1>3
    <3>2. \A i \in 3..Len(words) : words'[i] = words[i]
      BY <1>1, <1>3
    <3> QED
      BY <1>3, <1>6, <2>1, <3>1, <3>2
  <2>4. operands = <<>>
    BY <1>1, <1>2 DEF KeepsWords
  <2>5. SubSeq(words', FirstSeparator' + 1, Len(words')) = <<>>
    BY <1>1, <1>3, RestOfAppend DEF CommandInv
  <2>6. KeepsWords'
    BY <1>1, <1>2, <1>3, <1>4, <2>1, <2>3, <2>4, <2>5 DEF KeepsWords
  <2> QED
    BY <1>3, <2>1, <2>2, <2>6 DEF CommandInv, StillRead
<1> QED
  BY <1>7, <1>8, <1>9

LEMMA CommandStep ==
    ASSUME WordsAssumption, CommandInv, [CommandNext]_commandVars
    PROVE  CommandInv'
<1>1. ASSUME NEW w \in Words, ReadWord(w) PROVE CommandInv'
  <2>1. StillRead /\ words' = Append(words, w)
    BY <1>1 DEF ReadWord, StillRead
  <2>2. CASE Program(w)
    BY <2>1, <2>2, ProgramStep
  <2>3. CASE Subcommand(w)
    BY <2>1, <2>3, SubcommandStep
  <2>4. CASE Argument(w)
    BY <2>1, <2>4, SeparatorStep, PathspecStep, FlagStep DEF Argument
  <2> QED
    BY <1>1, <2>2, <2>3, <2>4 DEF ReadWord
<1>2. CASE FinishCommand
  <2>1. /\ UNCHANGED <<words, profile, seen, separator, operands>>
        /\ IsCommand /\ KeepsWords
        /\ class' # "Supported" => Len(words) < 2
    BY <1>2 DEF FinishCommand, CommandInv
  <2>2. IsCommand' /\ KeepsWords'
    <3>1. SeparatorWords' = SeparatorWords /\ FirstSeparator' = FirstSeparator
      BY <2>1 DEF SeparatorWords, FirstSeparator
    <3> QED
      BY <2>1, <3>1 DEF IsCommand, KeepsWords
  <2> QED
    BY <1>2, <2>1, <2>2 DEF FinishCommand, CommandInv, SeparatorWords
<1>3. CASE UNCHANGED commandVars
  BY ZenonT(60), <1>3 DEF commandVars, CommandInv, IsCommand, KeepsWords, SeparatorWords,
              FirstSeparator
<1> QED
  BY <1>1, <1>2, <1>3 DEF CommandNext

LEMMA CommandStart == WordsAssumption /\ CommandInit => CommandInv
<1> SUFFICES ASSUME WordsAssumption, CommandInit PROVE CommandInv
  OBVIOUS
<1>1. words = <<>> /\ words \in Seq(Words) /\ Len(words) = 0
  BY DEF CommandInit
<1>2. SeparatorWords = {} /\ FirstSeparator = 1
  BY <1>1 DEF SeparatorWords, FirstSeparator
<1>3. IsCommand
  BY <1>1, <1>2 DEF IsCommand, WordsAssumption
<1>4. KeepsWords
  <2>1. SubSeq(words, 2, 0) = <<>>
    BY <1>1
  <2> QED
    BY <1>1, <1>2, <2>1 DEF KeepsWords, CommandInit
<1> QED
  BY <1>1, <1>2, <1>3, <1>4 DEF CommandInv, CommandInit

\* OperandsAreExact, for commands of any words and any length (classify).
THEOREM OperandsExact ==
    ASSUME WordsAssumption
    PROVE  CommandSpec => []OperandsAreExact
<1>1. CommandInv => OperandsAreExact
  BY DEF CommandInv, OperandsAreExact, KeepsWords
<1>2. CommandSpec => []CommandInv
  BY CommandStart, CommandStep, PTL DEF CommandSpec
<1> QED
  BY <1>1, <1>2, PTL

(***************************************************************************)
(* The words of a command.                                                 *)
(***************************************************************************)

\* The characters the tokenizer tells apart.
LEMMA SpecialCharacters ==
    /\ {Blank, Single, Double, Escape, Live} \subseteq ShellCharacters
    /\ Literals \cup Operators \subseteq ShellCharacters
    /\ Blank \notin {Single, Double, Escape, Live} \cup Operators
    /\ Single \notin {Double, Escape, Live} \cup Operators
    /\ Double \notin {Escape, Live} \cup Operators
    /\ Escape \notin {Live} \cup Operators
    /\ Live \notin Operators
    /\ Literals \cap ({Blank, Single, Double, Escape, Live} \cup Operators) = {}
<1>1. {Blank, Single, Double, Escape, Live} \cup Operators \subseteq Special
  BY DEF Special
<1>2. Literals \cap ({Blank, Single, Double, Escape, Live} \cup Operators) = {}
  BY <1>1, ShellAssumption
<1>3. /\ Blank \notin {Single, Double, Escape, Live} \cup Operators
      /\ Single \notin {Double, Escape, Live} \cup Operators
      /\ Double \notin {Escape, Live} \cup Operators
      /\ Escape \notin {Live} \cup Operators
      /\ Live \notin Operators
  BY DEF Blank, Single, Double, Escape, Live, Operators, LineFeed
<1>4. QED
  BY <1>1, <1>2, <1>3 DEF ShellCharacters

\* The pieces of a double quoted text, and the quote that closes it.
Closing == <<Double>>
DoubleEnds == DoublePieces \cup {Closing}

LEMMA DoubleForms ==
    ASSUME NEW p \in DoubleEnds
    PROVE  /\ p \in Seq(ShellCharacters) /\ p # <<>>
           /\ \/ Len(p) = 1 /\ p[1] \notin {Escape, Live}
              \/ Len(p) = 2 /\ p[1] = Escape /\ p[2] \in Escapable
           /\ p \in DoublePieces => p # Closing
<1>1. Len(<<>>) = 0
  OBVIOUS
<1>2. CASE p = Closing
  <2>1. Len(Closing) = 1 /\ Closing[1] = Double /\ Closing \in Seq(ShellCharacters)
    BY SpecialCharacters DEF Closing
  <2>2. Closing \notin DoublePieces
    BY <2>1 DEF DoublePieces, Escapable
  <2>3. QED
    BY <1>1, <1>2, <2>1, <2>2, SpecialCharacters
<1>3. CASE p \in DoublePieces /\ p # Closing
  <2>1. /\ p \in Seq(ShellCharacters)
        /\ \/ Len(p) = 1 /\ p[1] \notin Escapable
           \/ Len(p) = 2 /\ p[1] = Escape /\ p[2] \in Escapable
    BY <1>3 DEF DoublePieces
  <2>2. QED
    BY <1>1, <1>3, <2>1 DEF Escapable
<1>4. QED
  BY <1>2, <1>3 DEF DoubleEnds

LEMMA DoublePrefixFree == PrefixFree(DoubleEnds) /\ PrefixFree(DoublePieces)
<1>1. ASSUME NEW p \in DoubleEnds, NEW q \in DoubleEnds, Len(p) <= Len(q),
             \A i \in 1..Len(p) : p[i] = q[i]
      PROVE  p = q
  <2>1. /\ p \in Seq(ShellCharacters) /\ q \in Seq(ShellCharacters)
        /\ p[1] = q[1] /\ Len(p) \in {1, 2} /\ Len(q) \in {1, 2}
    BY <1>1, DoubleForms
  <2>2. Len(p) = Len(q)
    BY <1>1, <2>1, DoubleForms
  <2>3. QED
    BY <1>1, <2>1, <2>2, SeqEqual
<1>2. PrefixFree(DoubleEnds)
  BY <1>1 DEF PrefixFree
<1>3. PrefixFree(DoublePieces)
  BY <1>1 DEF PrefixFree, DoubleEnds
<1>4. QED
  BY <1>2, <1>3

\* The forms of the legal pieces.
Inside(p) == \E parts \in Seq(DoublePieces) : FlattenSeq(parts) = Within(p)

LEMMA WithinForm ==
    ASSUME NEW p \in Seq(ShellCharacters), Len(p) >= 2
    PROVE  /\ Within(p) \in Seq(ShellCharacters)
           /\ Len(Within(p)) = Len(p) - 2
           /\ \A i \in 1..(Len(p) - 2) : Within(p)[i] = p[i + 1]
<1>1. Len(p) \in Nat /\ \A i \in 1..Len(p) : p[i] \in ShellCharacters
  BY LenProperties, ElementOfSeq
<1>2. /\ 2 \in Int /\ Len(p) - 1 \in Int
      /\ \A i \in 2..(Len(p) - 1) : p[i] \in ShellCharacters
  BY <1>1
<1> DEFINE w == SubSeq(p, 2, Len(p) - 1)
<1>3. /\ w \in Seq(ShellCharacters)
      /\ Len(w) = IF 2 <= Len(p) - 1 THEN (Len(p) - 1) - 2 + 1 ELSE 0
      /\ \A i \in 1..((Len(p) - 1) - 2 + 1) : w[i] = p[2 + i - 1]
  BY <1>2, SubSeqProperties
<1> HIDE DEF w
<1>4. (Len(p) - 1) - 2 + 1 = Len(p) - 2 /\ \A i \in 1..(Len(p) - 2) : 2 + i - 1 = i + 1
  BY <1>1
<1>5. Len(w) = Len(p) - 2
  <2>0. Len(p) \in Nat
    BY <1>1
  <2>1. CASE Len(p) > 2
    BY <2>0, <1>3, <2>1
  <2>2. CASE Len(p) = 2
    <3>1. Len(w) = 0
      BY <1>3, <2>2
    <3>2. QED
      BY <2>2, <3>1
  <2>3. \A l \in Nat : l >= 2 => l > 2 \/ l = 2
    OBVIOUS
  <2>4. QED
    BY <2>0, <2>1, <2>2, <2>3
<1>6. QED
  BY <1>3, <1>4, <1>5 DEF w, Within

LEMMA DoublePiecesAreTexts ==
    /\ DoublePieces \subseteq Seq(ShellCharacters) \ {<<>>}
    /\ DoubleEnds \subseteq Seq(ShellCharacters) \ {<<>>}
    /\ DoublePieces \ {<<>>} = DoublePieces
    /\ Seq(DoublePieces) \subseteq Seq(DoubleEnds)
<1>1. DoubleEnds \subseteq Seq(ShellCharacters) \ {<<>>}
  BY DoubleForms
<1>2. DoublePieces \subseteq DoubleEnds
  BY DEF DoubleEnds
<1>3. Seq(DoublePieces) \subseteq Seq(DoubleEnds)
  BY <1>2, SeqMonotonic
<1>4. QED
  BY <1>1, <1>2, <1>3

LEMMA DoubleCut ==
    ASSUME NEW p \in Seq(ShellCharacters), Len(p) >= 2, NEW parts
    PROVE  parts \in DoubleCuttings(p)
              <=> parts \in Seq(DoublePieces) /\ FlattenSeq(parts) = Within(p)
<1>1. Within(p) \in Seq(ShellCharacters) /\ DoublePieces \in SUBSET Seq(ShellCharacters)
      /\ DoublePieces \ {<<>>} = DoublePieces
  BY WithinForm, DoublePiecesAreTexts
<1>2. QED
  BY <1>1, CuttingsOfText DEF DoubleCuttings

LEMMA LegalForms ==
    ASSUME NEW p \in LegalPieces
    PROVE  /\ p \in Seq(ShellCharacters) /\ p # <<>>
           /\ \/ Len(p) = 1 /\ p[1] \in Literals \cup {Blank}
              \/ Len(p) = 2 /\ p[1] = Escape
              \/ Between(p, Single) /\ \A i \in 2..(Len(p) - 1) : p[i] # Single
              \/ Between(p, Double) /\ Inside(p)
<1>1. p \in Seq(ShellCharacters) /\ Len(p) \in Nat /\ Len(<<>>) = 0
  BY LenProperties DEF LegalPieces
<1>2. \/ Len(p) = 1 /\ p[1] \in Literals \cup {Blank}
      \/ Len(p) = 2 /\ p[1] = Escape
      \/ Between(p, Single) /\ \A i \in DOMAIN Within(p) : Within(p)[i] # Single
      \/ Between(p, Double) /\ DoubleCuttings(p) # {}
  BY DEF LegalPieces
<1>3. p # <<>>
  BY <1>1, <1>2 DEF Between
<1>4. ASSUME Between(p, Single), \A i \in DOMAIN Within(p) : Within(p)[i] # Single
      PROVE  \A i \in 2..(Len(p) - 1) : p[i] # Single
  <2>1. /\ Len(p) >= 2 /\ DOMAIN Within(p) = 1..(Len(p) - 2)
        /\ \A i \in 1..(Len(p) - 2) : Within(p)[i] = p[i + 1]
    BY <1>1, <1>4, WithinForm, LenProperties DEF Between
  <2>2. ASSUME NEW i \in 2..(Len(p) - 1) PROVE p[i] # Single
    <3>1. i - 1 \in 1..(Len(p) - 2) /\ (i - 1) + 1 = i
      BY <1>1
    <3>2. QED
      BY <1>4, <2>1, <3>1
  <2>3. QED
    BY <2>2
<1>5. ASSUME Between(p, Double), DoubleCuttings(p) # {}
      PROVE  Inside(p)
  <2>1. PICK parts : parts \in DoubleCuttings(p)
    BY <1>5
  <2>2. QED
    BY <1>1, <1>5, <2>1, DoubleCut DEF Between, Inside
<1>6. QED
  BY <1>1, <1>2, <1>3, <1>4, <1>5

\* A double quoted piece in a text: its parts, and the quote behind them.
Quoted(p, parts, text, n) ==
    /\ FlattenSeq(parts) = Within(p)
    /\ FlattenSeq(parts) \in Seq(ShellCharacters)
    /\ Len(p) = Len(FlattenSeq(parts)) + 2
    /\ Found(FlattenSeq(parts), text, n + 1)
    /\ FlattenSeq(Append(parts, Closing)) \in Seq(ShellCharacters)
    /\ Len(FlattenSeq(Append(parts, Closing))) = Len(FlattenSeq(parts)) + 1
    /\ Found(FlattenSeq(Append(parts, Closing)), text, n + 1)
    /\ Append(parts, Closing) \in Seq(DoubleEnds)

LEMMA QuotedPiece ==
    ASSUME NEW p \in LegalPieces, p[1] = Double, NEW text \in Seq(ShellCharacters),
           NEW n \in Nat, Found(p, text, n)
    PROVE  \E parts \in Seq(DoublePieces) : Quoted(p, parts, text, n)
<1>1. /\ p \in Seq(ShellCharacters) /\ Len(p) \in Nat /\ Len(text) \in Nat
      /\ Len(p) >= 2 /\ p[Len(p)] = Double /\ Inside(p)
  <2>1. /\ Double \notin Literals \cup {Blank} /\ Double # Escape /\ Double # Single
    BY SpecialCharacters
  <2>2. p \in Seq(ShellCharacters) /\ Between(p, Double) /\ Inside(p)
    BY <2>1, LegalForms DEF Between
  <2>3. QED
    BY <2>2, LenProperties DEF Between
<1>2. PICK parts \in Seq(DoublePieces) : FlattenSeq(parts) = Within(p)
  BY <1>1 DEF Inside
<1> DEFINE w == FlattenSeq(parts)
           all == FlattenSeq(Append(parts, Closing))
<1>3. /\ w \in Seq(ShellCharacters) /\ Len(w) = Len(p) - 2
      /\ \A i \in 1..(Len(p) - 2) : w[i] = p[i + 1]
  BY <1>1, <1>2, WithinForm
<1>4. /\ Closing \in DoubleEnds /\ Closing \in Seq(ShellCharacters)
      /\ Len(Closing) = 1 /\ Closing[1] = Double
  BY SpecialCharacters DEF Closing, DoubleEnds
<1>5. /\ parts \in Seq(DoubleEnds) /\ parts \in Seq(Seq(ShellCharacters))
      /\ Append(parts, Closing) \in Seq(DoubleEnds)
  <2>1. parts \in Seq(DoubleEnds) /\ DoubleEnds \subseteq Seq(ShellCharacters)
    BY DoublePiecesAreTexts
  <2>2. QED
    BY <1>4, <2>1, AppendProperties, SeqMonotonic
<1>6. all = w \o Closing
  BY <1>4, <1>5, FlattenAppend
<1>7. Found(w, text, n + 1)
  <2>1. (n + 1) + Len(w) <= Len(text)
    BY <1>1, <1>3 DEF Found
  <2>2. ASSUME NEW i \in 1..Len(w) PROVE text[(n + 1) + i] = w[i]
    <3>1. i \in 1..(Len(p) - 2) /\ i + 1 \in 1..Len(p) /\ (n + 1) + i = n + (i + 1)
      BY <1>1, <1>3
    <3>2. text[n + (i + 1)] = p[i + 1]
      BY <3>1 DEF Found
    <3>3. QED
      BY <1>3, <3>1, <3>2
  <2>3. QED
    BY <2>1, <2>2 DEF Found
<1>8. Found(Closing, text, (n + 1) + Len(w))
  <2>1. ((n + 1) + Len(w)) + 1 = n + Len(p) /\ Len(p) \in 1..Len(p)
    BY <1>1, <1>3
  <2>2. text[n + Len(p)] = Double /\ n + Len(p) <= Len(text)
    BY <1>1, <2>1 DEF Found
  <2>3. QED
    BY <1>4, <2>1, <2>2 DEF Found
<1>9. Found(all, text, n + 1) /\ all \in Seq(ShellCharacters) /\ Len(all) = Len(w) + 1
  <2>1. n + 1 \in Nat
    OBVIOUS
  <2> HIDE DEF w
  <2>2. Found(w \o Closing, text, n + 1)
    BY <1>3, <1>4, <1>7, <1>8, <2>1, FoundConcat
  <2>3. w \o Closing \in Seq(ShellCharacters) /\ Len(w \o Closing) = Len(w) + 1
    <3>1. /\ w \o Closing \in Seq(ShellCharacters)
          /\ Len(w \o Closing) = Len(w) + Len(Closing)
      BY <1>3, <1>4, ConcatProperties
    <3>2. QED
      BY <1>4, <3>1
  <2>4. QED
    BY <1>6, <2>2, <2>3
<1>10. Len(p) = Len(w) + 2
  BY <1>1, <1>3
<1>11. QED
  BY <1>2, <1>3, <1>5, <1>7, <1>9, <1>10 DEF Quoted

\* Where a double quoted text ends, none of its parts is.
LEMMA NoClosing ==
    ASSUME NEW parts \in Seq(DoublePieces), NEW before \in Seq(DoubleEnds),
           NEW e \in Seq(DoubleEnds)
    PROVE  parts # Append(before, Closing) \o e
<1> SUFFICES ASSUME parts = Append(before, Closing) \o e PROVE FALSE
  OBVIOUS
<1> DEFINE a == Append(before, Closing)
           n == Len(before) + 1
<1>1. Closing \in DoubleEnds
  BY DEF DoubleEnds
<1>2. a \in Seq(DoubleEnds) /\ Len(before) \in Nat /\ Len(a) = n /\ a[n] = Closing
  BY <1>1, LenProperties, AppendProperties
<1> HIDE DEF a
<1>3. Len(e) \in Nat /\ Len(a \o e) = Len(a) + Len(e)
      /\ \A i \in 1..(Len(a) + Len(e)) : (a \o e)[i] = IF i <= Len(a) THEN a[i] ELSE e[i - Len(a)]
  BY <1>2, LenProperties, ConcatProperties
<1>4. n \in 1..(Len(a) + Len(e)) /\ n <= Len(a)
  BY <1>2, <1>3
<1>5. (a \o e)[n] = Closing /\ n \in 1..Len(a \o e)
  BY <1>2, <1>3, <1>4
<1>6. parts = a \o e
  BY DEF a
<1>7. parts[n] \in DoublePieces /\ parts[n] = Closing
  BY <1>5, <1>6, ElementOfSeq
<1>8. QED
  BY <1>1, <1>7, DoubleForms

LEMMA LegalPrefixFree == PrefixFree(LegalPieces)
<1> SUFFICES ASSUME NEW p \in LegalPieces, NEW q \in LegalPieces, Len(p) <= Len(q),
                    \A i \in 1..Len(p) : p[i] = q[i]
             PROVE  p = q
  BY DEF PrefixFree
<1>1. /\ p \in Seq(ShellCharacters) /\ q \in Seq(ShellCharacters)
      /\ p # <<>> /\ q # <<>>
  BY LegalForms
<1>2. Len(p) \in Nat /\ Len(q) \in Nat /\ Len(p) >= 1 /\ p[1] = q[1]
  BY <1>1, LenProperties, EmptySeq
<1>3. SUFFICES Len(p) = Len(q)
  BY <1>1, <1>3, SeqEqual
<1>4. /\ \/ p[1] \in Literals \cup {Blank} /\ Len(p) = 1 /\ Len(q) = 1
         \/ p[1] = Escape /\ Len(p) = 2 /\ Len(q) = 2
         \/ p[1] = Single
         \/ p[1] = Double
      /\ p[1] = Single => /\ Between(p, Single) /\ Between(q, Single)
                          /\ \A i \in 2..(Len(q) - 1) : q[i] # Single
  BY <1>2, LegalForms, SpecialCharacters DEF Between
<1>5. CASE p[1] = Single
  <2>1. SUFFICES ASSUME Len(p) < Len(q) PROVE FALSE
    BY <1>2
  <2>2. Len(p) \in 2..(Len(q) - 1) /\ p[Len(p)] = Single
    BY <1>2, <1>4, <1>5, <2>1 DEF Between
  <2>3. q[Len(p)] = Single
    BY <1>2, <2>2
  <2>4. QED
    BY <1>4, <1>5, <2>2, <2>3
<1>6. CASE p[1] = Double
  <2>1. Found(p, q, 0) /\ Found(q, q, 0) /\ q[1] = Double /\ 0 \in Nat
    BY <1>2, <1>6 DEF Found
  <2>2. PICK P \in Seq(DoublePieces) : Quoted(p, P, q, 0)
    BY <1>1, <1>6, <2>1, QuotedPiece
  <2>3. PICK Q \in Seq(DoublePieces) : Quoted(q, Q, q, 0)
    BY <1>1, <2>1, QuotedPiece
  <2> DEFINE a == Append(P, Closing)
             b == Append(Q, Closing)
  <2>4. /\ a \in Seq(DoubleEnds) /\ b \in Seq(DoubleEnds)
        /\ Found(FlattenSeq(a), q, 1) /\ Found(FlattenSeq(b), q, 1)
        /\ Len(p) = Len(FlattenSeq(a)) + 1 /\ Len(q) = Len(FlattenSeq(b)) + 1
        /\ FlattenSeq(a) \in Seq(ShellCharacters) /\ FlattenSeq(b) \in Seq(ShellCharacters)
    <3>1. \A k \in Nat : (k + 1) + 1 = k + 2
      OBVIOUS
    <3>2. /\ FlattenSeq(P) \in Seq(ShellCharacters) /\ FlattenSeq(Q) \in Seq(ShellCharacters)
          /\ Len(FlattenSeq(P)) \in Nat /\ Len(FlattenSeq(Q)) \in Nat /\ 0 + 1 = 1
      BY <2>2, <2>3, LenProperties DEF Quoted
    <3>3. QED
      BY <2>2, <2>3, <3>1, <3>2 DEF Quoted
  <2> HIDE DEF a, b
  <2>5. Len(FlattenSeq(a)) <= Len(FlattenSeq(b))
    BY <1>2, <2>4, LenProperties
  <2>6. Begins(DoubleEnds, a, b)
    BY <1>1, <2>4, <2>5, PrefixCut, DoublePiecesAreTexts, DoublePrefixFree
  <2>7. PICK e \in Seq(DoubleEnds) :
            b = a \o e /\ FlattenSeq(b) = FlattenSeq(a) \o FlattenSeq(e)
    BY <2>6 DEF Begins
  <2>8. CASE e = <<>>
    <3>1. b = a
      BY <2>4, <2>7, <2>8, ConcatEmptySeq
    <3>2. QED
      BY <2>4, <3>1
  <2>9. CASE e # <<>>
    <3>1. PICK d \in Seq(DoubleEnds), y \in DoubleEnds : e = Append(d, y)
      BY <2>9, SequenceEmptyOrAppend
    <3>2. b = Append(a \o d, y) /\ a \o d \in Seq(DoubleEnds)
      <4>1. a \o Append(d, y) = Append(a \o d, y)
        BY SMTT(60), <2>4, AppendBehind
      <4>2. QED
        BY <2>4, <2>7, <3>1, <4>1, ConcatProperties
    <3>3. Q \in Seq(DoubleEnds) /\ Closing \in DoubleEnds /\ P \in Seq(DoubleEnds)
      BY DoublePiecesAreTexts DEF DoubleEnds
    <3>4. Append(Q, Closing) = Append(a \o d, y)
      BY <3>2 DEF b
    <3>5. Q = a \o d
      <4> DEFINE g == a \o d
      <4>1. g \in Seq(DoubleEnds) /\ Append(Q, Closing) = Append(g, y)
        BY <3>2, <3>4
      <4> HIDE DEF g
      <4>2. Q = g
        BY <3>3, <4>1, AppendInjective
      <4>3. QED
        BY <4>2 DEF g
    <3>6. Q # Append(P, Closing) \o d
      BY <3>3, NoClosing
    <3>7. QED
      BY <3>5, <3>6 DEF a
  <2>10. QED
    BY <2>8, <2>9
<1>7. QED
  BY <1>4, <1>5, <1>6

\* What stands behind the parts read so far is a part more or the quote.
LEMMA DoubleRest ==
    ASSUME NEW p \in LegalPieces, p[1] = Double, NEW text \in Seq(ShellCharacters),
           NEW n \in Nat, Found(p, text, n), NEW parts \in Seq(DoublePieces),
           Found(FlattenSeq(parts), text, n + 1)
    PROVE  \E x \in DoubleEnds : Found(x, text, (n + 1) + Len(FlattenSeq(parts)))
<1>1. PICK P \in Seq(DoublePieces) : Quoted(p, P, text, n)
  BY QuotedPiece
<1> DEFINE a == Append(P, Closing)
<1>2. /\ a \in Seq(DoubleEnds) /\ Found(FlattenSeq(a), text, n + 1)
      /\ FlattenSeq(a) \in Seq(ShellCharacters)
  BY <1>1 DEF Quoted
<1>3. /\ parts \in Seq(DoubleEnds) /\ FlattenSeq(parts) \in Seq(ShellCharacters)
      /\ P \in Seq(DoubleEnds) /\ n + 1 \in Nat
  <2>1. parts \in Seq(DoubleEnds) /\ P \in Seq(DoubleEnds)
    BY DoublePiecesAreTexts
  <2>2. DoubleEnds \subseteq Seq(ShellCharacters)
    BY DoublePiecesAreTexts
  <2>3. parts \in Seq(Seq(ShellCharacters))
    BY <2>1, <2>2, SeqMonotonic
  <2>4. QED
    BY <2>1, <2>3, FlattenType
<1>4. Len(FlattenSeq(a)) \in Nat /\ Len(FlattenSeq(parts)) \in Nat
  BY <1>2, <1>3, LenProperties
<1>5. \A e \in Seq(DoubleEnds) : parts # a \o e
  BY <1>3, NoClosing
<1> HIDE DEF a
<1>6. parts # a \o <<>> /\ \A e \in Seq(DoubleEnds) : parts # a \o e
  <2>1. <<>> \in Seq(DoubleEnds)
    OBVIOUS
  <2>2. QED
    BY <1>5, <2>1
<1>7. CASE Len(FlattenSeq(parts)) <= Len(FlattenSeq(a))
  <2>1. Begins(DoubleEnds, parts, a)
    BY <1>2, <1>3, <1>7, PrefixCut, DoublePiecesAreTexts, DoublePrefixFree
  <2>2. PICK e \in Seq(DoubleEnds) :
            a = parts \o e /\ FlattenSeq(a) = FlattenSeq(parts) \o FlattenSeq(e)
    BY <2>1 DEF Begins
  <2>3. e # <<>>
    <3>1. e = <<>> => a = parts /\ parts = a \o <<>>
      BY <1>2, <1>3, <2>2, ConcatEmptySeq
    <3>2. QED
      BY <1>6, <3>1
  <2>4. FirstOf(ShellCharacters, DoubleEnds, e)
    BY <2>3, FirstPiece, DoublePiecesAreTexts
  <2>5. PICK x \in DoubleEnds, rest \in Seq(DoubleEnds) :
            /\ x \in Seq(ShellCharacters) /\ FlattenSeq(rest) \in Seq(ShellCharacters)
            /\ FlattenSeq(e) = x \o FlattenSeq(rest)
    BY <2>4 DEF FirstOf
  <2>6. FlattenSeq(e) \in Seq(ShellCharacters)
    BY <2>5, ConcatProperties
  <2>7. Found(FlattenSeq(e), text, (n + 1) + Len(FlattenSeq(parts)))
    <3>1. Found(FlattenSeq(parts) \o FlattenSeq(e), text, n + 1)
      BY <1>2, <2>2
    <3>2. QED
      BY <1>3, <2>6, <3>1, FoundConcat
  <2>8. Found(x, text, (n + 1) + Len(FlattenSeq(parts)))
    <3>1. (n + 1) + Len(FlattenSeq(parts)) \in Nat
      BY <1>3, <1>4
    <3>2. Found(x \o FlattenSeq(rest), text, (n + 1) + Len(FlattenSeq(parts)))
      BY <2>5, <2>7
    <3>3. QED
      BY <2>5, <3>1, <3>2, FoundConcat
  <2>9. QED
    BY <2>8
<1>8. CASE Len(FlattenSeq(a)) <= Len(FlattenSeq(parts))
  <2>1. Begins(DoubleEnds, a, parts)
    BY <1>2, <1>3, <1>8, PrefixCut, DoublePiecesAreTexts, DoublePrefixFree
  <2>2. QED
    BY <1>6, <2>1 DEF Begins
<1>9. QED
  BY <1>4, <1>7, <1>8

-----------------------------------------------------------------------------
\* What the legal pieces stand for.
Lasts(parts) == [k \in DOMAIN parts |-> parts[k][Len(parts[k])]]

LEMMA LastsGrow ==
    ASSUME NEW parts \in Seq(DoublePieces), NEW x \in DoublePieces
    PROVE  /\ Lasts(parts) \in Seq(ShellCharacters)
           /\ x[Len(x)] \in ShellCharacters
           /\ Lasts(Append(parts, x)) = Append(Lasts(parts), x[Len(x)])
<1> DEFINE value == [p \in DoublePieces |-> p[Len(p)]]
<1>1. ASSUME NEW p \in DoublePieces PROVE p[Len(p)] \in ShellCharacters
  <2>1. p \in Seq(ShellCharacters) /\ Len(p) \in {1, 2}
    BY DEF DoublePieces
  <2>2. Len(p) \in 1..Len(p)
    BY <2>1
  <2>3. QED
    BY <2>1, <2>2, ElementOfSeq
<1> DEFINE more == Append(parts, x)
<1>2. /\ Len(parts) \in Nat /\ DOMAIN parts = 1..Len(parts)
      /\ \A k \in 1..Len(parts) : parts[k] \in DoublePieces
  BY LenProperties, ElementOfSeq
<1>3. /\ Len(more) = Len(parts) + 1 /\ DOMAIN more = 1..(Len(parts) + 1)
      /\ \A k \in 1..Len(parts) : more[k] = parts[k]
      /\ more[Len(parts) + 1] = x
  BY <1>2, AppendProperties, LenProperties
<1> HIDE DEF more
<1> DEFINE s == Lasts(parts)
           t == Lasts(more)
<1>4. s \in Seq(ShellCharacters) /\ Len(s) = Len(parts)
      /\ \A k \in 1..Len(parts) : s[k] = parts[k][Len(parts[k])]
  <2>1. s \in [1..Len(parts) -> ShellCharacters]
    BY <1>1, <1>2 DEF Lasts
  <2>2. QED
    BY <1>2, <2>1 DEF Lasts
<1>5. t \in Seq(ShellCharacters) /\ Len(t) = Len(parts) + 1
      /\ \A k \in 1..(Len(parts) + 1) : t[k] = more[k][Len(more[k])]
  <2>1. \A k \in 1..(Len(parts) + 1) : more[k] \in DoublePieces
    BY <1>2, <1>3
  <2>2. t \in [1..(Len(parts) + 1) -> ShellCharacters]
    BY <1>1, <1>3, <2>1 DEF Lasts
  <2>3. QED
    BY <1>2, <1>3, <2>2 DEF Lasts
<1> HIDE DEF s, t
<1> DEFINE u == Append(s, x[Len(x)])
<1>6. /\ u \in Seq(ShellCharacters) /\ Len(u) = Len(parts) + 1
      /\ \A k \in 1..Len(parts) : u[k] = s[k]
      /\ u[Len(parts) + 1] = x[Len(x)]
  BY <1>1, <1>4, AppendProperties
<1> HIDE DEF u
<1>7. \A k \in 1..(Len(parts) + 1) : t[k] = u[k]
  <2>1. ASSUME NEW k \in 1..(Len(parts) + 1) PROVE t[k] = u[k]
    <3>1. CASE k = Len(parts) + 1
      BY <1>2, <1>3, <1>5, <1>6, <3>1
    <3>2. CASE k # Len(parts) + 1
      <4>1. k \in 1..Len(parts)
        BY <1>2, <3>2
      <4>2. t[k] = more[k][Len(more[k])] /\ more[k] = parts[k] /\ u[k] = s[k]
        BY <1>3, <1>5, <1>6, <4>1
      <4>3. s[k] = parts[k][Len(parts[k])]
        BY <1>4, <4>1
      <4>4. QED
        BY <4>2, <4>3
    <3>3. QED
      BY <3>1, <3>2
  <2>2. QED
    BY <2>1
<1>8. t = u
  BY <1>5, <1>6, <1>7, SeqEqual
<1>9. QED
  BY <1>1, <1>4, <1>8 DEF s, t, u, more

\* The value of each form.
LEMMA ValueForms ==
    ASSUME NEW p \in LegalPieces
    PROVE  /\ p[1] \in Literals \cup {Blank} => PieceValue(p) = <<p[1]>>
           /\ p[1] = Escape => PieceValue(p) = <<p[2]>>
           /\ p[1] = Single => PieceValue(p) = Within(p)
           /\ \A parts \in Seq(DoublePieces) :
                 p[1] = Double /\ FlattenSeq(parts) = Within(p) => PieceValue(p) = Lasts(parts)
<1>1. /\ p \in Seq(ShellCharacters)
      /\ \/ Len(p) = 1 /\ p[1] \in Literals \cup {Blank}
         \/ Len(p) = 2 /\ p[1] = Escape
         \/ Between(p, Single)
         \/ Between(p, Double)
  BY LegalForms
<1>2. ASSUME p[1] \in Literals \cup {Blank} PROVE PieceValue(p) = <<p[1]>>
  <2>1. Len(p) = 1 /\ ~Between(p, Single) /\ ~Between(p, Double)
    BY <1>1, <1>2, SpecialCharacters DEF Between
  <2>2. QED
    BY <2>1 DEF PieceValue
<1>3. ASSUME p[1] = Escape PROVE PieceValue(p) = <<p[2]>>
  <2>1. Len(p) = 2 /\ ~Between(p, Single) /\ ~Between(p, Double)
    BY <1>1, <1>3, SpecialCharacters DEF Between
  <2>2. QED
    BY <2>1 DEF PieceValue
<1>4. ASSUME p[1] = Single PROVE PieceValue(p) = Within(p)
  <2>1. Between(p, Single)
    BY <1>1, <1>4, SpecialCharacters DEF Between
  <2>2. QED
    BY <2>1 DEF PieceValue
<1>5. ASSUME NEW parts \in Seq(DoublePieces), p[1] = Double, FlattenSeq(parts) = Within(p)
      PROVE  PieceValue(p) = Lasts(parts)
  <2>1. Between(p, Double) /\ ~Between(p, Single) /\ Len(p) >= 2
    BY <1>1, <1>5, SpecialCharacters DEF Between
  <2>2. parts \in DoubleCuttings(p)
    BY <1>1, <1>5, <2>1, DoubleCut
  <2>3. ASSUME NEW q \in DoubleCuttings(p) PROVE q = parts
    <3>1. q \in Seq(DoublePieces) /\ FlattenSeq(q) = FlattenSeq(parts)
      BY <1>1, <1>5, <2>1, DoubleCut
    <3>2. QED
      BY <3>1, UniqueCut, DoublePiecesAreTexts, DoublePrefixFree
  <2> DEFINE chosen == CHOOSE q \in DoubleCuttings(p) : TRUE
  <2>4. chosen = parts
    BY <2>2, <2>3
  <2>5. PieceValue(p) = Lasts(chosen)
    BY <2>1 DEF PieceValue, Lasts
  <2>6. QED
    BY <2>4, <2>5
<1>6. QED
  BY <1>2, <1>3, <1>4, <1>5

LEMMA ValueType ==
    ASSUME NEW p \in LegalPieces
    PROVE  PieceValue(p) \in Seq(ShellCharacters)
<1>1. /\ p \in Seq(ShellCharacters) /\ Len(p) \in Nat
      /\ \/ Len(p) = 1 /\ p[1] \in Literals \cup {Blank}
         \/ Len(p) = 2 /\ p[1] = Escape
         \/ Between(p, Single)
         \/ Between(p, Double) /\ Inside(p)
  BY LegalForms, LenProperties
<1>2. CASE Len(p) = 1 /\ p[1] \in Literals \cup {Blank}
  <2>1. p[1] \in ShellCharacters
    BY <1>2, SpecialCharacters
  <2>2. PieceValue(p) = <<p[1]>>
    BY <1>2, ValueForms
  <2>3. \A c \in ShellCharacters : <<c>> \in Seq(ShellCharacters)
    OBVIOUS
  <2>4. QED
    BY <2>1, <2>2, <2>3
<1>3. CASE Len(p) = 2 /\ p[1] = Escape
  <2>1. p[2] \in ShellCharacters
    BY <1>1, <1>3, ElementOfSeq
  <2>2. PieceValue(p) = <<p[2]>>
    BY <1>3, ValueForms
  <2>3. \A c \in ShellCharacters : <<c>> \in Seq(ShellCharacters)
    OBVIOUS
  <2>4. QED
    BY <2>1, <2>2, <2>3
<1>4. CASE Between(p, Single)
  <2>1. Len(p) >= 2 /\ p[1] = Single
    BY <1>4 DEF Between
  <2>2. QED
    BY <1>1, <2>1, WithinForm, ValueForms
<1>5. CASE Between(p, Double) /\ Inside(p)
  <2>1. PICK parts \in Seq(DoublePieces) : FlattenSeq(parts) = Within(p)
    BY <1>5 DEF Inside
  <2>2. PieceValue(p) = Lasts(parts)
    BY <1>5, <2>1, ValueForms DEF Between
  <2>3. Lasts(parts) \in Seq(ShellCharacters)
    <3>1. <<"a">> = <<"a">> /\ \E x : x \in DoublePieces
      <4>1. /\ <<Blank>> \in Seq(ShellCharacters) /\ Len(<<Blank>>) = 1
            /\ <<Blank>>[1] \notin Escapable
        BY SpecialCharacters DEF Escapable
      <4>2. QED
        BY <4>1 DEF DoublePieces
    <3>2. QED
      BY <3>1, LastsGrow
  <2>4. QED
    BY <2>2, <2>3
<1>6. QED
  BY <1>1, <1>2, <1>3, <1>4, <1>5

-----------------------------------------------------------------------------
\* The words of pieces, by the recursion WordsOf is defined by.
GapAt(pieces, k) == k = 0 \/ pieces[k] = <<Blank>>
WordsFrom(pieces, upTo, n) ==
    IF n = 0 THEN <<>>
    ELSE IF GapAt(pieces, n) THEN upTo[n - 1]
    ELSE IF GapAt(pieces, n - 1) THEN Append(upTo[n - 1], PieceValue(pieces[n]))
    ELSE [upTo[n - 1] EXCEPT ![Len(upTo[n - 1])] = @ \o PieceValue(pieces[n])]
WordsUpTo(pieces) ==
    LET upTo[n \in 0..Len(pieces)] == WordsFrom(pieces, upTo, n) IN upTo
WordsSpelled(pieces) == WordsOf(pieces, PieceValue)

LEMMA WordsAreUpTo ==
    ASSUME NEW pieces
    PROVE  WordsSpelled(pieces) = WordsUpTo(pieces)[Len(pieces)]
BY DEF WordsSpelled, WordsOf, WordsTo, WordsUpTo, WordsFrom, GapAt

LEMMA WordsRecursion ==
    ASSUME NEW pieces, Len(pieces) \in Nat, NEW n \in 0..Len(pieces)
    PROVE  WordsUpTo(pieces)[n] = WordsFrom(pieces, WordsUpTo(pieces), n)
<1> DEFINE I == 0..Len(pieces)
           R == {st \in I \X I : st[1] < st[2]}
           Def(upTo, x) == WordsFrom(pieces, upTo, x)
           f[x \in I] == Def(f, x)
<1>1. \A x, y \in I : <<x, y>> \in R <=> x < y
  OBVIOUS
<1>2. IsWellFoundedOn(R, I)
  <2> HIDE DEF R
  <2>1. ASSUME NEW T \in SUBSET I, T # {}
        PROVE  \E x \in T : \A y \in T : ~ (<<y, x>> \in R)
    <3>1. T \in SUBSET Nat
      OBVIOUS
    <3>2. PICK m \in T : \A k \in T : m <= k
      BY <2>1, <3>1, LeastNumber
    <3>3. QED
      BY <1>1, <3>1, <3>2
  <2> HIDE DEF I
  <2>2. QED
    BY <2>1, MinWF
<1>3. WFDefOn(R, I, Def)
  <2> SUFFICES ASSUME NEW g, NEW h, NEW x \in I,
                      \A y \in SetLessThan(x, R, I) : g[y] = h[y]
               PROVE  Def(g, x) = Def(h, x)
    BY DEF WFDefOn
  <2>1. x # 0 => x - 1 \in SetLessThan(x, R, I)
    BY DEF SetLessThan
  <2>2. x # 0 => g[x - 1] = h[x - 1]
    BY <2>1
  <2>3. QED
    BY <2>2 DEF WordsFrom
<1>4. WordsUpTo(pieces) = f
  BY DEF WordsUpTo
<1>5. OpDefinesFcn(f, I, Def)
  BY DEF OpDefinesFcn
<1> HIDE DEF f, R, Def
<1>6. WFInductiveDefines(f, I, Def)
  BY <1>2, <1>3, <1>5, WFInductiveDef
<1>7. f = [x \in I |-> Def(f, x)]
  BY <1>6 DEF WFInductiveDefines
<1>8. f[n] = Def(f, n)
  BY <1>7
<1>9. QED
  BY <1>4, <1>8 DEF Def

\* Another piece does not change the words of those before it.
LEMMA WordsBefore ==
    ASSUME NEW pieces \in Seq(LegalPieces), NEW p \in LegalPieces,
           NEW n \in 0..Len(pieces)
    PROVE  WordsUpTo(Append(pieces, p))[n] = WordsUpTo(pieces)[n]
<1> DEFINE more == Append(pieces, p)
           T == {k \in 0..Len(pieces) : WordsUpTo(more)[k] # WordsUpTo(pieces)[k]}
<1>1. /\ Len(pieces) \in Nat /\ Len(more) = Len(pieces) + 1
      /\ \A k \in 1..Len(pieces) : more[k] = pieces[k]
  BY LenProperties, AppendProperties
<1> HIDE DEF more
<1>2. ASSUME T # {} PROVE FALSE
  <2>1. T \in SUBSET Nat
    BY <1>1
  <2> HIDE DEF T
  <2>2. PICK m \in T : \A k \in T : m <= k
    BY <1>2, <2>1, LeastNumber
  <2>3. m \in 0..Len(pieces) /\ WordsUpTo(more)[m] # WordsUpTo(pieces)[m]
    BY <2>2 DEF T
  <2>4. /\ WordsUpTo(more)[m] = WordsFrom(more, WordsUpTo(more), m)
        /\ WordsUpTo(pieces)[m] = WordsFrom(pieces, WordsUpTo(pieces), m)
    <3>1. m \in 0..Len(more) /\ Len(more) \in Nat
      BY <1>1, <2>3
    <3>2. QED
      BY <1>1, <2>3, <3>1, WordsRecursion
  <2>5. m # 0
    BY <2>3, <2>4 DEF WordsFrom
  <2>6. /\ GapAt(more, m) = GapAt(pieces, m) /\ GapAt(more, m - 1) = GapAt(pieces, m - 1)
        /\ more[m] = pieces[m]
    <3>1. m \in 1..Len(pieces) /\ (m - 1 = 0 \/ m - 1 \in 1..Len(pieces))
      BY <1>1, <2>3, <2>5
    <3>2. QED
      BY <1>1, <3>1 DEF GapAt
  <2>7. WordsUpTo(more)[m - 1] = WordsUpTo(pieces)[m - 1]
    <3>1. m - 1 \in 0..Len(pieces) /\ m - 1 \notin T
      BY <1>1, <2>1, <2>2, <2>3, <2>5
    <3>2. QED
      BY <3>1 DEF T
  <2>8. QED
    BY <2>3, <2>4, <2>6, <2>7 DEF WordsFrom
<1>3. QED
  BY <1>2 DEF more

\* Whether the pieces end inside a word.
InWord(pieces) == pieces # <<>> /\ pieces[Len(pieces)] # <<Blank>>

\* How one more piece changes the words.
LEMMA WordsAppend ==
    ASSUME NEW pieces \in Seq(LegalPieces), NEW p \in LegalPieces
    PROVE  /\ WordsSpelled(<<>>) = <<>>
           /\ WordsSpelled(Append(pieces, p)) =
                IF p = <<Blank>> THEN WordsSpelled(pieces)
                ELSE IF ~InWord(pieces) THEN Append(WordsSpelled(pieces), PieceValue(p))
                ELSE [WordsSpelled(pieces) EXCEPT ![Len(WordsSpelled(pieces))] = @ \o PieceValue(p)]
           /\ InWord(Append(pieces, p)) <=> p # <<Blank>>
           /\ ~InWord(<<>>)
<1> DEFINE more == Append(pieces, p)
           n == Len(pieces)
<1>1. /\ n \in Nat /\ Len(more) = n + 1 /\ more[n + 1] = p /\ more # <<>>
      /\ \A k \in 1..n : more[k] = pieces[k]
  BY LenProperties, AppendProperties
<1>2. WordsUpTo(more)[n] = WordsUpTo(pieces)[n]
  BY <1>1, WordsBefore
<1> HIDE DEF more
<1>3. WordsUpTo(more)[n + 1] = WordsFrom(more, WordsUpTo(more), n + 1)
  BY <1>1, WordsRecursion
<1>4. WordsSpelled(more) = WordsUpTo(more)[n + 1] /\ WordsSpelled(pieces) = WordsUpTo(pieces)[n]
  BY <1>1, WordsAreUpTo
<1>5. GapAt(more, n + 1) <=> p = <<Blank>>
  BY <1>1 DEF GapAt
<1>6. GapAt(more, n) <=> ~InWord(pieces)
  BY <1>1, EmptySeq DEF GapAt, InWord
<1>7. (n + 1) - 1 = n /\ n + 1 # 0
  BY <1>1
<1>8. WordsSpelled(<<>>) = <<>> /\ ~InWord(<<>>)
  <2>1. Len(<<>>) = 0 /\ 0 \in 0..0
    OBVIOUS
  <2>2. WordsUpTo(<<>>)[0] = WordsFrom(<<>>, WordsUpTo(<<>>), 0)
    BY <2>1, WordsRecursion
  <2>3. QED
    BY <2>1, <2>2, WordsAreUpTo DEF WordsFrom, InWord
<1>9. InWord(more) <=> p # <<Blank>>
  BY <1>1 DEF InWord
<1>10. WordsSpelled(more) =
                IF p = <<Blank>> THEN WordsSpelled(pieces)
                ELSE IF ~InWord(pieces) THEN Append(WordsSpelled(pieces), PieceValue(p))
                ELSE [WordsSpelled(pieces) EXCEPT ![Len(WordsSpelled(pieces))] = @ \o PieceValue(p)]
  BY <1>1, <1>2, <1>3, <1>4, <1>5, <1>6, <1>7 DEF WordsFrom
<1>11. QED
  BY <1>8, <1>9, <1>10 DEF more

\* WordsSpelled are texts, and more pieces only add to them.
Worded(pieces) ==
    WordsSpelled(pieces) \in Seq(Seq(ShellCharacters)) /\ (InWord(pieces) => WordsSpelled(pieces) # <<>>)

LEMMA WordsStep ==
    ASSUME NEW pieces \in Seq(LegalPieces), NEW p \in LegalPieces, Worded(pieces)
    PROVE  Worded(Append(pieces, p))
<1> DEFINE w == WordsSpelled(pieces)
           v == PieceValue(p)
           more == Append(pieces, p)
<1>1. w \in Seq(Seq(ShellCharacters)) /\ v \in Seq(ShellCharacters) /\ Len(w) \in Nat
  BY ValueType, LenProperties DEF Worded
<1>2. CASE p = <<Blank>>
  BY <1>2, <1>1, WordsAppend DEF Worded
<1>3. CASE p # <<Blank>> /\ ~InWord(pieces)
  <2>1. WordsSpelled(more) = Append(w, v)
    BY <1>3, WordsAppend
  <2> HIDE DEF w, v, more
  <2>2. QED
    BY SMTT(60), <1>1, <2>1, AppendProperties DEF Worded, more
<1>4. CASE p # <<Blank>> /\ InWord(pieces)
  <2>1. WordsSpelled(more) = [w EXCEPT ![Len(w)] = @ \o v] /\ w # <<>>
    BY <1>4, WordsAppend DEF Worded
  <2>2. Len(w) \in 1..Len(w)
    BY <1>1, <2>1, EmptySeq
  <2>3. w[Len(w)] \in Seq(ShellCharacters)
    BY <1>1, <2>2, ElementOfSeq
  <2> HIDE DEF w, v, more
  <2>4. w[Len(w)] \o v \in Seq(ShellCharacters)
    BY <1>1, <2>3, ConcatProperties
  <2>5. ASSUME NEW x \in Seq(ShellCharacters)
        PROVE  /\ [w EXCEPT ![Len(w)] = x] \in Seq(Seq(ShellCharacters))
               /\ [w EXCEPT ![Len(w)] = x] # <<>>
    BY <1>1, <2>2, ExceptSeq, EmptySeq
  <2>6. [w EXCEPT ![Len(w)] = @ \o v] = [w EXCEPT ![Len(w)] = w[Len(w)] \o v]
    OBVIOUS
  <2>7. QED
    BY <2>1, <2>4, <2>5, <2>6 DEF Worded, more
<1>5. QED
  BY <1>2, <1>3, <1>4

LEMMA WordsType ==
    ASSUME NEW pieces \in Seq(LegalPieces)
    PROVE  Worded(pieces)
<1> DEFINE T == {n \in Nat : \E c \in Seq(LegalPieces) : Len(c) = n /\ ~Worded(c)}
<1>1. ASSUME T # {} PROVE FALSE
  <2>1. T \in SUBSET Nat
    OBVIOUS
  <2> HIDE DEF T
  <2>2. PICK n \in T : \A m \in T : n <= m
    BY <1>1, <2>1, LeastNumber
  <2>3. PICK c \in Seq(LegalPieces) : Len(c) = n /\ ~Worded(c)
    BY <2>2 DEF T
  <2>4. c # <<>>
    <3>1. WordsSpelled(<<>>) = <<>> /\ ~InWord(<<>>)
      <4>1. <<Blank>> \in LegalPieces
        <5>1. <<Blank>> \in Seq(ShellCharacters) /\ Len(<<Blank>>) = 1 /\ <<Blank>>[1] = Blank
          BY SpecialCharacters
        <5>2. QED
          BY <5>1 DEF LegalPieces
      <4>2. QED
        BY <4>1, <2>3, WordsAppend
    <3>2. QED
      BY <2>3, <3>1 DEF Worded
  <2>5. PICK d \in Seq(LegalPieces), x \in LegalPieces : c = Append(d, x)
    BY <2>4, SequenceEmptyOrAppend
  <2>6. Len(d) \in Nat /\ Len(c) = Len(d) + 1
    BY <2>5, LenProperties, AppendProperties
  <2>7. Worded(d)
    <3>1. Len(d) \notin T
      BY <2>1, <2>2, <2>3, <2>6
    <3>2. QED
      BY <2>6, <3>1 DEF T
  <2>8. QED
    BY <2>3, <2>5, <2>7, WordsStep
<1>2. Len(pieces) \in Nat
  BY LenProperties
<1>3. QED
  BY <1>1, <1>2

\* More words, none of them shorter.
Longer(v, w) ==
    Len(v) <= Len(w) /\ \A n \in 1..Len(v) : Len(v[n]) <= Len(w[n])

LEMMA WordsGrowOnce ==
    ASSUME NEW pieces \in Seq(LegalPieces), NEW p \in LegalPieces
    PROVE  Longer(WordsSpelled(pieces), WordsSpelled(Append(pieces, p)))
<1> DEFINE w == WordsSpelled(pieces)
           v == PieceValue(p)
           more == Append(pieces, p)
<1>1. /\ w \in Seq(Seq(ShellCharacters)) /\ v \in Seq(ShellCharacters) /\ Len(w) \in Nat
      /\ \A n \in 1..Len(w) : w[n] \in Seq(ShellCharacters) /\ Len(w[n]) \in Nat
      /\ InWord(pieces) => w # <<>>
  <2>1. /\ w \in Seq(Seq(ShellCharacters)) /\ v \in Seq(ShellCharacters)
        /\ InWord(pieces) => w # <<>>
    BY ValueType, WordsType DEF Worded
  <2> HIDE DEF w
  <2>2. \A n \in 1..Len(w) : w[n] \in Seq(ShellCharacters)
    BY <2>1, ElementOfSeq
  <2>3. QED
    BY <2>1, <2>2, LenProperties
<1>2. Longer(w, w)
  <2> HIDE DEF w
  <2>1. QED
    BY <1>1 DEF Longer
<1>3. CASE p = <<Blank>>
  BY <1>2, <1>3, WordsAppend
<1>4. CASE p # <<Blank>> /\ ~InWord(pieces)
  <2>1. WordsSpelled(more) = Append(w, v)
    BY <1>4, WordsAppend
  <2> HIDE DEF w, v, more
  <2>2. /\ Len(Append(w, v)) = Len(w) + 1
        /\ \A n \in 1..Len(w) : Append(w, v)[n] = w[n]
    BY <1>1, AppendProperties
  <2>3. Longer(w, Append(w, v))
    BY <1>1, <2>2 DEF Longer
  <2>4. QED
    BY <2>1, <2>3 DEF w, more
<1>5. CASE p # <<Blank>> /\ InWord(pieces)
  <2>1. WordsSpelled(more) = [w EXCEPT ![Len(w)] = @ \o v] /\ w # <<>>
    BY <1>1, <1>5, WordsAppend
  <2> HIDE DEF w, v, more
  <2>2. Len(w) \in 1..Len(w)
    BY <1>1, <2>1, EmptySeq
  <2>3. w[Len(w)] \in Seq(ShellCharacters) /\ Len(w[Len(w)]) \in Nat
    BY <1>1, <2>2
  <2> DEFINE x == w[Len(w)] \o v
  <2>4. /\ x \in Seq(ShellCharacters) /\ Len(x) \in Nat
        /\ Len(w[Len(w)]) <= Len(x)
    <3>1. x \in Seq(ShellCharacters) /\ Len(x) = Len(w[Len(w)]) + Len(v) /\ Len(v) \in Nat
      BY <1>1, <2>3, ConcatProperties, LenProperties
    <3>2. QED
      BY <2>3, <3>1
  <2>5. [w EXCEPT ![Len(w)] = @ \o v] = [w EXCEPT ![Len(w)] = x]
    OBVIOUS
  <2> HIDE DEF x
  <2> DEFINE u == [w EXCEPT ![Len(w)] = x]
  <2>6. /\ Len(u) = Len(w)
        /\ \A n \in 1..Len(w) : u[n] = IF n = Len(w) THEN x ELSE w[n]
    BY <1>1, <2>2, <2>4, ExceptSeq
  <2> HIDE DEF u
  <2>7. Longer(w, u)
    BY <1>1, <2>2, <2>4, <2>6 DEF Longer
  <2>8. QED
    BY <2>1, <2>5, <2>7 DEF w, more, u
<1>6. QED
  BY <1>3, <1>4, <1>5

LEMMA WordsGrow ==
    ASSUME NEW pieces \in Seq(LegalPieces), NEW rest \in Seq(LegalPieces)
    PROVE  Longer(WordsSpelled(pieces), WordsSpelled(pieces \o rest))
<1> DEFINE Bad(c) == ~Longer(WordsSpelled(pieces), WordsSpelled(pieces \o c))
           T == {n \in Nat : \E c \in Seq(LegalPieces) : Len(c) = n /\ Bad(c)}
<1>1. ASSUME T # {} PROVE FALSE
  <2>1. T \in SUBSET Nat
    OBVIOUS
  <2> HIDE DEF T
  <2>2. PICK n \in T : \A m \in T : n <= m
    BY <1>1, <2>1, LeastNumber
  <2>3. PICK c \in Seq(LegalPieces) : Len(c) = n /\ Bad(c)
    BY <2>2 DEF T
  <2> DEFINE w == WordsSpelled(pieces)
  <2>4. /\ w \in Seq(Seq(ShellCharacters)) /\ Len(w) \in Nat
        /\ \A i \in 1..Len(w) : Len(w[i]) \in Nat
    <3>1. w \in Seq(Seq(ShellCharacters))
      BY WordsType DEF Worded
    <3> HIDE DEF w
    <3>2. \A i \in 1..Len(w) : w[i] \in Seq(ShellCharacters)
      BY <3>1, ElementOfSeq
    <3>3. QED
      BY <3>1, <3>2, LenProperties
  <2>5. c # <<>>
    <3>1. pieces \o <<>> = pieces
      BY ConcatEmptySeq
    <3>2. Longer(w, w)
      <4> HIDE DEF w
      <4>1. QED
        BY <2>4 DEF Longer
    <3>3. QED
      BY <2>3, <3>1, <3>2
  <2>6. PICK d \in Seq(LegalPieces), x \in LegalPieces : c = Append(d, x)
    BY <2>5, SequenceEmptyOrAppend
  <2>7. Len(d) \in Nat /\ Len(c) = Len(d) + 1
    BY <2>6, LenProperties, AppendProperties
  <2> DEFINE v == WordsSpelled(pieces \o d)
             u == WordsSpelled(pieces \o c)
  <2>8. Longer(w, v)
    <3>1. Len(d) \notin T
      BY <2>1, <2>2, <2>3, <2>7
    <3>2. QED
      BY <2>7, <3>1 DEF T
  <2>9. pieces \o d \in Seq(LegalPieces) /\ pieces \o c = Append(pieces \o d, x)
    <3>1. pieces \o Append(d, x) = Append(pieces \o d, x)
      BY AppendBehind
    <3>2. QED
      BY <2>6, <3>1, ConcatProperties
  <2>10. Longer(v, u) /\ Worded(pieces \o d) /\ Worded(Append(pieces \o d, x))
    BY <2>9, WordsGrowOnce, WordsType, WordsStep
  <2>11. /\ v \in Seq(Seq(ShellCharacters)) /\ u \in Seq(Seq(ShellCharacters))
    BY <2>9, <2>10 DEF Worded
  <2>12. ~Longer(w, u)
    BY <2>3
  <2> HIDE DEF u, v, w
  <2>13. /\ Len(v) \in Nat /\ Len(u) \in Nat
         /\ \A i \in 1..Len(v) : Len(v[i]) \in Nat
         /\ \A i \in 1..Len(u) : Len(u[i]) \in Nat
    <3>1. /\ \A i \in 1..Len(v) : v[i] \in Seq(ShellCharacters)
          /\ \A i \in 1..Len(u) : u[i] \in Seq(ShellCharacters)
      BY <2>11, ElementOfSeq
    <3>2. QED
      BY <2>11, <3>1, LenProperties
  <2>14. Len(w) <= Len(v) /\ Len(v) <= Len(u) /\ Len(w) <= Len(u)
    BY <2>4, <2>8, <2>10, <2>13 DEF Longer
  <2>15. ASSUME NEW i \in 1..Len(w) PROVE Len(w[i]) <= Len(u[i])
    <3>1. i \in 1..Len(v) /\ i \in 1..Len(u)
      BY <2>4, <2>13, <2>14
    <3>2. Len(w[i]) <= Len(v[i]) /\ Len(v[i]) <= Len(u[i])
      BY <2>8, <2>10, <3>1 DEF Longer
    <3>3. QED
      BY SMTT(60), <2>4, <2>13, <3>1, <3>2
  <2>16. QED
    BY <2>12, <2>14, <2>15 DEF Longer
<1>2. Len(rest) \in Nat
  BY LenProperties
<1>3. QED
  BY <1>1, <1>2

-----------------------------------------------------------------------------
\* The pieces of the command up to a place, and what follows from them for
\* every way of cutting all of it.
StandAt(done, k) ==
    /\ done \in Seq(LegalPieces)
    /\ FlattenSeq(done) \in Seq(ShellCharacters)
    /\ Found(FlattenSeq(done), commandText, 0)
    /\ Len(FlattenSeq(done)) = k

LEMMA LegalAreTexts ==
    /\ LegalPieces \subseteq Seq(ShellCharacters) \ {<<>>}
    /\ LegalPieces \subseteq Seq(ShellCharacters)
    /\ LegalPieces \ {<<>>} = LegalPieces
    /\ Seq(LegalPieces) \subseteq Seq(Seq(ShellCharacters))
<1>1. LegalPieces \subseteq Seq(ShellCharacters) \ {<<>>}
  BY LegalForms
<1>2. LegalPieces \subseteq Seq(ShellCharacters)
  BY <1>1
<1>3. Seq(LegalPieces) \subseteq Seq(Seq(ShellCharacters))
  BY <1>2, SeqMonotonic
<1>4. QED
  BY <1>1, <1>2, <1>3

LEMMA PieceAdded ==
    ASSUME commandText \in Seq(ShellCharacters), NEW done, NEW k \in Nat, StandAt(done, k),
           NEW p \in LegalPieces, Found(p, commandText, k)
    PROVE  StandAt(Append(done, p), k + Len(p))
<1>1. done \in Seq(LegalPieces) /\ done \in Seq(Seq(ShellCharacters))
      /\ p \in Seq(ShellCharacters)
  BY LegalAreTexts DEF StandAt
<1>2. FlattenSeq(Append(done, p)) = FlattenSeq(done) \o p
  BY <1>1, FlattenAppend
<1> DEFINE f == FlattenSeq(done)
<1>3. f \in Seq(ShellCharacters) /\ Found(f, commandText, 0) /\ Len(f) = k
  BY DEF StandAt
<1> HIDE DEF f
<1>4. f \o p \in Seq(ShellCharacters) /\ Len(f \o p) = k + Len(p)
  BY <1>1, <1>3, ConcatProperties
<1>5. Found(f \o p, commandText, 0)
  <2>1. 0 + Len(f) = k /\ 0 \in Nat
    BY <1>3
  <2>2. QED
    BY <1>1, <1>3, <2>1, FoundConcat
<1>6. Append(done, p) \in Seq(LegalPieces)
  BY <1>1, AppendProperties
<1>7. QED
  BY <1>2, <1>4, <1>5, <1>6 DEF StandAt, f

\* Every cutting of the command begins with the pieces up to a place.
LEMMA CuttingBegins ==
    ASSUME commandText \in Seq(ShellCharacters), NEW done, NEW k \in Nat, StandAt(done, k),
           NEW pieces \in CuttingsOf(commandText, LegalPieces)
    PROVE  /\ pieces \in Seq(LegalPieces) /\ Begins(LegalPieces, done, pieces)
           /\ FlattenSeq(pieces) = commandText
<1>1. pieces \in Seq(LegalPieces) /\ FlattenSeq(pieces) = commandText
  <2>1. LegalPieces \in SUBSET Seq(ShellCharacters) /\ LegalPieces \ {<<>>} = LegalPieces
    BY LegalAreTexts
  <2>2. QED
    BY <2>1, CuttingsOfText
<1>2. /\ Len(commandText) \in Nat /\ Found(FlattenSeq(pieces), commandText, 0)
      /\ Found(FlattenSeq(done), commandText, 0)
      /\ Len(FlattenSeq(done)) <= Len(FlattenSeq(pieces))
      /\ done \in Seq(LegalPieces)
  BY <1>1, LenProperties DEF Found, StandAt
<1>3. Begins(LegalPieces, done, pieces)
  <2>1. 0 \in Nat /\ LegalPieces \subseteq Seq(ShellCharacters) \ {<<>>}
    BY LegalAreTexts
  <2>2. QED
    BY <1>1, <1>2, <2>1, PrefixCut, LegalPrefixFree
<1>4. QED
  BY <1>1, <1>3

LEMMA NoPieceThere ==
    ASSUME commandText \in Seq(ShellCharacters), NEW done, NEW k \in Nat, StandAt(done, k),
           k < Len(commandText), \A p \in LegalPieces : ~Found(p, commandText, k)
    PROVE  CuttingsOf(commandText, LegalPieces) = {}
<1> SUFFICES ASSUME NEW pieces \in CuttingsOf(commandText, LegalPieces) PROVE FALSE
  OBVIOUS
<1>1. /\ pieces \in Seq(LegalPieces) /\ Begins(LegalPieces, done, pieces)
      /\ FlattenSeq(pieces) = commandText
  BY CuttingBegins
<1>2. PICK e \in Seq(LegalPieces) :
          pieces = done \o e /\ FlattenSeq(pieces) = FlattenSeq(done) \o FlattenSeq(e)
  BY <1>1 DEF Begins
<1> DEFINE f == FlattenSeq(done)
           g == FlattenSeq(e)
<1>3. f \in Seq(ShellCharacters) /\ Len(f) = k /\ g \in Seq(ShellCharacters)
      /\ commandText = f \o g
  <2>1. e \in Seq(Seq(ShellCharacters))
    BY LegalAreTexts
  <2>2. QED
    BY <1>1, <1>2, <2>1, FlattenType DEF StandAt
<1>4. e # <<>>
  <2>1. FlattenSeq(<<>>) = <<>> /\ Len(<<>>) = 0
    BY DEF FlattenSeq
  <2>2. Len(f \o g) = Len(f) + Len(g)
    BY <1>3, ConcatProperties
  <2>3. e = <<>> => Len(g) = 0
    BY <2>1
  <2> HIDE DEF f, g
  <2>4. QED
    BY <1>3, <2>2, <2>3
<1>5. FirstOf(ShellCharacters, LegalPieces, e)
  BY <1>4, FirstPiece, LegalAreTexts
<1>6. PICK first \in LegalPieces, rest \in Seq(LegalPieces) :
          /\ first \in Seq(ShellCharacters) /\ FlattenSeq(rest) \in Seq(ShellCharacters)
          /\ FlattenSeq(e) = first \o FlattenSeq(rest)
  BY <1>5 DEF FirstOf
<1>7. Found(first, commandText, k)
  <2> HIDE DEF f
  <2>1. Found(f \o g, commandText, 0)
    <3>1. Len(commandText) \in Nat
      BY LenProperties
    <3> HIDE DEF g
    <3>2. QED
      BY <1>3, <3>1 DEF Found
  <2>2. Found(g, commandText, 0 + Len(f)) /\ 0 + Len(f) = k
    <3>1. 0 \in Nat /\ 0 + Len(f) = k
      BY <1>3
    <3> HIDE DEF g
    <3>2. QED
      BY <1>3, <2>1, <3>1, FoundConcat
  <2>3. Found(first \o FlattenSeq(rest), commandText, k)
    BY <1>6, <2>2
  <2>4. QED
    BY <1>6, <2>3, FoundConcat
<1>8. QED
  BY <1>7

\* No cutting of the command stays within the limits, or has any words.
NotSplit ==
    \A pieces \in CuttingsOf(commandText, LegalPieces) :
        WordsSpelled(pieces) = <<>> \/ ~ShortWords(WordsSpelled(pieces))

LEMMA TooLongForAll ==
    ASSUME commandText \in Seq(ShellCharacters), NEW done, NEW k \in Nat, StandAt(done, k),
           \/ Len(WordsSpelled(done)) > MaxShellTokens
           \/ \E n \in 1..Len(WordsSpelled(done)) : Len(WordsSpelled(done)[n]) > MaxToken
    PROVE  NotSplit
<1> SUFFICES ASSUME NEW pieces \in CuttingsOf(commandText, LegalPieces)
             PROVE  ~ShortWords(WordsSpelled(pieces))
  BY DEF NotSplit
<1>1. pieces \in Seq(LegalPieces) /\ Begins(LegalPieces, done, pieces)
      /\ done \in Seq(LegalPieces)
  BY CuttingBegins DEF StandAt
<1>2. PICK e \in Seq(LegalPieces) : pieces = done \o e
  BY <1>1 DEF Begins
<1> DEFINE w == WordsSpelled(done)
           u == WordsSpelled(pieces)
<1>3. Longer(w, u) /\ Worded(done) /\ Worded(pieces)
  BY <1>1, <1>2, WordsGrow, WordsType
<1>4. w \in Seq(Seq(ShellCharacters)) /\ u \in Seq(Seq(ShellCharacters))
  BY <1>3 DEF Worded
<1>5. Len(w) > MaxShellTokens \/ \E n \in 1..Len(w) : Len(w[n]) > MaxToken
  OBVIOUS
<1> HIDE DEF u, w
<1>6. /\ Len(w) \in Nat /\ Len(u) \in Nat /\ DOMAIN u = 1..Len(u)
      /\ \A n \in 1..Len(w) : Len(w[n]) \in Nat
      /\ \A n \in 1..Len(u) : Len(u[n]) \in Nat
      /\ MaxShellTokens \in Nat /\ MaxToken \in Nat
  <2>1. /\ \A n \in 1..Len(w) : w[n] \in Seq(ShellCharacters)
        /\ \A n \in 1..Len(u) : u[n] \in Seq(ShellCharacters)
    BY <1>4, ElementOfSeq
  <2>2. QED
    BY <1>4, <2>1, LenProperties, ShellAssumption
<1>7. CASE Len(w) > MaxShellTokens
  BY <1>3, <1>6, <1>7 DEF Longer, ShortWords, u
<1>8. ASSUME NEW n \in 1..Len(w), Len(w[n]) > MaxToken
      PROVE  ~ShortWords(u)
  <2>1. n \in 1..Len(u) /\ Len(w[n]) <= Len(u[n])
    BY <1>3, <1>6 DEF Longer
  <2>2. Len(u[n]) > MaxToken /\ n \in DOMAIN u
    BY <1>6, <1>8, <2>1
  <2>3. QED
    BY <1>6, <2>1, <2>2 DEF ShortWords
<1>9. QED
  BY <1>5, <1>7, <1>8 DEF u

LEMMA OnlyCutting ==
    ASSUME commandText \in Seq(ShellCharacters), NEW done, StandAt(done, Len(commandText))
    PROVE  CuttingsOf(commandText, LegalPieces) = {done}
<1>1. /\ done \in Seq(LegalPieces) /\ FlattenSeq(done) = commandText
  <2>1. /\ FlattenSeq(done) \in Seq(ShellCharacters) /\ Len(commandText) \in Nat
        /\ Len(FlattenSeq(done)) = Len(commandText)
        /\ \A i \in 1..Len(FlattenSeq(done)) : commandText[0 + i] = FlattenSeq(done)[i]
    BY LenProperties DEF StandAt, Found
  <2>2. \A i \in 1..Len(FlattenSeq(done)) : FlattenSeq(done)[i] = commandText[i]
    BY <2>1
  <2>3. FlattenSeq(done) = commandText
    BY <2>1, <2>2, SeqEqual
  <2>4. QED
    BY <2>3 DEF StandAt
<1>2. LegalPieces \in SUBSET Seq(ShellCharacters) /\ LegalPieces \ {<<>>} = LegalPieces
      /\ LegalPieces \subseteq Seq(ShellCharacters) \ {<<>>}
  BY LegalAreTexts
<1>3. done \in CuttingsOf(commandText, LegalPieces)
  BY <1>1, <1>2, CuttingsOfText
<1>4. ASSUME NEW pieces \in CuttingsOf(commandText, LegalPieces) PROVE pieces = done
  <2>1. pieces \in Seq(LegalPieces) /\ FlattenSeq(pieces) = commandText
    BY <1>2, CuttingsOfText
  <2>2. QED
    BY <1>1, <1>2, <2>1, UniqueCut, LegalPrefixFree
<1>5. QED
  BY <1>3, <1>4

\* The words of the pieces before the one being read, with what of the current
\* word they hold.
Begun(done, before) ==
    IF InWord(done) THEN WordsSpelled(done) = Append(tokens, before)
                    ELSE before = <<>> /\ WordsSpelled(done) = tokens

LEMMA WordGrown ==
    ASSUME commandText \in Seq(ShellCharacters), tokens \in Seq(Seq(ShellCharacters)),
           NEW done, NEW k \in Nat, StandAt(done, k),
           NEW before \in Seq(ShellCharacters), Begun(done, before),
           NEW p \in LegalPieces, p # <<Blank>>, Found(p, commandText, k)
    PROVE  /\ StandAt(Append(done, p), k + Len(p)) /\ InWord(Append(done, p))
           /\ WordsSpelled(Append(done, p)) = Append(tokens, before \o PieceValue(p))
<1>1. done \in Seq(LegalPieces)
  BY DEF StandAt
<1> DEFINE w == WordsSpelled(done)
           v == PieceValue(p)
<1>2. v \in Seq(ShellCharacters) /\ before \o v \in Seq(ShellCharacters)
  BY ValueType, ConcatProperties
<1>3. InWord(Append(done, p)) /\ StandAt(Append(done, p), k + Len(p))
  BY <1>1, WordsAppend, PieceAdded
<1>4. CASE ~InWord(done)
  <2>1. WordsSpelled(Append(done, p)) = Append(w, v) /\ w = tokens /\ before = <<>>
    BY <1>1, <1>4, WordsAppend DEF Begun
  <2>2. before \o v = v
    BY <1>2, <2>1, ConcatEmptySeq
  <2>3. QED
    BY <1>3, <2>1, <2>2
<1>5. CASE InWord(done)
  <2>1. WordsSpelled(Append(done, p)) = [w EXCEPT ![Len(w)] = @ \o v] /\ w = Append(tokens, before)
    BY <1>1, <1>5, WordsAppend DEF Begun
  <2> DEFINE x == before \o v
             n == Len(tokens)
             u == [w EXCEPT ![Len(w)] = x]
             z == Append(tokens, x)
  <2> HIDE DEF w, v
  <2>2. n \in Nat /\ Len(w) = n + 1 /\ w[n + 1] = before /\ w \in Seq(Seq(ShellCharacters))
        /\ \A i \in 1..n : w[i] = tokens[i]
    BY <2>1, AppendProperties, LenProperties
  <2>3. [w EXCEPT ![Len(w)] = @ \o v] = u
    BY <2>2
  <2>4. u \in Seq(Seq(ShellCharacters)) /\ Len(u) = n + 1
        /\ \A i \in 1..(n + 1) : u[i] = IF i = n + 1 THEN x ELSE w[i]
    <3>1. Len(w) \in 1..Len(w)
      BY <2>2
    <3> HIDE DEF x
    <3>2. x \in Seq(ShellCharacters)
      BY <1>2 DEF x
    <3>3. QED
      BY <2>2, <3>1, <3>2, ExceptSeq
  <2>5. z \in Seq(Seq(ShellCharacters)) /\ Len(z) = n + 1 /\ z[n + 1] = x
        /\ \A i \in 1..n : z[i] = tokens[i]
    <3> HIDE DEF x
    <3>1. x \in Seq(ShellCharacters)
      BY <1>2 DEF x
    <3>2. QED
      BY <3>1, AppendProperties
  <2> HIDE DEF u, z, x
  <2>6. \A i \in 1..(n + 1) : u[i] = z[i]
    <3>1. ASSUME NEW i \in 1..(n + 1) PROVE u[i] = z[i]
      <4>1. CASE i = n + 1
        BY <2>4, <2>5, <4>1
      <4>2. CASE i # n + 1
        <5>1. i \in 1..n
          BY <2>2, <4>2
        <5>2. QED
          BY <2>2, <2>4, <2>5, <4>2, <5>1
      <4>3. QED
        BY <4>1, <4>2
    <3>2. QED
      BY <3>1
  <2>7. u = z
    BY <2>4, <2>5, <2>6, SeqEqual
  <2>8. QED
    BY <1>3, <2>1, <2>3, <2>7 DEF z, x, v
<1>6. QED
  BY <1>4, <1>5

-----------------------------------------------------------------------------
\* What has been read of the command: whole pieces, with the words they make,
\* and the beginning of one more.
PartsRead(parts, k, before, n) ==
    /\ commandText[k + 1] = Double
    /\ FlattenSeq(parts) \in Seq(ShellCharacters)
    /\ Found(FlattenSeq(parts), commandText, k + 1)
    /\ n = (k + 1) + Len(FlattenSeq(parts))
    /\ current = before \o Lasts(parts)
QuoteRead(k, before, n) ==
    \E parts \in Seq(DoublePieces) : PartsRead(parts, k, before, n)

Held(k, before) ==
    /\ mode \in {"word", "escape"} => current = before
    /\ mode = "word" => at = k
    /\ mode = "escape" => at = k + 1 /\ commandText[k + 1] = Escape
    /\ mode = "single" =>
          /\ k < at /\ commandText[k + 1] = Single
          /\ \A i \in (k + 2)..at : commandText[i] # Single
          /\ current = before \o SubSeq(commandText, k + 2, at)
    /\ mode = "double" => QuoteRead(k, before, at)
    /\ mode = "doubleEscape" => /\ at \in Nat \ {0} /\ commandText[at] = Escape
                                 /\ QuoteRead(k, before, at - 1)

ReadTo(done, k, before) ==
    /\ StandAt(done, k)
    /\ Begun(done, before)
    /\ Held(k, before)
    /\ started <=> mode # "word" \/ InWord(done)
ReadSoFar ==
    \E done \in Seq(LegalPieces), k \in Nat, before \in Seq(ShellCharacters) :
        ReadTo(done, k, before)

Modes == {"word", "escape", "single", "double", "doubleEscape"}
ShellTypes ==
    /\ commandText \in Seq(ShellCharacters)
    /\ at \in 0..Len(commandText)
    /\ mode \in Modes
    /\ tokens \in Seq(Seq(ShellCharacters))
    /\ current \in Seq(ShellCharacters)
    /\ started \in BOOLEAN
InLimits ==
    /\ answer \in {"Reading", "Ok"} =>
          /\ Len(commandText) <= MaxCommand
          /\ Len(tokens) <= MaxShellTokens
          /\ \A n \in 1..Len(tokens) : Len(tokens[n]) <= MaxToken
    /\ answer = "Reading" /\ mode = "word" => Len(current) <= MaxToken
IsSplit ==
    tokens # <<>> /\ \E pieces \in CuttingsOf(commandText, LegalPieces) : tokens = WordsSpelled(pieces)
Answered ==
    /\ answer = "Reading" => ReadSoFar
    /\ answer = "Ok" => IsSplit
    /\ answer \notin {"Ok", "Reading"} => Len(commandText) > MaxCommand \/ NotSplit
ShellInv == ShellTypes /\ InLimits /\ Answered

Advance ==
    answer = "Reading" /\ at < Len(commandText) /\ Consume /\ UNCHANGED commandText

\* The invariant says what the property does of an answer.
LEMMA AnswersAreLiteral == ASSUME ShellInv PROVE WordsAreLiteral
<1>1. ASSUME answer = "Ok"
      PROVE  /\ Len(commandText) <= MaxCommand /\ ShortWords(tokens) /\ tokens # <<>>
             /\ \E pieces \in CuttingsOf(commandText, LegalPieces) :
                    tokens = WordsOf(pieces, PieceValue)
  <2>1. DOMAIN tokens = 1..Len(tokens)
    BY LenProperties DEF ShellInv, ShellTypes
  <2>2. ShortWords(tokens) /\ Len(commandText) <= MaxCommand
    BY <1>1, <2>1 DEF ShellInv, InLimits, ShortWords
  <2>3. QED
    BY <1>1, <2>2 DEF ShellInv, Answered, IsSplit, WordsSpelled
<1>2. ASSUME answer \notin {"Ok", "Reading"}
      PROVE  \/ Len(commandText) > MaxCommand
             \/ \A pieces \in CuttingsOf(commandText, LegalPieces) :
                    \/ WordsOf(pieces, PieceValue) = <<>>
                    \/ ~ShortWords(WordsOf(pieces, PieceValue))
  BY <1>2 DEF ShellInv, Answered, NotSplit, WordsSpelled
<1>3. QED
  BY <1>1, <1>2 DEF WordsAreLiteral

\* A step that refuses a command no cutting of which is within the limits.
LEMMA RefusalIsRight ==
    ASSUME ShellTypes, UNCHANGED commandText, at' \in 0..Len(commandText),
           NEW reason, reason \notin {"Ok", "Reading"}, RefuseWords(reason), NotSplit
    PROVE  ShellInv'
<1>1. ShellTypes'
  BY DEF ShellTypes, RefuseWords
<1>2. NotSplit' /\ InLimits'
  BY DEF RefuseWords, NotSplit, InLimits
<1>3. QED
  BY <1>1, <1>2 DEF ShellInv, Answered, RefuseWords

\* A step that measures the word a piece has just been read into.
LEMMA PieceRead ==
    ASSUME ShellInv, Advance, mode' = "word", started' = TRUE, UNCHANGED tokens,
           NEW done, NEW k \in Nat, StandAt(done, k),
           NEW before \in Seq(ShellCharacters), Begun(done, before),
           NEW p \in LegalPieces, p # <<Blank>>, Found(p, commandText, k),
           k + Len(p) = at + 1, Measure(before \o PieceValue(p))
    PROVE  ShellInv'
<1> DEFINE more == Append(done, p)
           word == before \o PieceValue(p)
<1>1. /\ commandText \in Seq(ShellCharacters) /\ tokens \in Seq(Seq(ShellCharacters))
      /\ Len(commandText) \in Nat /\ at + 1 \in 0..Len(commandText) /\ at + 1 \in Nat
      /\ Len(tokens) \in Nat
  <2>1. commandText \in Seq(ShellCharacters) /\ at \in 0..Len(commandText)
        /\ at < Len(commandText) /\ tokens \in Seq(Seq(ShellCharacters))
    BY DEF ShellInv, ShellTypes, Advance
  <2>2. QED
    BY <2>1, LenProperties
<1>2. word \in Seq(ShellCharacters) /\ Len(word) \in Nat
  BY ValueType, ConcatProperties, LenProperties
<1>3. /\ StandAt(more, at + 1) /\ InWord(more)
      /\ WordsSpelled(more) = Append(tokens, word)
  BY <1>1, WordGrown
<1> HIDE DEF more
<1>4. current' = word /\ answer' = IF Len(word) > MaxToken THEN "TokenTooLong" ELSE "Reading"
  BY DEF Measure
<1> HIDE DEF word
<1>5. ShellTypes'
  BY <1>1, <1>2, <1>4 DEF ShellTypes, Advance, Consume, Modes
<1>6. InLimits'
  BY <1>1, <1>2, <1>4, ShellAssumption DEF InLimits, ShellInv, Advance
<1>7. CASE Len(word) > MaxToken
  <2>1. Len(WordsSpelled(more)) = Len(tokens) + 1 /\ WordsSpelled(more)[Len(tokens) + 1] = word
    BY <1>1, <1>2, <1>3, AppendProperties
  <2>2. Len(tokens) + 1 \in 1..Len(WordsSpelled(more))
    BY <1>1, <2>1
  <2>3. NotSplit
    BY <1>1, <1>3, <1>7, <2>1, <2>2, TooLongForAll
  <2>4. NotSplit'
    BY <2>3 DEF NotSplit, Advance
  <2>5. answer' = "TokenTooLong"
    BY <1>4, <1>7
  <2>6. QED
    BY <1>5, <1>6, <2>4, <2>5 DEF ShellInv, Answered
<1>8. CASE ~(Len(word) > MaxToken)
  <2>1. answer' = "Reading"
    BY <1>4, <1>8
  <2>2. PICK n \in Nat : n = at + 1
    BY <1>1
  <2>3. StandAt(more, n)' /\ Begun(more, word)'
    BY <1>3, <2>2 DEF StandAt, Begun, Advance
  <2>4. Held(n, word)'
    BY <1>4, <2>2 DEF Held, Advance, Consume
  <2>5. ReadTo(more, n, word)' /\ more \in Seq(LegalPieces)
    BY <1>3, <2>3, <2>4 DEF ReadTo, StandAt
  <2>7. ReadSoFar'
    BY <1>2, <2>5 DEF ReadSoFar
  <2>8. QED
    BY <1>5, <1>6, <2>1, <2>7 DEF ShellInv, Answered
<1>9. QED
  BY <1>7, <1>8

\* A step inside a piece.
LEMMA PieceContinues ==
    ASSUME ShellInv, Advance, UNCHANGED <<tokens, answer>>, started' = TRUE,
           mode' \in Modes \ {"word"}, current' \in Seq(ShellCharacters),
           NEW done, NEW k \in Nat, StandAt(done, k),
           NEW before \in Seq(ShellCharacters), Begun(done, before), Held(k, before)'
    PROVE  ShellInv'
<1>1. commandText \in Seq(ShellCharacters) /\ at' = at + 1 /\ at' \in 0..Len(commandText)
  <2>1. commandText \in Seq(ShellCharacters) /\ at \in 0..Len(commandText)
        /\ at < Len(commandText) /\ at' = at + 1
    BY DEF ShellInv, ShellTypes, Advance, Consume
  <2>2. QED
    BY <2>1, LenProperties
<1>2. ShellTypes'
  BY <1>1 DEF ShellInv, ShellTypes, Advance
<1>3. InLimits'
  BY DEF ShellInv, InLimits, Advance
<1>4. StandAt(done, k)' /\ Begun(done, before)' /\ done \in Seq(LegalPieces)
  BY DEF StandAt, Begun, Advance
<1>5. ReadTo(done, k, before)'
  BY <1>4 DEF ReadTo
<1>6. ReadSoFar'
  BY <1>4, <1>5 DEF ReadSoFar
<1>7. QED
  BY <1>2, <1>3, <1>6 DEF ShellInv, Answered, Advance

\* The place behind the character that is read.
LEMMA NextPlace ==
    ASSUME ShellInv, Advance
    PROVE  /\ commandText \in Seq(ShellCharacters) /\ Len(commandText) \in Nat
           /\ tokens \in Seq(Seq(ShellCharacters)) /\ Len(tokens) \in Nat
           /\ at \in Nat /\ at + 1 \in 1..Len(commandText) /\ at < Len(commandText)
           /\ at' = at + 1 /\ at' \in 0..Len(commandText)
           /\ commandText[at + 1] \in ShellCharacters
           /\ current \in Seq(ShellCharacters) /\ ReadSoFar
<1>1. /\ commandText \in Seq(ShellCharacters) /\ at \in 0..Len(commandText)
      /\ at < Len(commandText) /\ at' = at + 1 /\ tokens \in Seq(Seq(ShellCharacters))
      /\ current \in Seq(ShellCharacters) /\ ReadSoFar
  BY DEF ShellInv, ShellTypes, Answered, Advance, Consume
<1>2. Len(commandText) \in Nat /\ Len(tokens) \in Nat
  BY <1>1, LenProperties
<1>3. at \in Nat /\ at + 1 \in 1..Len(commandText) /\ at' \in 0..Len(commandText)
  BY <1>1, <1>2
<1>4. commandText[at + 1] \in ShellCharacters
  BY <1>1, <1>3, ElementOfSeq
<1>5. QED
  BY <1>1, <1>2, <1>3, <1>4

\* A piece of one character, and one of two, where the text has them.
LEMMA ShortPieces ==
    ASSUME NEW text \in Seq(ShellCharacters), NEW n \in Nat
    PROVE  /\ n + 1 <= Len(text) /\ text[n + 1] \in Literals \cup {Blank} =>
                /\ <<text[n + 1]>> \in LegalPieces /\ Found(<<text[n + 1]>>, text, n)
                /\ Len(<<text[n + 1]>>) = 1 /\ PieceValue(<<text[n + 1]>>) = <<text[n + 1]>>
           /\ n + 2 <= Len(text) /\ text[n + 1] = Escape =>
                /\ <<Escape, text[n + 2]>> \in LegalPieces
                /\ Found(<<Escape, text[n + 2]>>, text, n)
                /\ Len(<<Escape, text[n + 2]>>) = 2 /\ <<Escape, text[n + 2]>> # <<Blank>>
                /\ PieceValue(<<Escape, text[n + 2]>>) = <<text[n + 2]>>
<1>1. Len(text) \in Nat
  BY LenProperties
<1>2. ASSUME n + 1 <= Len(text), text[n + 1] \in Literals \cup {Blank}
      PROVE  /\ <<text[n + 1]>> \in LegalPieces /\ Found(<<text[n + 1]>>, text, n)
             /\ Len(<<text[n + 1]>>) = 1 /\ PieceValue(<<text[n + 1]>>) = <<text[n + 1]>>
  <2> DEFINE c == text[n + 1]
             p == <<c>>
  <2>1. c \in ShellCharacters /\ c \in Literals \cup {Blank}
    BY <1>2, SpecialCharacters
  <2> HIDE DEF c
  <2>2. p \in Seq(ShellCharacters) /\ Len(p) = 1 /\ p[1] = c
    BY <2>1
  <2> HIDE DEF p
  <2>3. p \in LegalPieces
    BY <2>1, <2>2 DEF LegalPieces
  <2>4. Found(p, text, n)
    BY <1>1, <1>2, <2>2 DEF Found, c
  <2>5. PieceValue(p) = <<c>>
    BY <2>1, <2>2, <2>3, ValueForms
  <2>6. QED
    BY <2>2, <2>3, <2>4, <2>5 DEF p, c
<1>3. ASSUME n + 2 <= Len(text), text[n + 1] = Escape
      PROVE  /\ <<Escape, text[n + 2]>> \in LegalPieces
             /\ Found(<<Escape, text[n + 2]>>, text, n)
             /\ Len(<<Escape, text[n + 2]>>) = 2 /\ <<Escape, text[n + 2]>> # <<Blank>>
             /\ PieceValue(<<Escape, text[n + 2]>>) = <<text[n + 2]>>
  <2> DEFINE c == text[n + 2]
             p == <<Escape, c>>
  <2>1. c \in ShellCharacters /\ Escape \in ShellCharacters
    <3>1. n + 2 \in 1..Len(text)
      BY <1>1, <1>3
    <3>2. QED
      BY <3>1, ElementOfSeq, SpecialCharacters
  <2> HIDE DEF c
  <2>2. p \in Seq(ShellCharacters) /\ Len(p) = 2 /\ p[1] = Escape /\ p[2] = c
    BY <2>1
  <2>3. p # <<Blank>>
    <3>1. Len(<<Blank>>) = 1
      OBVIOUS
    <3> HIDE DEF p
    <3>2. QED
      BY <2>2, <3>1
  <2> HIDE DEF p
  <2>4. p \in LegalPieces
    BY <2>2 DEF LegalPieces
  <2>5. Found(p, text, n)
    BY <1>1, <1>3, <2>2 DEF Found, c
  <2>6. PieceValue(p) = <<c>>
    BY <2>2, <2>4, ValueForms
  <2>7. QED
    BY <2>2, <2>3, <2>4, <2>5, <2>6 DEF p, c
<1>4. QED
  BY <1>2, <1>3

-----------------------------------------------------------------------------
\* One lemma for each action of the tokenizer.

LEMMA WordMode ==
    ASSUME ShellInv, Advance, mode = "word"
    PROVE  \E done \in Seq(LegalPieces) :
              StandAt(done, at) /\ Begun(done, current) /\ (started <=> InWord(done))
<1>1. ReadSoFar
  BY NextPlace
<1>2. PICK done \in Seq(LegalPieces), k \in Nat, before \in Seq(ShellCharacters) :
          ReadTo(done, k, before)
  BY <1>1 DEF ReadSoFar
<1>3. k = at /\ current = before
  BY <1>2 DEF ReadTo, Held
<1>4. QED
  BY <1>2, <1>3 DEF ReadTo

LEMMA BlankKept ==
    ASSUME ShellInv, Advance, ReadBlank(commandText[at + 1])
    PROVE  ShellInv'
<1>1. mode = "word" /\ commandText[at + 1] = Blank
  BY DEF ReadBlank
<1>2. PICK done \in Seq(LegalPieces) :
          StandAt(done, at) /\ Begun(done, current) /\ (started <=> InWord(done))
  BY <1>1, WordMode
<1> DEFINE p == <<Blank>>
           more == Append(done, p)
<1>3. p \in LegalPieces /\ Found(p, commandText, at) /\ Len(p) = 1
  <2>1. at + 1 <= Len(commandText) /\ commandText[at + 1] \in Literals \cup {Blank}
    BY <1>1, NextPlace
  <2>2. /\ <<commandText[at + 1]>> \in LegalPieces /\ Len(<<commandText[at + 1]>>) = 1
        /\ Found(<<commandText[at + 1]>>, commandText, at)
    BY <2>1, NextPlace, ShortPieces
  <2>3. QED
    BY <1>1, <2>2
<1>4. StandAt(more, at + 1) /\ more \in Seq(LegalPieces)
  BY <1>2, <1>3, NextPlace, PieceAdded DEF StandAt
<1>5. WordsSpelled(more) = WordsSpelled(done) /\ ~InWord(more)
  BY <1>2, <1>3, WordsAppend
<1> HIDE DEF more, p
<1>6. PICK n \in Nat : n = at + 1
  BY NextPlace
<1>7. ASSUME WordsSpelled(done) = tokens', started' = FALSE, current' = <<>>, mode' = "word",
             answer' = "Reading"
      PROVE  ReadSoFar'
  <2>1. StandAt(more, n)'
    BY <1>4, <1>6 DEF StandAt, Advance
  <2>2. Begun(more, <<>>)'
    BY <1>5, <1>7 DEF Begun
  <2>3. Held(n, <<>>)'
    BY <1>6, <1>7 DEF Held, Advance, Consume
  <2>4. ReadTo(more, n, <<>>)'
    BY <1>5, <1>7, <2>1, <2>2, <2>3 DEF ReadTo
  <2>5. <<>> \in Seq(ShellCharacters)
    OBVIOUS
  <2>6. QED
    BY <1>4, <2>4, <2>5 DEF ReadSoFar
<1>8. CASE ~started
  <2>1. UNCHANGED <<mode, tokens, current, started, answer>>
    BY <1>8 DEF ReadBlank
  <2>2. ~InWord(done) /\ current = <<>> /\ WordsSpelled(done) = tokens
    BY <1>2, <1>8 DEF Begun
  <2>3. ReadSoFar'
    BY <1>1, <1>7, <1>8, <2>1, <2>2 DEF Advance, ShellInv, ShellTypes
  <2>4. ShellTypes'
    BY <2>1, NextPlace DEF ShellInv, ShellTypes, Advance
  <2>5. InLimits'
    BY <2>1 DEF ShellInv, InLimits, Advance
  <2>6. QED
    BY <2>1, <2>3, <2>4, <2>5 DEF ShellInv, Answered, Advance
<1>9. CASE started /\ Len(tokens) >= MaxShellTokens
  <2>1. RefuseWords("TooManyTokens")
    BY <1>9 DEF ReadBlank, PushToken
  <2>2. WordsSpelled(done) = Append(tokens, current)
    BY <1>2, <1>9 DEF Begun
  <2>3. Len(WordsSpelled(done)) = Len(tokens) + 1
    BY <2>2, NextPlace, AppendProperties
  <2>4. Len(WordsSpelled(done)) > MaxShellTokens
    BY <1>9, <2>3, NextPlace, ShellAssumption
  <2>5. NotSplit
    BY <1>2, <2>4, NextPlace, TooLongForAll
  <2>6. UNCHANGED commandText /\ at' \in 0..Len(commandText)
    BY NextPlace DEF Advance
  <2>7. QED
    BY <2>1, <2>5, <2>6, RefusalIsRight DEF ShellInv
<1>10. CASE started /\ ~(Len(tokens) >= MaxShellTokens)
  <2>1. /\ tokens' = Append(tokens, current) /\ current' = <<>> /\ started' = FALSE
        /\ UNCHANGED <<mode, answer>>
    BY <1>10 DEF ReadBlank, PushToken
  <2>2. WordsSpelled(done) = Append(tokens, current)
    BY <1>2, <1>10 DEF Begun
  <2>3. ReadSoFar'
    BY <1>1, <1>7, <2>1, <2>2 DEF Advance
  <2>4. /\ tokens' \in Seq(Seq(ShellCharacters)) /\ Len(tokens') = Len(tokens) + 1
        /\ \A e \in 1..Len(tokens) : tokens'[e] = tokens[e]
        /\ tokens'[Len(tokens) + 1] = current
    BY <2>1, NextPlace, AppendProperties
  <2>5. ShellTypes'
    <3>1. <<>> \in Seq(ShellCharacters)
      OBVIOUS
    <3>2. QED
      BY <2>1, <2>4, <3>1, NextPlace DEF ShellInv, ShellTypes, Advance
  <2>6. InLimits'
    <3>1. /\ Len(commandText) <= MaxCommand /\ Len(tokens) <= MaxShellTokens
          /\ \A e \in 1..Len(tokens) : Len(tokens[e]) <= MaxToken
          /\ Len(current) <= MaxToken
      BY <1>1 DEF ShellInv, InLimits, Advance
    <3>2. /\ Len(tokens') <= MaxShellTokens
          /\ \A e \in 1..Len(tokens') : Len(tokens'[e]) <= MaxToken
      <4>1. Len(tokens) \in Nat /\ MaxShellTokens \in Nat /\ MaxToken \in Nat
        BY NextPlace, ShellAssumption
      <4>2. Len(tokens') <= MaxShellTokens
        BY <1>10, <2>4, <3>1, <4>1
      <4>3. ASSUME NEW e \in 1..Len(tokens') PROVE Len(tokens'[e]) <= MaxToken
        <5>1. e \in 1..Len(tokens) \/ e = Len(tokens) + 1
          BY <2>4, <4>1
        <5>2. QED
          BY <2>4, <3>1, <5>1
      <4>4. QED
        BY <4>2, <4>3
    <3>3. Len(<<>>) = 0 /\ 0 <= MaxToken
      BY ShellAssumption
    <3>4. QED
      BY <2>1, <3>1, <3>2, <3>3 DEF InLimits, Advance
  <2>7. QED
    BY <2>1, <2>3, <2>5, <2>6 DEF ShellInv, Answered, Advance
<1>11. QED
  BY <1>8, <1>9, <1>10

LEMMA OpeningKept ==
    ASSUME ShellInv, Advance, ReadOpening(commandText[at + 1])
    PROVE  ShellInv'
<1> DEFINE c == commandText[at + 1]
<1>1. /\ mode = "word" /\ c \in Openings /\ mode' = OpenedMode(c) /\ started' = TRUE
      /\ UNCHANGED <<tokens, current, answer>>
  BY DEF ReadOpening
<1>2. PICK done \in Seq(LegalPieces) :
          StandAt(done, at) /\ Begun(done, current) /\ (started <=> InWord(done))
  BY <1>1, WordMode
<1>3. /\ c = Single => mode' = "single"
      /\ c = Double => mode' = "double"
      /\ c = Escape => mode' = "escape"
      /\ c \in {Single, Double, Escape}
  <2>1. c \in {Single, Double, Escape}
    BY <1>1 DEF Openings
  <2>2. Single # Double /\ Single # Escape /\ Double # Escape
    BY SpecialCharacters
  <2> HIDE DEF c
  <2>3. QED
    BY <1>1, <2>1, <2>2 DEF OpenedMode
<1>4. PICK k \in Nat : k = at
  BY NextPlace
<1>5. PICK before \in Seq(ShellCharacters) : before = current
  BY NextPlace
<1>6. /\ commandText' = commandText /\ at' = at + 1 /\ k + 1 = at + 1 /\ at + 1 \in Nat
      /\ Len(commandText) \in Nat /\ at + 1 <= Len(commandText) /\ current' = before
  BY <1>1, <1>4, <1>5, NextPlace DEF Advance
<1>7. /\ before \o <<>> = before
      /\ SubSeq(commandText, k + 2, k + 1) = <<>>
      /\ FlattenSeq(<<>>) = <<>> /\ Len(<<>>) = 0 /\ Lasts(<<>>) = <<>>
      /\ <<>> \in Seq(DoublePieces) /\ <<>> \in Seq(ShellCharacters)
      /\ Found(<<>>, commandText, k + 1)
  <2>1. before \o <<>> = before
    BY ConcatEmptySeq
  <2>2. SubSeq(commandText, k + 2, k + 1) = <<>>
    BY NextPlace, SubSeqEmpty
  <2>3. /\ FlattenSeq(<<>>) = <<>> /\ Len(<<>>) = 0
        /\ <<>> \in Seq(DoublePieces) /\ <<>> \in Seq(ShellCharacters)
    BY DEF FlattenSeq
  <2>4. Lasts(<<>>) = <<>>
    BY DEF Lasts
  <2>5. Found(<<>>, commandText, k + 1)
    BY <1>6, <2>3 DEF Found
  <2>6. QED
    BY <2>1, <2>2, <2>3, <2>4, <2>5
<1>8. CASE c = Single
  <2>1. \A i \in (k + 2)..(at + 1) : FALSE
    BY <1>6
  <2>2. commandText[k + 1] = Single /\ k < at + 1
    BY <1>4, <1>6, <1>8
  <2>3. mode' = "single"
    BY <1>3, <1>8
  <2>4. Held(k, before)'
    BY <1>6, <1>7, <2>1, <2>2, <2>3 DEF Held
  <2>5. QED
    BY <1>1, <1>2, <1>4, <1>5, <2>3, <2>4, NextPlace, PieceContinues DEF Modes
<1>9. CASE c = Double
  <2>1. commandText[k + 1] = Double /\ at + 1 = (k + 1) + 0
    BY <1>4, <1>6, <1>9
  <2>2. PartsRead(<<>>, k, before, at)'
    BY <1>6, <1>7, <2>1 DEF PartsRead
  <2>3. QuoteRead(k, before, at)'
    BY <1>7, <2>2 DEF QuoteRead
  <2>4. mode' = "double"
    BY <1>3, <1>9
  <2>5. Held(k, before)'
    BY <2>3, <2>4 DEF Held
  <2>6. QED
    BY <1>1, <1>2, <1>4, <1>5, <2>4, <2>5, NextPlace, PieceContinues DEF Modes
<1>10. CASE c = Escape
  <2>1. commandText[k + 1] = Escape /\ mode' = "escape"
    BY <1>3, <1>4, <1>10
  <2>2. Held(k, before)'
    BY <1>6, <2>1 DEF Held
  <2>3. QED
    BY <1>1, <1>2, <1>4, <1>5, <2>1, <2>2, NextPlace, PieceContinues DEF Modes
<1>11. QED
  BY <1>3, <1>8, <1>9, <1>10

\* How a legal piece that the text has at a place begins.
LEMMA FoundFirst ==
    ASSUME NEW p \in LegalPieces, NEW text, NEW n \in Nat, Found(p, text, n)
    PROVE  /\ Len(p) \in Nat \ {0} /\ text[n + 1] = p[1] /\ n + Len(p) <= Len(text)
           /\ p[1] \in Literals \cup {Blank, Escape, Single, Double}
           /\ p[1] = Escape => Len(p) = 2
           /\ p[1] = Single => /\ Len(p) >= 2 /\ p[Len(p)] = Single
                               /\ \A i \in 2..(Len(p) - 1) : p[i] # Single
<1>1. /\ p \in Seq(ShellCharacters) /\ Len(p) \in Nat \ {0}
  BY LegalForms, LenProperties, EmptySeq
<1>2. 1 \in 1..Len(p) /\ n + Len(p) <= Len(text) /\ text[n + 1] = p[1]
  BY <1>1 DEF Found
<1>3. p[1] \in Literals \cup {Blank, Escape, Single, Double}
  BY LegalForms DEF Between
<1>4. ASSUME p[1] = Escape PROVE Len(p) = 2
  BY <1>4, LegalForms, SpecialCharacters DEF Between
<1>5. ASSUME p[1] = Single
      PROVE  Len(p) >= 2 /\ p[Len(p)] = Single /\ \A i \in 2..(Len(p) - 1) : p[i] # Single
  BY <1>5, LegalForms, SpecialCharacters DEF Between
<1>6. QED
  BY <1>1, <1>2, <1>3, <1>4, <1>5

LEMMA NothingSplit ==
    ASSUME CuttingsOf(commandText, LegalPieces) = {}
    PROVE  NotSplit
BY DEF NotSplit

LEMMA OperatorKept ==
    ASSUME ShellInv, Advance, ReadOperator(commandText[at + 1])
    PROVE  ShellInv'
<1>1. mode = "word" /\ commandText[at + 1] \in Operators \cup {Live}
  BY DEF ReadOperator
<1>2. PICK done \in Seq(LegalPieces) : StandAt(done, at)
  BY <1>1, WordMode
<1>3. ASSUME NEW p \in LegalPieces PROVE ~Found(p, commandText, at)
  <2>1. commandText[at + 1] \notin Literals \cup {Blank, Escape, Single, Double}
    BY <1>1, SpecialCharacters
  <2>2. at \in Nat
    BY NextPlace
  <2>3. Found(p, commandText, at) =>
            commandText[at + 1] \in Literals \cup {Blank, Escape, Single, Double}
    BY <2>2, FoundFirst
  <2>4. QED
    BY <2>1, <2>3
<1>4. NotSplit
  BY <1>2, <1>3, NextPlace, NoPieceThere, NothingSplit
<1>5. UNCHANGED commandText /\ at' \in 0..Len(commandText)
  BY NextPlace DEF Advance
<1>6. RefuseWords("NonLiteralExpansion") \/ RefuseWords("UnsupportedConstruct")
  BY DEF ReadOperator
<1>7. CASE RefuseWords("NonLiteralExpansion")
  BY <1>4, <1>5, <1>7, RefusalIsRight DEF ShellInv
<1>8. CASE RefuseWords("UnsupportedConstruct")
  BY <1>4, <1>5, <1>8, RefusalIsRight DEF ShellInv
<1>9. QED
  BY <1>6, <1>7, <1>8

LEMMA LiteralKept ==
    ASSUME ShellInv, Advance, ReadLiteral(commandText[at + 1])
    PROVE  ShellInv'
<1> DEFINE c == commandText[at + 1]
           p == <<c>>
<1>1. /\ mode = "word" /\ c \in Literals /\ started' = TRUE /\ UNCHANGED <<mode, tokens>>
      /\ Measure(Append(current, c))
  BY DEF ReadLiteral
<1>2. PICK done \in Seq(LegalPieces) :
          StandAt(done, at) /\ Begun(done, current) /\ (started <=> InWord(done))
  BY <1>1, WordMode
<1>3. /\ p \in LegalPieces /\ Found(p, commandText, at) /\ Len(p) = 1
      /\ PieceValue(p) = <<c>>
  <2>1. /\ at + 1 <= Len(commandText) /\ commandText[at + 1] \in Literals \cup {Blank}
        /\ commandText \in Seq(ShellCharacters) /\ at \in Nat
    BY <1>1, NextPlace
  <2>2. QED
    BY <2>1, ShortPieces
<1>4. p # <<Blank>>
  <2>1. c # Blank
    BY <1>1, SpecialCharacters
  <2> HIDE DEF c
  <2>2. QED
    BY <2>1
<1>5. Append(current, c) = current \o PieceValue(p)
  <2>1. c \in ShellCharacters /\ current \in Seq(ShellCharacters)
    BY NextPlace
  <2> HIDE DEF c
  <2>2. Append(current, c) = current \o <<c>>
    BY <2>1, AppendIsConcat
  <2>3. QED
    BY <1>3, <2>2
<1>6. PICK k \in Nat : k = at
  BY NextPlace
<1>7. PICK before \in Seq(ShellCharacters) : before = current
  BY NextPlace
<1>8. Measure(before \o PieceValue(p))
  BY <1>1, <1>5, <1>7
<1> HIDE DEF p
<1>9. PICK q \in LegalPieces : q = p
  BY <1>3
<1>10. /\ StandAt(done, k) /\ Begun(done, before) /\ Found(q, commandText, k)
       /\ k + Len(q) = at + 1 /\ q # <<Blank>> /\ Measure(before \o PieceValue(q))
  BY <1>2, <1>3, <1>4, <1>6, <1>7, <1>8, <1>9
<1>11. QED
  BY <1>1, <1>10, PieceRead

\* The invariant in the middle of a piece.
LEMMA InPiece ==
    ASSUME ShellInv, Advance
    PROVE  \E done \in Seq(LegalPieces), k \in Nat, before \in Seq(ShellCharacters) :
              ReadTo(done, k, before)
BY NextPlace DEF ReadSoFar

LEMMA EscapedKept ==
    ASSUME ShellInv, Advance, mode = "escape", mode' = "word", UNCHANGED <<tokens, started>>,
           Measure(Append(current, commandText[at + 1]))
    PROVE  ShellInv'
<1>1. PICK done \in Seq(LegalPieces), k \in Nat, before \in Seq(ShellCharacters) :
          ReadTo(done, k, before)
  BY InPiece
<1>2. /\ StandAt(done, k) /\ Begun(done, before) /\ current = before /\ at = k + 1
      /\ commandText[k + 1] = Escape /\ started = TRUE
  BY <1>1 DEF ReadTo, Held, ShellInv, ShellTypes
<1> DEFINE c == commandText[k + 2]
           p == <<Escape, c>>
<1>3. k + 2 <= Len(commandText) /\ at + 1 = k + 2 /\ c \in ShellCharacters
  BY <1>2, NextPlace
<1>4. /\ p \in LegalPieces /\ Found(p, commandText, k) /\ Len(p) = 2 /\ p # <<Blank>>
      /\ PieceValue(p) = <<c>>
  BY <1>2, <1>3, NextPlace, ShortPieces
<1>5. Append(current, commandText[at + 1]) = before \o PieceValue(p)
  <2>1. commandText[at + 1] = c
    BY <1>3
  <2> HIDE DEF c
  <2>2. Append(before, c) = before \o <<c>>
    BY <1>3, AppendIsConcat
  <2>3. QED
    BY <1>2, <1>4, <2>1, <2>2
<1> HIDE DEF p, c
<1>6. PICK q \in LegalPieces : q = p
  BY <1>4
<1>7. /\ Found(q, commandText, k) /\ k + Len(q) = at + 1 /\ q # <<Blank>>
      /\ Measure(before \o PieceValue(q)) /\ started' = TRUE
  BY <1>2, <1>3, <1>4, <1>5, <1>6
<1>8. QED
  BY <1>2, <1>7, PieceRead

\* A piece cut out of a text, from behind place k up to place n.
CutOut(text, k, n) == SubSeq(text, k + 1, n)

CutIs(p, text, k, n) ==
    /\ p \in Seq(ShellCharacters)
    /\ Len(p) = n - k /\ k + Len(p) = n
    /\ \A i \in 1..(n - k) : p[i] = text[k + i]
    /\ p[1] = text[k + 1] /\ p[Len(p)] = text[n]
    /\ Found(p, text, k) /\ p # <<Blank>>
    /\ Within(p) = SubSeq(text, k + 2, n - 1)
    /\ Within(p) \in Seq(ShellCharacters)
    /\ Len(Within(p)) = (n - k) - 2
    /\ \A i \in 1..((n - k) - 2) : Within(p)[i] = text[(k + 1) + i]

LEMMA CutOutForm ==
    ASSUME NEW text \in Seq(ShellCharacters), NEW k \in Nat, NEW n \in Nat,
           k + 2 <= n, n <= Len(text)
    PROVE  CutIs(CutOut(text, k, n), text, k, n)
<1> DEFINE p == CutOut(text, k, n)
           w == SubSeq(text, k + 2, n - 1)
<1>1. Len(text) \in Nat /\ \A i \in 1..Len(text) : text[i] \in ShellCharacters
  BY LenProperties, ElementOfSeq
<1>2. p \in Seq(ShellCharacters) /\ Len(p) = n - k /\ \A i \in 1..(n - k) : p[i] = text[k + i]
  <2>1. k + 1 \in Int /\ n \in Int /\ \A i \in (k + 1)..n : text[i] \in ShellCharacters
    BY <1>1
  <2>2. /\ p \in Seq(ShellCharacters)
        /\ Len(p) = IF k + 1 <= n THEN n - (k + 1) + 1 ELSE 0
        /\ \A i \in 1..(n - (k + 1) + 1) : p[i] = text[(k + 1) + i - 1]
    BY <2>1, SubSeqProperties DEF CutOut
  <2> HIDE DEF p
  <2>3. n - (k + 1) + 1 = n - k /\ \A i \in 1..(n - k) : (k + 1) + i - 1 = k + i
    OBVIOUS
  <2>4. k + 1 <= n
    OBVIOUS
  <2>5. QED
    BY <2>2, <2>3, <2>4
<1>3. /\ w \in Seq(ShellCharacters) /\ Len(w) = (n - k) - 2
      /\ \A i \in 1..((n - k) - 2) : w[i] = text[(k + 1) + i]
  <2>1. k + 2 \in Int /\ n - 1 \in Int /\ \A i \in (k + 2)..(n - 1) : text[i] \in ShellCharacters
    BY <1>1
  <2>2. /\ w \in Seq(ShellCharacters)
        /\ Len(w) = IF k + 2 <= n - 1 THEN (n - 1) - (k + 2) + 1 ELSE 0
        /\ \A i \in 1..((n - 1) - (k + 2) + 1) : w[i] = text[(k + 2) + i - 1]
    BY SMTT(60), <2>1, SubSeqProperties
  <2> HIDE DEF w
  <2>3. (n - 1) - (k + 2) + 1 = (n - k) - 2
        /\ \A i \in 1..((n - k) - 2) : (k + 2) + i - 1 = (k + 1) + i
    OBVIOUS
  <2>4. k + 2 <= n - 1 \/ (n - k) - 2 = 0
    OBVIOUS
  <2>5. QED
    BY <2>2, <2>3, <2>4
<1> HIDE DEF p, w
<1>4. Len(p) >= 2 /\ 1 \in 1..(n - k) /\ n - k \in 1..(n - k) /\ k + (n - k) = n
  BY <1>2
<1>5. p[1] = text[k + 1] /\ p[Len(p)] = text[n] /\ k + Len(p) = n
  BY <1>2, <1>4
<1>6. Found(p, text, k)
  BY <1>2, <1>5 DEF Found
<1>7. Within(p) = w
  <2>1. /\ Within(p) \in Seq(ShellCharacters) /\ Len(Within(p)) = Len(p) - 2
        /\ \A i \in 1..(Len(p) - 2) : Within(p)[i] = p[i + 1]
    BY <1>2, <1>4, WithinForm
  <2>2. ASSUME NEW i \in 1..Len(w) PROVE Within(p)[i] = w[i]
    <3>1. i \in 1..(Len(p) - 2) /\ i \in 1..((n - k) - 2) /\ i + 1 \in 1..(n - k)
          /\ k + (i + 1) = (k + 1) + i
      BY <1>2, <1>3
    <3>2. QED
      BY <1>2, <1>3, <2>1, <3>1
  <2>3. Len(Within(p)) = Len(w)
    BY <1>2, <1>3, <2>1
  <2>4. QED
    BY <1>3, <2>1, <2>2, <2>3, SeqEqual
<1>8. p # <<Blank>>
  <2> DEFINE b == <<Blank>>
  <2>1. Len(b) = 1
    OBVIOUS
  <2> HIDE DEF b
  <2>2. p # b
    <3>1. n - k # 1
      OBVIOUS
    <3>2. QED
      BY <1>2, <2>1, <3>1
  <2>3. QED
    BY <2>2 DEF b
<1>9. QED
  BY <1>2, <1>3, <1>5, <1>6, <1>7, <1>8 DEF CutIs, p, w

LEMMA SubSeqGrows ==
    ASSUME NEW text \in Seq(ShellCharacters), NEW k \in Nat, NEW n \in Nat,
           k < n, n < Len(text)
    PROVE  /\ SubSeq(text, k + 2, n) \in Seq(ShellCharacters)
           /\ SubSeq(text, k + 2, n + 1) = Append(SubSeq(text, k + 2, n), text[n + 1])
<1>1. Len(text) \in Nat /\ \A i \in 1..Len(text) : text[i] \in ShellCharacters
  BY LenProperties, ElementOfSeq
<1> DEFINE m == n + 1
<1>2. m \in Nat /\ k + 2 <= m /\ m <= Len(text) /\ m - 1 = n
  BY <1>1
<1> HIDE DEF m
<1>3. /\ SubSeq(text, k + 2, m - 1) \in Seq(ShellCharacters)
      /\ Len(SubSeq(text, k + 2, m - 1)) = (m - k) - 2
      /\ \A i \in 1..((m - k) - 2) : SubSeq(text, k + 2, m - 1)[i] = text[(k + 1) + i]
  <2> DEFINE p == CutOut(text, k, m)
  <2>1. CutIs(p, text, k, m)
    BY <1>2, CutOutForm
  <2> HIDE DEF p
  <2>2. Within(p) = SubSeq(text, k + 2, m - 1)
    BY <2>1 DEF CutIs
  <2>3. /\ Within(p) \in Seq(ShellCharacters)
        /\ Len(Within(p)) = (m - k) - 2
        /\ \A i \in 1..((m - k) - 2) : Within(p)[i] = text[(k + 1) + i]
    BY <2>1 DEF CutIs
  <2>4. QED
    BY <2>2, <2>3
<1> DEFINE a == SubSeq(text, k + 2, n)
           b == SubSeq(text, k + 2, n + 1)
           c == Append(a, text[n + 1])
<1>4. /\ a \in Seq(ShellCharacters) /\ Len(a) = (n - k) - 1
      /\ \A i \in 1..((n - k) - 1) : a[i] = text[(k + 1) + i]
  <2>1. (m - k) - 2 = (n - k) - 1
    BY DEF m
  <2> HIDE DEF a
  <2>2. SubSeq(text, k + 2, m - 1) = a
    BY <1>2 DEF a
  <2>3. QED
    BY <1>3, <2>1, <2>2
<1>5. /\ b \in Seq(ShellCharacters) /\ Len(b) = n - k
      /\ \A i \in 1..(n - k) : b[i] = text[(k + 1) + i]
  <2>1. k + 2 \in Int /\ n + 1 \in Int /\ \A i \in (k + 2)..(n + 1) : text[i] \in ShellCharacters
    BY <1>1
  <2>2. /\ b \in Seq(ShellCharacters)
        /\ Len(b) = IF k + 2 <= n + 1 THEN (n + 1) - (k + 2) + 1 ELSE 0
        /\ \A i \in 1..((n + 1) - (k + 2) + 1) : b[i] = text[(k + 2) + i - 1]
    BY <2>1, SubSeqProperties
  <2> HIDE DEF b
  <2>3. (n + 1) - (k + 2) + 1 = n - k
        /\ \A i \in 1..(n - k) : (k + 2) + i - 1 = (k + 1) + i
    OBVIOUS
  <2>4. k + 2 <= n + 1
    OBVIOUS
  <2>5. QED
    BY <2>2, <2>3, <2>4
<1>6. /\ c \in Seq(ShellCharacters) /\ Len(c) = Len(a) + 1
      /\ c[Len(a) + 1] = text[n + 1] /\ \A i \in 1..Len(a) : c[i] = a[i]
  <2>1. text[n + 1] \in ShellCharacters
    BY <1>1
  <2> HIDE DEF a
  <2>2. QED
    BY <1>4, <2>1, AppendProperties
<1> HIDE DEF a, b, c
<1>7. ASSUME NEW i \in 1..Len(b) PROVE b[i] = c[i]
  <2>1. i \in 1..(n - k) /\ b[i] = text[(k + 1) + i]
    BY <1>5
  <2>2. CASE i = n - k
    <3>1. (k + 1) + i = n + 1 /\ ((n - k) - 1) + 1 = i
      BY <2>2
    <3>2. Len(a) + 1 = i
      BY <1>4, <3>1
    <3>3. QED
      BY <1>6, <2>1, <3>1, <3>2
  <2>3. CASE i # n - k
    <3>1. i \in 1..((n - k) - 1) /\ i \in 1..Len(a)
      BY <1>4, <2>1, <2>3
    <3>2. QED
      BY <1>4, <1>6, <2>1, <3>1
  <2>4. QED
    BY <2>2, <2>3
<1>8. b = c
  <2>1. Len(b) = Len(c)
    BY <1>4, <1>5, <1>6
  <2>2. QED
    BY <1>5, <1>6, <1>7, <2>1, SeqEqual
<1>9. QED
  BY <1>4, <1>8 DEF a, b, c

LEMMA SingleKept ==
    ASSUME ShellInv, Advance, ReadSingle(commandText[at + 1])
    PROVE  ShellInv'
<1>1. PICK done \in Seq(LegalPieces), k \in Nat, before \in Seq(ShellCharacters) :
          ReadTo(done, k, before)
  BY InPiece
<1>2. /\ StandAt(done, k) /\ Begun(done, before) /\ started = TRUE
      /\ k < at /\ commandText[k + 1] = Single
      /\ \A i \in (k + 2)..at : commandText[i] # Single
      /\ current = before \o SubSeq(commandText, k + 2, at)
      /\ mode = "single" /\ UNCHANGED <<tokens, started>>
  BY <1>1 DEF ReadTo, Held, ReadSingle, ShellInv, ShellTypes
<1>3. PICK n \in Nat : n = at
  BY NextPlace
<1>4. /\ commandText \in Seq(ShellCharacters) /\ Len(commandText) \in Nat
      /\ k < n /\ n < Len(commandText) /\ n + 1 \in Nat /\ k + 2 <= n + 1
      /\ n + 1 <= Len(commandText) /\ (n + 1) - 1 = n
  BY <1>2, <1>3, NextPlace
<1>5. CASE commandText[at + 1] = Single
  <2> DEFINE m == n + 1
             p == CutOut(commandText, k, m)
  <2>1. CutIs(p, commandText, k, m)
    <3>1. m \in Nat /\ k + 2 <= m /\ m <= Len(commandText)
      BY <1>4
    <3> HIDE DEF m
    <3>2. QED
      BY <1>4, <3>1, CutOutForm
  <2>2. m - 1 = n /\ m = at + 1 /\ m - k >= 2 /\ m \in Nat
    BY <1>3, <1>4
  <2> HIDE DEF p, m
  <2>3. Within(p) = SubSeq(commandText, k + 2, at)
    BY <1>3, <2>1, <2>2 DEF CutIs
  <2>4. \A i \in DOMAIN Within(p) : Within(p)[i] # Single
    <3>1. DOMAIN Within(p) = 1..((m - k) - 2)
      BY <2>1, LenProperties DEF CutIs
    <3>2. ASSUME NEW i \in 1..((m - k) - 2) PROVE Within(p)[i] # Single
      <4>1. (k + 1) + i \in (k + 2)..n
        BY SMTT(60), <1>4, <2>2
      <4>2. QED
        BY ZenonT(60), <1>2, <1>3, <2>1, <4>1 DEF CutIs
    <3>3. QED
      BY <3>1, <3>2
  <2>5. p \in LegalPieces /\ p[1] = Single
    <3>1. Between(p, Single)
      BY <1>2, <1>5, <2>1, <2>2 DEF Between, CutIs
    <3>2. QED
      BY <1>2, <2>1, <2>4, <3>1 DEF LegalPieces, CutIs
  <2>6. PieceValue(p) = SubSeq(commandText, k + 2, at)
    BY <2>3, <2>5, ValueForms
  <2>7. mode' = "word" /\ Measure(current)
    BY <1>5 DEF ReadSingle
  <2>8. Measure(before \o PieceValue(p))
    BY <1>2, <2>6, <2>7
  <2>9. started' = TRUE /\ k + Len(p) = at + 1
    BY <1>2, <2>1, <2>2 DEF CutIs
  <2>10. PICK q \in LegalPieces : q = p
    BY <2>5
  <2>11. /\ q # <<Blank>> /\ Found(q, commandText, k) /\ k + Len(q) = at + 1
         /\ Measure(before \o PieceValue(q))
    BY <2>1, <2>8, <2>9, <2>10 DEF CutIs
  <2>12. QED
    BY <1>2, <2>7, <2>9, <2>11, PieceRead
<1>6. CASE commandText[at + 1] # Single
  <2>1. current' = Append(current, commandText[at + 1]) /\ UNCHANGED <<mode, answer>>
    BY <1>6 DEF ReadSingle
  <2>2. /\ SubSeq(commandText, k + 2, n) \in Seq(ShellCharacters)
        /\ SubSeq(commandText, k + 2, n + 1)
             = Append(SubSeq(commandText, k + 2, n), commandText[n + 1])
    BY <1>4, SubSeqGrows
  <2>3. /\ commandText[n + 1] \in ShellCharacters /\ current \in Seq(ShellCharacters)
    BY <1>3, NextPlace
  <2> DEFINE a == SubSeq(commandText, k + 2, n)
             c == commandText[n + 1]
  <2>4. /\ a \in Seq(ShellCharacters) /\ c \in ShellCharacters /\ current = before \o a
        /\ SubSeq(commandText, k + 2, n + 1) = Append(a, c) /\ current' = Append(current, c)
    BY <1>2, <1>3, <2>1, <2>2, <2>3
  <2> HIDE DEF a, c
  <2>5. current' = before \o SubSeq(commandText, k + 2, n + 1)
    <3>1. before \o Append(a, c) = Append(before \o a, c)
      BY <2>4, AppendBehind
    <3>2. QED
      BY <2>4, <3>1
  <2>6. current' \in Seq(ShellCharacters)
    BY <2>3, <2>4, AppendProperties
  <2>7. \A i \in (k + 2)..(n + 1) : commandText[i] # Single
    BY <1>2, <1>3, <1>4, <1>6
  <2>8. Held(k, before)'
    <3>1. mode' = "single" /\ at' = n + 1 /\ commandText' = commandText /\ k < n + 1
      BY <1>2, <1>3, <1>4, <2>1 DEF Advance, Consume
    <3>2. QED
      BY <1>2, <2>5, <2>7, <3>1 DEF Held
  <2>9. QED
    BY <1>2, <2>1, <2>6, <2>8, PieceContinues DEF Modes
<1>7. QED
  BY <1>5, <1>6

\* What follows the parts read so far in every way of cutting the command.
LEMMA QuoteFollows ==
    ASSUME commandText \in Seq(ShellCharacters), NEW k \in Nat, NEW n \in Nat,
           NEW before, NEW parts \in Seq(DoublePieces), PartsRead(parts, k, before, n),
           NEW p \in LegalPieces, Found(p, commandText, k)
    PROVE  \/ n + 1 <= Len(commandText) /\ commandText[n + 1] \notin {Escape, Live}
           \/ /\ n + 2 <= Len(commandText) /\ commandText[n + 1] = Escape
              /\ commandText[n + 2] \in Escapable
<1>1. /\ commandText[k + 1] = Double /\ Found(FlattenSeq(parts), commandText, k + 1)
      /\ n = (k + 1) + Len(FlattenSeq(parts))
  BY DEF PartsRead
<1>2. p[1] = Double
  BY <1>1, FoundFirst
<1>3. PICK x \in DoubleEnds : Found(x, commandText, n)
  BY <1>1, <1>2, DoubleRest
<1>4. /\ x \in Seq(ShellCharacters)
      /\ \/ Len(x) = 1 /\ x[1] \notin {Escape, Live}
         \/ Len(x) = 2 /\ x[1] = Escape /\ x[2] \in Escapable
  BY DoubleForms
<1>5. n + Len(x) <= Len(commandText) /\ \A i \in 1..Len(x) : commandText[n + i] = x[i]
  BY <1>3 DEF Found
<1>6. QED
  BY SMTT(60), <1>4, <1>5

LEMMA PartAdded ==
    ASSUME commandText \in Seq(ShellCharacters), UNCHANGED commandText,
           NEW k \in Nat, NEW n \in Nat,
           NEW before \in Seq(ShellCharacters), NEW parts \in Seq(DoublePieces),
           PartsRead(parts, k, before, n),
           NEW x \in DoublePieces, Found(x, commandText, n),
           NEW m, m = n + Len(x), current' = Append(current, x[Len(x)])
    PROVE  QuoteRead(k, before, m)'
<1> DEFINE f == FlattenSeq(parts)
           more == Append(parts, x)
<1>1. /\ commandText[k + 1] = Double /\ f \in Seq(ShellCharacters)
      /\ Found(f, commandText, k + 1) /\ n = (k + 1) + Len(f)
      /\ current = before \o Lasts(parts)
  BY DEF PartsRead
<1>2. x \in Seq(ShellCharacters) /\ parts \in Seq(Seq(ShellCharacters)) /\ Len(x) \in Nat
  <2>1. DoublePieces \subseteq Seq(ShellCharacters)
    BY DoublePiecesAreTexts
  <2>2. QED
    BY <2>1, SeqMonotonic, LenProperties
<1>3. FlattenSeq(more) = f \o x /\ more \in Seq(DoublePieces)
  BY <1>2, FlattenAppend, AppendProperties
<1>4. /\ Lasts(parts) \in Seq(ShellCharacters) /\ x[Len(x)] \in ShellCharacters
      /\ Lasts(more) = Append(Lasts(parts), x[Len(x)])
  BY LastsGrow
<1> HIDE DEF f, more
<1>5. /\ f \o x \in Seq(ShellCharacters) /\ Len(f \o x) = Len(f) + Len(x)
      /\ Len(f) \in Nat
  BY <1>1, <1>2, ConcatProperties, LenProperties
<1>6. Found(f \o x, commandText, k + 1)
  BY <1>1, <1>2, FoundConcat
<1>7. m = (k + 1) + Len(f \o x)
  BY <1>1, <1>2, <1>5
<1>8. current' = before \o Lasts(more)
  <2> DEFINE l == Lasts(parts)
             c == x[Len(x)]
  <2>1. l \in Seq(ShellCharacters) /\ c \in ShellCharacters /\ Lasts(more) = Append(l, c)
        /\ current' = Append(before \o l, c)
    BY <1>1, <1>4
  <2> HIDE DEF l, c
  <2>2. before \o Append(l, c) = Append(before \o l, c)
    BY SMTT(60), <2>1, AppendBehind
  <2>3. QED
    BY <2>1, <2>2
<1>9. PartsRead(more, k, before, m)'
  BY <1>1, <1>3, <1>5, <1>6, <1>7, <1>8 DEF PartsRead
<1>10. QED
  BY <1>3, <1>9 DEF QuoteRead

\* The double quoted piece is complete.
QuoteEnds(k, before, n) ==
    \E p \in LegalPieces :
        /\ Found(p, commandText, k) /\ p # <<Blank>> /\ k + Len(p) = n
        /\ current = before \o PieceValue(p)

LEMMA QuoteClosed ==
    ASSUME commandText \in Seq(ShellCharacters), NEW k \in Nat, NEW n \in Nat,
           NEW before \in Seq(ShellCharacters), NEW parts \in Seq(DoublePieces),
           PartsRead(parts, k, before, n), n < Len(commandText),
           commandText[n + 1] = Double
    PROVE  QuoteEnds(k, before, n + 1)
<1> DEFINE f == FlattenSeq(parts)
           m == n + 1
           p == CutOut(commandText, k, m)
<1>1. /\ commandText[k + 1] = Double /\ f \in Seq(ShellCharacters)
      /\ Found(f, commandText, k + 1) /\ n = (k + 1) + Len(f)
      /\ current = before \o Lasts(parts)
  BY DEF PartsRead
<1> HIDE DEF f, m, p
<1>2. Len(f) \in Nat /\ Len(commandText) \in Nat
  BY <1>1, LenProperties
<1>3. m \in Nat /\ k + 2 <= m /\ m <= Len(commandText) /\ (m - k) - 2 = Len(f) /\ m - k >= 2
  BY <1>1, <1>2 DEF m
<1>4. CutIs(p, commandText, k, m)
  BY <1>3, CutOutForm DEF p
<1>5. /\ p \in Seq(ShellCharacters) /\ Len(p) = m - k /\ k + Len(p) = m
      /\ p[1] = Double /\ p[Len(p)] = Double /\ Found(p, commandText, k) /\ p # <<Blank>>
      /\ Within(p) \in Seq(ShellCharacters) /\ Len(Within(p)) = Len(f)
      /\ \A i \in 1..Len(f) : Within(p)[i] = commandText[(k + 1) + i]
  BY <1>1, <1>3, <1>4 DEF CutIs, m
<1>6. f = Within(p)
  <2>1. \A i \in 1..Len(f) : f[i] = Within(p)[i]
    BY <1>1, <1>5 DEF Found
  <2>2. QED
    BY <1>1, <1>5, <2>1, SeqEqual
<1>7. Between(p, Double) /\ Len(p) >= 2
  BY <1>3, <1>5 DEF Between
<1>8. parts \in DoubleCuttings(p)
  BY <1>5, <1>6, <1>7, DoubleCut DEF f
<1>9. p \in LegalPieces
  BY <1>5, <1>7, <1>8 DEF LegalPieces
<1>10. PieceValue(p) = Lasts(parts)
  BY <1>5, <1>6, <1>9, ValueForms DEF f
<1>11. QED
  BY <1>1, <1>5, <1>9, <1>10 DEF QuoteEnds, m

LEMMA DoubleKept ==
    ASSUME ShellInv, Advance, ReadDouble(commandText[at + 1])
    PROVE  ShellInv'
<1> DEFINE c == commandText[at + 1]
<1>1. PICK done \in Seq(LegalPieces), k \in Nat, before \in Seq(ShellCharacters) :
          ReadTo(done, k, before)
  BY InPiece
<1>2. PICK n \in Nat : n = at
  BY NextPlace
<1>3. /\ StandAt(done, k) /\ Begun(done, before) /\ started = TRUE /\ mode = "double"
      /\ QuoteRead(k, before, n)
  BY <1>1, <1>2 DEF ReadTo, Held, ReadDouble, ShellInv, ShellTypes
<1>4. PICK parts \in Seq(DoublePieces) : PartsRead(parts, k, before, n)
  BY <1>3 DEF QuoteRead
<1>5. /\ commandText \in Seq(ShellCharacters) /\ Len(commandText) \in Nat
      /\ n < Len(commandText) /\ c = commandText[n + 1] /\ c \in ShellCharacters
      /\ current \in Seq(ShellCharacters) /\ at' = n + 1 /\ UNCHANGED commandText
  BY <1>2, NextPlace DEF Advance
<1> HIDE DEF c
<1>6. CASE c = Live
  <2>1. RefuseWords("NonLiteralExpansion")
    BY <1>6, SpecialCharacters DEF ReadDouble, c, Escapable
  <2>2. ASSUME NEW p \in LegalPieces PROVE ~Found(p, commandText, k)
    <3>1. Live # Escape
      BY SpecialCharacters
    <3>2. QED
      BY <1>4, <1>5, <1>6, <3>1, QuoteFollows
  <2>3. k < Len(commandText)
    <3>1. n = (k + 1) + Len(FlattenSeq(parts)) /\ Len(FlattenSeq(parts)) \in Nat
      BY <1>4, LenProperties DEF PartsRead
    <3>2. QED
      BY <1>5, <3>1
  <2>4. NotSplit
    BY <1>3, <1>5, <2>2, <2>3, NoPieceThere, NothingSplit
  <2>5. UNCHANGED commandText /\ at' \in 0..Len(commandText)
    BY NextPlace DEF Advance
  <2>6. QED
    BY <2>1, <2>4, <2>5, RefusalIsRight DEF ShellInv
<1>7. CASE c = Double
  <2>1. mode' = "word" /\ Measure(current) /\ UNCHANGED <<tokens, started>>
    BY <1>7, SpecialCharacters DEF ReadDouble, c, Escapable
  <2>2. PICK p \in LegalPieces :
            /\ Found(p, commandText, k) /\ p # <<Blank>> /\ k + Len(p) = n + 1
            /\ current = before \o PieceValue(p)
    <3>1. QuoteEnds(k, before, n + 1)
      BY <1>4, <1>5, <1>7, QuoteClosed
    <3>2. QED
      BY <3>1 DEF QuoteEnds
  <2>3. Measure(before \o PieceValue(p)) /\ k + Len(p) = at + 1 /\ started' = TRUE
    BY <1>2, <1>3, <2>1, <2>2
  <2>4. QED
    BY <1>3, <2>1, <2>2, <2>3, PieceRead
<1>8. CASE c = Escape
  <2>1. mode' = "doubleEscape" /\ UNCHANGED <<tokens, current, started, answer>>
    BY <1>8, SpecialCharacters DEF ReadDouble, c, Escapable
  <2>2. PartsRead(parts, k, before, n)'
    BY <1>4, <1>5, <2>1 DEF PartsRead
  <2>3. QuoteRead(k, before, n)'
    BY <2>2 DEF QuoteRead
  <2>4. Held(k, before)'
    <3>1. at' \in Nat \ {0} /\ at' - 1 = n /\ commandText'[at'] = Escape
      BY <1>5, <1>8
    <3>2. QuoteRead(k, before, at - 1)'
      BY <2>3, <3>1 DEF QuoteRead, PartsRead
    <3>3. QED
      BY <2>1, <3>1, <3>2 DEF Held
  <2>5. QED
    BY <1>3, <1>5, <2>1, <2>4, PieceContinues DEF Modes
<1>9. CASE c \notin Escapable
  <2>1. current' = Append(current, c) /\ UNCHANGED <<mode, tokens, started, answer>>
    BY <1>9 DEF ReadDouble, c, Escapable
  <2> DEFINE x == <<c>>
  <2>2. x \in Seq(ShellCharacters) /\ Len(x) = 1 /\ x[1] = c
    BY <1>5
  <2> HIDE DEF x
  <2>3. x \in DoublePieces
    BY <1>9, <2>2 DEF DoublePieces
  <2>4. Found(x, commandText, n)
    BY <1>5, <2>2 DEF Found
  <2>5. PICK m \in Nat : m = n + 1
    OBVIOUS
  <2>6. QuoteRead(k, before, m)'
    <3>1. m = n + Len(x) /\ current' = Append(current, x[Len(x)])
      BY <2>1, <2>2, <2>5
    <3>2. QED
      BY <1>4, <1>5, <2>3, <2>4, <3>1, PartAdded
  <2>7. Held(k, before)'
    <3>1. QuoteRead(k, before, at)'
      BY <1>5, <2>5, <2>6 DEF QuoteRead, PartsRead
    <3>2. QED
      BY <1>3, <2>1, <3>1 DEF Held
  <2>8. current' \in Seq(ShellCharacters)
    BY <1>5, <2>1, AppendProperties
  <2>9. QED
    BY <1>3, <2>1, <2>7, <2>8, PieceContinues DEF Modes
<1>10. QED
  BY <1>6, <1>7, <1>8, <1>9 DEF Escapable

LEMMA DoubleEscapeKept ==
    ASSUME ShellInv, Advance, mode = "doubleEscape", ReadEscaped(commandText[at + 1])
    PROVE  ShellInv'
<1> DEFINE c == commandText[at + 1]
<1>1. PICK done \in Seq(LegalPieces), k \in Nat, before \in Seq(ShellCharacters) :
          ReadTo(done, k, before)
  BY InPiece
<1>2. /\ StandAt(done, k) /\ Begun(done, before) /\ started = TRUE
      /\ at \in Nat \ {0} /\ commandText[at] = Escape /\ QuoteRead(k, before, at - 1)
  BY <1>1 DEF ReadTo, Held
<1>3. PICK n \in Nat : n = at - 1
  BY <1>2
<1>4. PICK parts \in Seq(DoublePieces) : PartsRead(parts, k, before, n)
  BY <1>2, <1>3 DEF QuoteRead
<1>5. /\ commandText \in Seq(ShellCharacters) /\ Len(commandText) \in Nat
      /\ n + 2 <= Len(commandText) /\ c = commandText[n + 2] /\ c \in ShellCharacters
      /\ commandText[n + 1] = Escape
      /\ current \in Seq(ShellCharacters) /\ at' = n + 2 /\ UNCHANGED commandText
  BY <1>2, <1>3, NextPlace DEF Advance
<1> HIDE DEF c
<1>6. CASE c \notin Escapable
  <2>1. RefuseWords("UnsupportedConstruct")
    BY <1>6 DEF ReadEscaped, c
  <2>2. ASSUME NEW p \in LegalPieces PROVE ~Found(p, commandText, k)
    BY <1>4, <1>5, <1>6, QuoteFollows
  <2>3. k < Len(commandText)
    <3>1. n = (k + 1) + Len(FlattenSeq(parts)) /\ Len(FlattenSeq(parts)) \in Nat
      BY <1>4, LenProperties DEF PartsRead
    <3>2. QED
      BY <1>5, <3>1
  <2>4. NotSplit
    BY <1>2, <1>5, <2>2, <2>3, NoPieceThere, NothingSplit
  <2>5. UNCHANGED commandText /\ at' \in 0..Len(commandText)
    BY NextPlace DEF Advance
  <2>6. QED
    BY <2>1, <2>4, <2>5, RefusalIsRight DEF ShellInv
<1>7. CASE c \in Escapable
  <2>1. /\ mode' = "double" /\ current' = Append(current, c)
        /\ UNCHANGED <<tokens, started, answer>>
    BY <1>7 DEF ReadEscaped, c
  <2> DEFINE x == <<Escape, c>>
  <2>2. x \in Seq(ShellCharacters) /\ Len(x) = 2 /\ x[1] = Escape /\ x[2] = c
    BY <1>5, SpecialCharacters
  <2> HIDE DEF x
  <2>3. x \in DoublePieces
    BY <1>7, <2>2 DEF DoublePieces
  <2>4. Found(x, commandText, n)
    BY <1>5, <2>2 DEF Found
  <2>5. PICK m \in Nat : m = n + 2
    OBVIOUS
  <2>6. QuoteRead(k, before, m)'
    <3>1. m = n + Len(x) /\ current' = Append(current, x[Len(x)])
      BY <2>1, <2>2, <2>5
    <3>2. QED
      BY <1>4, <1>5, <2>3, <2>4, <3>1, PartAdded
  <2>7. Held(k, before)'
    <3>1. QuoteRead(k, before, at)'
      BY <1>5, <2>5, <2>6 DEF QuoteRead, PartsRead
    <3>2. QED
      BY <2>1, <3>1 DEF Held
  <2>8. current' \in Seq(ShellCharacters)
    BY <1>5, <2>1, AppendProperties
  <2>9. QED
    BY <1>2, <2>1, <2>7, <2>8, PieceContinues DEF Modes
<1>8. QED
  BY <1>6, <1>7

\* The end of the command, reached inside a piece.
LEMMA UnterminatedRefused ==
    ASSUME ShellInv, answer = "Reading", at = Len(commandText), mode # "word",
           RefuseWords("UnterminatedQuote"), UNCHANGED <<commandText, at>>
    PROVE  ShellInv'
<1>1. /\ commandText \in Seq(ShellCharacters) /\ Len(commandText) \in Nat
      /\ at \in 0..Len(commandText) /\ started \in BOOLEAN /\ mode \in Modes /\ ReadSoFar
  BY LenProperties DEF ShellInv, ShellTypes, Answered
<1>2. PICK done \in Seq(LegalPieces), k \in Nat, before \in Seq(ShellCharacters) :
          ReadTo(done, k, before)
  BY <1>1 DEF ReadSoFar
<1>3. StandAt(done, k) /\ Held(k, before)
  BY <1>2 DEF ReadTo
<1>4. PICK n \in Nat : n = Len(commandText)
  BY <1>1
<1>5. ASSUME NEW m \in Nat, QuoteRead(k, before, m), n = m \/ n = m + 1,
             n = m + 1 => commandText[m + 1] = Escape
      PROVE  k < n /\ \A p \in LegalPieces : ~Found(p, commandText, k)
  <2>1. PICK parts \in Seq(DoublePieces) : PartsRead(parts, k, before, m)
    BY <1>5 DEF QuoteRead
  <2>2. k < n
    <3>1. m = (k + 1) + Len(FlattenSeq(parts)) /\ Len(FlattenSeq(parts)) \in Nat
      BY <2>1, LenProperties DEF PartsRead
    <3>2. QED
      BY <1>5, <3>1
  <2>3. ASSUME NEW p \in LegalPieces, Found(p, commandText, k) PROVE FALSE
    <3>1. \/ m + 1 <= n /\ commandText[m + 1] \notin {Escape, Live}
          \/ m + 2 <= n
      BY <1>1, <1>4, <2>1, <2>3, QuoteFollows
    <3>2. QED
      BY <1>5, <3>1
  <2>4. QED
    BY <2>2, <2>3
<1>6. k < n /\ \A p \in LegalPieces : ~Found(p, commandText, k)
  <2>1. CASE mode = "escape"
    <3>1. n = k + 1 /\ commandText[k + 1] = Escape
      BY <1>3, <1>4, <2>1 DEF Held
    <3>2. ASSUME NEW p \in LegalPieces, Found(p, commandText, k) PROVE FALSE
      <4>1. p[1] = Escape /\ k + Len(p) <= n /\ Len(p) = 2
        <5>1. /\ Len(p) \in Nat \ {0} /\ commandText[k + 1] = p[1]
              /\ k + Len(p) <= Len(commandText)
              /\ p[1] = Escape => Len(p) = 2
          BY <3>2, FoundFirst
        <5>2. QED
          BY <1>4, <3>1, <5>1
      <4>2. QED
        BY <3>1, <4>1
    <3>3. QED
      BY <3>1, <3>2
  <2>2. CASE mode = "single"
    <3>1. /\ k < n /\ commandText[k + 1] = Single
          /\ \A i \in (k + 2)..n : commandText[i] # Single
      BY <1>3, <1>4, <2>2 DEF Held
    <3>2. ASSUME NEW p \in LegalPieces, Found(p, commandText, k) PROVE FALSE
      <4>1. p[1] = Single /\ k + Len(p) <= n /\ Len(p) >= 2 /\ p[Len(p)] = Single
            /\ Len(p) \in Nat
        <5>1. /\ Len(p) \in Nat \ {0} /\ commandText[k + 1] = p[1]
              /\ k + Len(p) <= Len(commandText)
              /\ p[1] = Single => Len(p) >= 2 /\ p[Len(p)] = Single
          BY <3>2, FoundFirst
        <5>2. QED
          BY <1>4, <3>1, <5>1
      <4>2. commandText[k + Len(p)] = Single
        BY <3>2, <4>1 DEF Found
      <4>3. k + Len(p) \in (k + 2)..n
        BY <4>1
      <4>4. QED
        BY <3>1, <4>2, <4>3
    <3>3. QED
      BY <3>1, <3>2
  <2>3. CASE mode = "double"
    <3>1. QuoteRead(k, before, n)
      BY <1>3, <1>4, <2>3 DEF Held
    <3>2. n = n /\ n # n + 1
      OBVIOUS
    <3>3. QED
      BY <1>5, <3>1, <3>2
  <2>4. CASE mode = "doubleEscape"
    <3>1. n \in Nat \ {0} /\ commandText[n] = Escape /\ QuoteRead(k, before, n - 1)
      BY <1>3, <1>4, <2>4 DEF Held
    <3>2. PICK m \in Nat : m = n - 1
      BY <3>1
    <3>3. QuoteRead(k, before, m) /\ n = m + 1 /\ commandText[m + 1] = Escape
      BY <3>1, <3>2
    <3>4. QED
      BY <1>5, <3>3
  <2>5. QED
    BY <1>1, <2>1, <2>2, <2>3, <2>4 DEF Modes
<1>7. NotSplit
  BY <1>1, <1>3, <1>4, <1>6, NoPieceThere, NothingSplit
<1>8. UNCHANGED commandText /\ at' \in 0..Len(commandText)
  BY <1>1
<1>9. QED
  BY <1>7, <1>8, RefusalIsRight DEF ShellInv

LEMMA FinishKept ==
    ASSUME ShellInv, EndOfCommand
    PROVE  ShellInv'
<1>1. /\ commandText \in Seq(ShellCharacters) /\ Len(commandText) \in Nat
      /\ at \in 0..Len(commandText) /\ mode \in Modes /\ started \in BOOLEAN
      /\ tokens \in Seq(Seq(ShellCharacters)) /\ Len(tokens) \in Nat
      /\ current \in Seq(ShellCharacters) /\ ReadSoFar
      /\ answer = "Reading" /\ at = Len(commandText) /\ UNCHANGED <<commandText, at>>
  BY LenProperties DEF ShellInv, ShellTypes, Answered, EndOfCommand
<1>2. CASE mode # "word"
  <2>1. RefuseWords("UnterminatedQuote")
    BY <1>2 DEF EndOfCommand
  <2>2. QED
    BY <1>1, <1>2, <2>1, UnterminatedRefused
<1>3. CASE mode = "word"
  <2>1. PICK done \in Seq(LegalPieces), k \in Nat, before \in Seq(ShellCharacters) :
            ReadTo(done, k, before)
    BY <1>1 DEF ReadSoFar
  <2>2. /\ StandAt(done, k) /\ k = Len(commandText) /\ Begun(done, current)
        /\ started <=> InWord(done)
    BY <1>1, <1>3, <2>1 DEF ReadTo, Held
  <2>3. CuttingsOf(commandText, LegalPieces) = {done}
    BY <1>1, <2>2, OnlyCutting
  <2>4. CASE started /\ Len(tokens) >= MaxShellTokens
    <3>1. RefuseWords("TooManyTokens")
      BY <1>3, <2>4 DEF EndOfCommand
    <3>2. WordsSpelled(done) = Append(tokens, current)
      BY <2>2, <2>4 DEF Begun
    <3>3. Len(WordsSpelled(done)) = Len(tokens) + 1
      BY <1>1, <3>2, AppendProperties
    <3>4. Len(WordsSpelled(done)) > MaxShellTokens
      BY <1>1, <2>4, <3>3, ShellAssumption
    <3>5. NotSplit
      BY <1>1, <2>2, <3>4, TooLongForAll
    <3>6. UNCHANGED commandText /\ at' \in 0..Len(commandText)
      BY <1>1
    <3>7. QED
      BY <3>1, <3>5, <3>6, RefusalIsRight DEF ShellInv
  <2>5. CASE started /\ ~(Len(tokens) >= MaxShellTokens)
    <3>1. tokens' = Append(tokens, current) /\ answer' = "Ok" /\ UNCHANGED <<mode, current, started>>
      BY <1>3, <2>5 DEF EndOfCommand
    <3>2. WordsSpelled(done) = Append(tokens, current)
      BY <2>2, <2>5 DEF Begun
    <3>3. /\ tokens' \in Seq(Seq(ShellCharacters)) /\ Len(tokens') = Len(tokens) + 1
          /\ \A n \in 1..Len(tokens) : tokens'[n] = tokens[n]
          /\ tokens'[Len(tokens) + 1] = current
      BY <1>1, <3>1, AppendProperties
    <3>4. ShellTypes'
      BY <1>1, <3>1, <3>3 DEF ShellTypes
    <3>5. InLimits'
      <4>1. /\ Len(commandText) <= MaxCommand /\ Len(tokens) <= MaxShellTokens
            /\ \A n \in 1..Len(tokens) : Len(tokens[n]) <= MaxToken
            /\ Len(current) <= MaxToken
        BY <1>1, <1>3 DEF ShellInv, InLimits
      <4>2. MaxShellTokens \in Nat
        BY ShellAssumption
      <4>3. Len(tokens') <= MaxShellTokens
        BY <1>1, <2>5, <3>3, <4>2
      <4>4. ASSUME NEW n \in 1..Len(tokens') PROVE Len(tokens'[n]) <= MaxToken
        <5>1. n \in 1..Len(tokens) \/ n = Len(tokens) + 1
          BY <1>1, <3>3
        <5>2. QED
          BY <3>3, <4>1, <5>1
      <4>5. QED
        BY <1>1, <3>1, <4>1, <4>3, <4>4 DEF InLimits
    <3>6. IsSplit'
      <4>1. tokens' # <<>>
        BY <1>1, <3>3, EmptySeq
      <4>2. QED
        BY <1>1, <2>3, <3>1, <3>2, <4>1 DEF IsSplit
    <3>7. QED
      BY <3>1, <3>4, <3>5, <3>6 DEF ShellInv, Answered
  <2>6. CASE ~started
    <3>1. /\ answer' = (IF tokens = <<>> THEN "Empty" ELSE "Ok")
          /\ UNCHANGED <<mode, tokens, current, started>>
      BY <1>3, <2>6 DEF EndOfCommand
    <3>2. WordsSpelled(done) = tokens
      BY <2>2, <2>6 DEF Begun
    <3>3. ShellTypes' /\ InLimits'
      <4>1. ShellTypes'
        BY <1>1, <3>1 DEF ShellTypes
      <4>2. InLimits'
        BY <1>1, <3>1 DEF ShellInv, InLimits
      <4>3. QED
        BY <4>1, <4>2
    <3>4. CASE tokens = <<>>
      <4>1. NotSplit'
        BY <1>1, <2>3, <3>2, <3>4 DEF NotSplit
      <4>2. QED
        BY <3>1, <3>3, <3>4, <4>1 DEF ShellInv, Answered
    <3>5. CASE tokens # <<>>
      <4>1. IsSplit'
        BY <1>1, <2>3, <3>1, <3>2, <3>5 DEF IsSplit
      <4>2. QED
        BY <3>1, <3>3, <3>5, <4>1 DEF ShellInv, Answered
    <3>6. QED
      BY <3>4, <3>5
  <2>7. QED
    BY <1>1, <2>4, <2>5, <2>6
<1>4. QED
  BY <1>2, <1>3

LEMMA ReadKept ==
    ASSUME ShellInv, ReadCharacter
    PROVE  ShellInv'
<1>1. Advance
  BY DEF ReadCharacter, Advance
<1>2. CASE ReadBlank(commandText[at + 1])
  BY <1>1, <1>2, BlankKept
<1>3. CASE ReadOpening(commandText[at + 1])
  BY <1>1, <1>3, OpeningKept
<1>4. CASE ReadOperator(commandText[at + 1])
  BY <1>1, <1>4, OperatorKept
<1>5. CASE ReadLiteral(commandText[at + 1])
  BY <1>1, <1>5, LiteralKept
<1>6. CASE ReadSingle(commandText[at + 1])
  BY <1>1, <1>6, SingleKept
<1>7. CASE ReadDouble(commandText[at + 1])
  BY <1>1, <1>7, DoubleKept
<1>8. CASE ReadEscaped(commandText[at + 1])
  <2>1. CASE mode = "escape"
    <3>1. /\ mode' = "word" /\ UNCHANGED <<tokens, started>>
          /\ Measure(Append(current, commandText[at + 1]))
      BY <1>8, <2>1 DEF ReadEscaped
    <3>2. QED
      BY <1>1, <2>1, <3>1, EscapedKept
  <2>2. CASE mode = "doubleEscape"
    BY <1>1, <1>8, <2>2, DoubleEscapeKept
  <2>3. QED
    BY <1>8, <2>1, <2>2 DEF ReadEscaped
<1>9. QED
  BY <1>2, <1>3, <1>4, <1>5, <1>6, <1>7, <1>8 DEF ReadCharacter

LEMMA ShellStarts == ShellInit => ShellInv
<1> SUFFICES ASSUME ShellInit PROVE ShellInv
  OBVIOUS
<1>1. commandText \in Seq(ShellCharacters) /\ Len(commandText) \in Nat
  <2>1. PICK n \in 0..MaxInput : commandText \in [1..n -> ShellCharacters]
    BY DEF ShellInit, Commands
  <2>2. n \in Nat
    BY <2>1, ShellAssumption
  <2>3. QED
    BY <2>1, <2>2, LenProperties
<1>2. /\ at = 0 /\ mode = "word" /\ tokens = <<>> /\ current = <<>> /\ started = FALSE
      /\ answer = IF Len(commandText) > MaxCommand THEN "CommandTooLong" ELSE "Reading"
  BY DEF ShellInit
<1>3. /\ <<>> \in Seq(ShellCharacters) /\ <<>> \in Seq(Seq(ShellCharacters))
      /\ Len(<<>>) = 0 /\ <<>> \in Seq(LegalPieces)
  OBVIOUS
<1>4. ShellTypes
  <2>1. at \in 0..Len(commandText) /\ started \in BOOLEAN
    <3>1. at = 0 /\ started = FALSE
      BY <1>2
    <3>2. 0 \in 0..Len(commandText) /\ FALSE \in BOOLEAN
      BY <1>1
    <3>3. QED
      BY <3>1, <3>2
  <2>2. mode \in Modes
    BY <1>2 DEF Modes
  <2>3. tokens \in Seq(Seq(ShellCharacters)) /\ current \in Seq(ShellCharacters)
    BY <1>2, <1>3
  <2>4. QED
    BY <1>1, <2>1, <2>2, <2>3 DEF ShellTypes
<1>5. InLimits
  <2>1. 0 <= MaxShellTokens /\ 0 <= MaxToken /\ MaxCommand \in Nat
    BY ShellAssumption
  <2>2. QED
    BY <1>1, <1>2, <1>3, <2>1 DEF InLimits
<1>6. ReadSoFar
  <2>1. FlattenSeq(<<>>) = <<>>
    BY DEF FlattenSeq
  <2>2. StandAt(<<>>, 0)
    <3> DEFINE e == <<>>
    <3>1. /\ e \in Seq(LegalPieces) /\ FlattenSeq(e) = e /\ e \in Seq(ShellCharacters)
          /\ Len(e) = 0
      BY <1>3, <2>1
    <3> HIDE DEF e
    <3>2. Found(e, commandText, 0)
      BY <1>1, <3>1 DEF Found
    <3>3. StandAt(e, 0)
      BY <3>1, <3>2 DEF StandAt
    <3>4. QED
      BY <3>3 DEF e
  <2>3. WordsSpelled(<<>>) = <<>> /\ ~InWord(<<>>)
    <3>1. <<Blank>> \in LegalPieces
      <4>1. <<Blank>> \in Seq(ShellCharacters) /\ Len(<<Blank>>) = 1 /\ <<Blank>>[1] = Blank
        BY SpecialCharacters
      <4>2. QED
        BY <4>1 DEF LegalPieces
    <3>2. QED
      BY <1>3, <3>1, WordsAppend
  <2>4. Begun(<<>>, <<>>) /\ Held(0, <<>>)
    BY <1>2, <2>3 DEF Begun, Held
  <2>5. ReadTo(<<>>, 0, <<>>)
    BY <1>2, <2>2, <2>3, <2>4 DEF ReadTo
  <2>6. QED
    BY <1>3, <2>5 DEF ReadSoFar
<1>7. Answered
  BY <1>1, <1>2, <1>6, ShellAssumption DEF Answered
<1>8. QED
  BY <1>4, <1>5, <1>7 DEF ShellInv

LEMMA ShellStutters ==
    ASSUME ShellInv, UNCHANGED shellVars
    PROVE  ShellInv'
<1>1. UNCHANGED <<commandText, at, mode, tokens, current, started, answer>>
  BY DEF shellVars
<1>2. ShellTypes' /\ InLimits'
  BY <1>1 DEF ShellInv, ShellTypes, InLimits
<1>3. ASSUME ReadSoFar PROVE ReadSoFar'
  <2>1. PICK done \in Seq(LegalPieces), k \in Nat, before \in Seq(ShellCharacters) :
            ReadTo(done, k, before)
    BY <1>3 DEF ReadSoFar
  <2>2. StandAt(done, k)' /\ Begun(done, before)'
    BY <1>1, <2>1 DEF ReadTo, StandAt, Begun
  <2>3. ASSUME NEW n, QuoteRead(k, before, n) PROVE QuoteRead(k, before, n)'
    <3>1. PICK parts \in Seq(DoublePieces) : PartsRead(parts, k, before, n)
      BY <2>3 DEF QuoteRead
    <3>2. PartsRead(parts, k, before, n)'
      BY <1>1, <3>1 DEF PartsRead
    <3>3. QED
      BY <3>2 DEF QuoteRead
  <2>4. Held(k, before)'
    <3>1. PICK n : n = at
      OBVIOUS
    <3>2. PICK m : m = at - 1
      OBVIOUS
    <3>3. ASSUME QuoteRead(k, before, n) PROVE QuoteRead(k, before, at)'
      BY <1>1, <2>3, <3>1, <3>3 DEF QuoteRead, PartsRead
    <3>4. ASSUME QuoteRead(k, before, m) PROVE QuoteRead(k, before, at - 1)'
      BY <1>1, <2>3, <3>2, <3>4 DEF QuoteRead, PartsRead
    <3>5. QED
      BY <1>1, <2>1, <3>1, <3>2, <3>3, <3>4 DEF ReadTo, Held
  <2>5. ReadTo(done, k, before)'
    BY <1>1, <2>1, <2>2, <2>4 DEF ReadTo
  <2>6. QED
    BY <2>5 DEF ReadSoFar
<1>4. (IsSplit => IsSplit') /\ (NotSplit => NotSplit')
  BY <1>1 DEF IsSplit, NotSplit
<1>5. QED
  BY <1>1, <1>2, <1>3, <1>4 DEF ShellInv, Answered

\* tokenize splits a command exactly when all of it can be cut into legal pieces
\* within the limits, into the words of that cutting (WordsAreLiteral).
THEOREM ShellWordsAreLiteral == ShellSpec => []WordsAreLiteral
<1>1. ShellInit => ShellInv
  BY ShellStarts
<1>2. ShellInv /\ [ShellNext]_shellVars => ShellInv'
  <2> SUFFICES ASSUME ShellInv, [ShellNext]_shellVars PROVE ShellInv'
    OBVIOUS
  <2>1. CASE UNCHANGED shellVars
    BY <2>1, ShellStutters
  <2>2. CASE ReadCharacter
    BY <2>2, ReadKept
  <2>3. CASE EndOfCommand
    BY <2>3, FinishKept
  <2>4. QED
    BY <2>1, <2>2, <2>3 DEF ShellNext
<1>3. ShellInv => WordsAreLiteral
  BY AnswersAreLiteral
<1>4. QED
  BY <1>1, <1>2, <1>3, PTL DEF ShellSpec
=============================================================================
