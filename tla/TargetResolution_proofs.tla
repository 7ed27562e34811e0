----------------------- MODULE TargetResolution_proofs -----------------------
(***************************************************************************)
(* That a resolution is exact for every file system, configuration and     *)
(* candidate, however often others change the file system meanwhile; and   *)
(* first what lookups do in every file system: that following links can be *)
(* cut anywhere, depends on nothing but the links, and that, while no link *)
(* dangles, a name that is not found is no link where it leads.            *)
(*                                                                         *)
(* A lookup ends because each step has fewer links to follow, or as many   *)
(* and fewer names to look up; that order is well founded, so what holds   *)
(* of a lookup whenever it holds of the shorter ones holds of all.         *)
(***************************************************************************)
EXTENDS TargetResolution, Cuttings_proofs, FiniteSetTheorems

\* s has fewer links to follow than t, or as many and fewer names to look up.
Shorter(s, t) ==
    \/ s.links < t.links
    \/ s.links = t.links /\ Len(s.rest) < Len(t.rest)

\* Some lookup of every set of lookups is the shortest.
LEMMA ShortestLookup ==
    ASSUME NEW T \in SUBSET Lookups, T # {}
    PROVE  \E t \in T : \A s \in T : ~Shorter(s, t)
<1>1. \A s \in T : s.links \in Nat /\ Len(s.rest) \in Nat
  BY LenProperties, MaxLinksAssumption DEF Lookups
<1>2. PICK l \in {s.links : s \in T} : \A k \in {s.links : s \in T} : l <= k
  <2> DEFINE links == {s.links : s \in T}
  <2>1. links \in SUBSET Nat /\ links # {}
    BY <1>1
  <2> HIDE DEF links
  <2>2. \E l \in links : \A k \in links : l <= k
    BY <2>1, LeastNumber
  <2>3. QED
    BY <2>2 DEF links
<1> DEFINE Tl == {s \in T : s.links = l}
<1>3. Tl # {} /\ {Len(s.rest) : s \in Tl} \subseteq Nat
  BY <1>1, <1>2
<1> DEFINE Lengths == {Len(s.rest) : s \in Tl}
<1>4. Lengths \in SUBSET Nat /\ Lengths # {}
  BY <1>3
<1>5. PICK n \in Lengths : \A k \in Lengths : n <= k
  <2> HIDE DEF Lengths
  <2>1. QED
    BY <1>4, LeastNumber
<1>6. PICK t \in Tl : Len(t.rest) = n
  BY <1>5
<1>7. ASSUME NEW s \in T, Shorter(s, t) PROVE FALSE
  <2>1. l <= s.links /\ t.links = l /\ s.links \in Nat /\ l \in Nat
    BY <1>1, <1>2
  <2>2. s.links = l /\ Len(s.rest) < n
    BY <1>6, <1>7, <2>1 DEF Shorter
  <2>3. n <= Len(s.rest) /\ n \in Nat /\ Len(s.rest) \in Nat
    BY <1>1, <1>4, <1>5, <2>2
  <2>4. QED
    BY <2>2, <2>3
<1>8. QED
  BY <1>6, <1>7

\* Induction over lookups, for a set of them.
LEMMA LookupInduction ==
    ASSUME NEW T \in SUBSET Lookups,
           \A s \in Lookups : (\A t \in Lookups : Shorter(t, s) => t \in T) => s \in T
    PROVE  T = Lookups
<1> SUFFICES ASSUME Lookups \ T # {} PROVE FALSE
  OBVIOUS
<1>1. PICK s \in Lookups \ T : \A t \in Lookups \ T : ~Shorter(t, s)
  BY ShortestLookup
<1>2. QED
  BY <1>1

\* The parent of a path is a path, one name shorter.
LEMMA ParentType ==
    ASSUME NEW S, NEW p \in Seq(S), p # <<>>
    PROVE  /\ Parent(p) \in Seq(S)
           /\ Len(Parent(p)) = Len(p) - 1
           /\ \A i \in 1..Len(p) - 1 : Parent(p)[i] = p[i]
<1>1. Len(p) \in Nat /\ Len(p) # 0 /\ \A i \in 1..Len(p) : p[i] \in S
  BY EmptySeq, LenProperties, ElementOfSeq
<1>2. \A i \in 1..Len(p) - 1 : p[i] \in S
  BY <1>1
<1>3. /\ SubSeq(p, 1, Len(p) - 1) \in Seq(S)
      /\ Len(SubSeq(p, 1, Len(p) - 1)) = IF 1 <= Len(p) - 1 THEN Len(p) - 1 - 1 + 1 ELSE 0
      /\ \A i \in 1..Len(p) - 1 - 1 + 1 : SubSeq(p, 1, Len(p) - 1)[i] = p[1 + i - 1]
  BY <1>1, <1>2, SubSeqProperties
<1>4. Len(p) - 1 - 1 + 1 = Len(p) - 1 /\ \A i \in 1..Len(p) - 1 : 1 + i - 1 = i
  BY <1>1
<1>5. Len(SubSeq(p, 1, Len(p) - 1)) = Len(p) - 1
  <2>1. \A n \in Nat : (IF 1 <= n THEN n - 1 + 1 ELSE 0) = n
    OBVIOUS
  <2>2. Len(p) - 1 \in Nat
    BY <1>1
  <2>3. QED
    BY <1>3, <2>1, <2>2
<1>6. \A i \in 1..Len(p) - 1 : SubSeq(p, 1, Len(p) - 1)[i] = p[i]
  <2> TAKE i \in 1..Len(p) - 1
  <2>1. SubSeq(p, 1, Len(p) - 1)[i] = p[1 + i - 1]
    BY <1>3, <1>4
  <2>2. QED
    BY <1>4, <2>1
<1>7. QED
  BY <1>3, <1>5, <1>6 DEF Parent, Front

\* One name further is a lookup again, and a shorter one.
LEMMA OnwardShorter ==
    ASSUME NEW disk, IsFileSystem(disk), NEW mode, NEW s \in Lookups, s.rest # <<>>,
           NEW t \in Onward(disk, mode, s)
    PROVE  t \in Lookups /\ Shorter(t, s)
<1>1. /\ s.links \in 0..MaxLinks /\ s.links \in Nat
      /\ s.at \in Seq(Names) /\ s.rest \in Paths
  BY MaxLinksAssumption DEF Lookups
<1>2. /\ Head(s.rest) \in Names \cup {Up}
      /\ Tail(s.rest) \in Paths
      /\ Len(Tail(s.rest)) = Len(s.rest) - 1
      /\ Len(s.rest) \in Nat
  BY <1>1, HeadTailProperties, LenProperties DEF Paths
<1>3. Len(s.rest) - 1 < Len(s.rest)
  BY <1>2
<1> DEFINE next == Append(s.at, Head(s.rest))
<1>4. ASSUME NEW a \in Seq(Names), t = Going(s.links, a, Tail(s.rest))
      PROVE  t \in Lookups /\ Shorter(t, s)
  BY <1>1, <1>2, <1>3, <1>4 DEF Lookups, Shorter, Going
<1>5. CASE Head(s.rest) = Up
  <2>1. (IF s.at = <<>> THEN <<>> ELSE Parent(s.at)) \in Seq(Names)
    BY <1>1, ParentType
  <2>2. QED
    BY <1>4, <1>5, <2>1 DEF Onward
<1>6. CASE Head(s.rest) # Up
  <2>1. next \in Seq(Names)
    BY <1>1, <1>2, <1>6, AppendProperties
  <2>2. CASE IsLink(disk, next)
    <3>1. s.links # 0 /\ t = Going(s.links - 1, <<>>, disk[next].to \o Tail(s.rest))
      BY <1>6, <2>2 DEF Onward
    <3>2. disk[next].to \in Paths
      BY <2>2 DEF IsFileSystem, IsNode, IsLink
    <3>3. disk[next].to \o Tail(s.rest) \in Paths
      BY <1>2, <3>2, ConcatProperties DEF Paths
    <3>4. s.links - 1 \in 0..MaxLinks /\ s.links - 1 < s.links
      BY <1>1, <3>1, MaxLinksAssumption
    <3>5. <<>> \in Seq(Names)
      BY EmptySeq
    <3>6. QED
      BY <3>1, <3>3, <3>4, <3>5 DEF Lookups, Shorter, Going
  <2>3. CASE ~IsLink(disk, next)
    BY <1>4, <1>6, <2>1, <2>3 DEF Onward
  <2>4. QED
    BY <2>2, <2>3
<1>7. QED
  BY <1>5, <1>6

\* What Walk is defined by is what it satisfies.
WalkFrom(disk, mode, walk, s) ==
    IF s.rest = <<>> THEN {s} ELSE UNION {walk[t] : t \in Onward(disk, mode, s)}

LEMMA WalkRecursion ==
    ASSUME NEW disk, IsFileSystem(disk), NEW mode, NEW s \in Lookups
    PROVE  Walk(disk, mode)[s] = WalkFrom(disk, mode, Walk(disk, mode), s)
<1> DEFINE R == {st \in Lookups \X Lookups : Shorter(st[1], st[2])}
           Def(walk, x) == WalkFrom(disk, mode, walk, x)
           f[x \in Lookups] == Def(f, x)
<1>1. \A x, y \in Lookups : <<x, y>> \in R <=> Shorter(x, y)
  OBVIOUS
<1>2. IsWellFoundedOn(R, Lookups)
  <2> HIDE DEF R
  <2>1. \A T \in SUBSET Lookups : T # {} => \E x \in T : \A y \in T : ~ (<<y, x>> \in R)
    BY <1>1, ShortestLookup
  <2>2. QED
    BY <2>1, MinWF
<1>3. WFDefOn(R, Lookups, Def)
  <2> SUFFICES ASSUME NEW g, NEW h, NEW x \in Lookups,
                      \A y \in SetLessThan(x, R, Lookups) : g[y] = h[y]
               PROVE  Def(g, x) = Def(h, x)
    BY DEF WFDefOn
  <2>1. x.rest # <<>> => \A t \in Onward(disk, mode, x) : g[t] = h[t]
    BY <1>1, OnwardShorter DEF SetLessThan
  <2>2. QED
    BY <2>1 DEF WalkFrom
<1>4. Walk(disk, mode) = f
  BY DEF Walk, WalkFrom
<1>5. OpDefinesFcn(f, Lookups, Def)
  BY DEF OpDefinesFcn
<1> HIDE DEF f, R, Def
<1>6. WFInductiveDefines(f, Lookups, Def)
  BY <1>2, <1>3, <1>5, WFInductiveDef
<1>7. f = [x \in Lookups |-> Def(f, x)]
  BY <1>6 DEF WFInductiveDefines
<1>8. f[s] = Def(f, s)
  BY <1>7
<1>9. QED
  BY <1>4, <1>8 DEF Def

-----------------------------------------------------------------------------
\* A lookup is over where it has no names to look up, and otherwise ends where
\* it ends one name further.
LEMMA WalkOver ==
    ASSUME NEW disk, IsFileSystem(disk), NEW mode, NEW s \in Lookups, s.rest = <<>>
    PROVE  Walk(disk, mode)[s] = {s}
<1>1. Walk(disk, mode)[s] = WalkFrom(disk, mode, Walk(disk, mode), s)
  BY WalkRecursion
<1>2. QED
  BY <1>1 DEF WalkFrom

LEMMA WalkOn ==
    ASSUME NEW disk, IsFileSystem(disk), NEW mode, NEW s \in Lookups, s.rest # <<>>
    PROVE  Walk(disk, mode)[s] = UNION {Walk(disk, mode)[t] : t \in Onward(disk, mode, s)}
<1>1. Walk(disk, mode)[s] = WalkFrom(disk, mode, Walk(disk, mode), s)
  BY WalkRecursion
<1>2. QED
  BY <1>1 DEF WalkFrom

\* Where a lookup ends it has no names left, and no more links than before.
LEMMA WalkEnds ==
    ASSUME NEW disk, IsFileSystem(disk), NEW mode
    PROVE  \A s \in Lookups : \A u \in Walk(disk, mode)[s] :
              u \in Lookups /\ u.rest = <<>> /\ u.links <= s.links
<1> DEFINE Good(s) == \A u \in Walk(disk, mode)[s] :
                         u \in Lookups /\ u.rest = <<>> /\ u.links <= s.links
           T == {s \in Lookups : Good(s)}
<1>1. \A s \in Lookups : s.links \in Nat
  BY MaxLinksAssumption DEF Lookups
<1>2. ASSUME NEW s \in Lookups, \A t \in Lookups : Shorter(t, s) => t \in T
      PROVE  s \in T
  <2>1. CASE s.rest = <<>>
    BY <1>1, <2>1, WalkOver
  <2>2. CASE s.rest # <<>>
    <3> SUFFICES ASSUME NEW t \in Onward(disk, mode, s), NEW u \in Walk(disk, mode)[t]
                 PROVE  u \in Lookups /\ u.rest = <<>> /\ u.links <= s.links
      BY <2>2, WalkOn
    <3>1. t \in Lookups /\ t \in T /\ t.links <= s.links
      BY <1>1, <1>2, <2>2, OnwardShorter DEF Shorter
    <3>2. QED
      BY <1>1, <3>1
  <2>3. QED
    BY <2>1, <2>2
<1> HIDE DEF T
<1>3. T = Lookups
  BY <1>2, LookupInduction DEF T
<1>4. QED
  BY <1>3 DEF T

\* What a lookup finds that minds more than links, one that minds only links
\* finds too.
LEMMA FoundIsLed ==
    ASSUME NEW disk, IsFileSystem(disk), NEW mode
    PROVE  \A s \in Lookups : Walk(disk, mode)[s] \subseteq Walk(disk, "links")[s]
<1> DEFINE T == {s \in Lookups : Walk(disk, mode)[s] \subseteq Walk(disk, "links")[s]}
<1>1. ASSUME NEW s \in Lookups, \A t \in Lookups : Shorter(t, s) => t \in T
      PROVE  s \in T
  <2>1. CASE s.rest = <<>>
    BY <2>1, WalkOver
  <2>2. CASE s.rest # <<>>
    <3>1. Onward(disk, mode, s) \subseteq Onward(disk, "links", s)
      BY DEF Onward, Passes
    <3>2. \A t \in Onward(disk, mode, s) : t \in T
      BY <1>1, <2>2, OnwardShorter
    <3>3. QED
      BY <2>2, <3>1, <3>2, WalkOn
  <2>3. QED
    BY <2>1, <2>2
<1> HIDE DEF T
<1>2. T = Lookups
  BY <1>1, LookupInduction DEF T
<1>3. QED
  BY <1>2 DEF T

\* A lookup ends in one way.
LEMMA AtMostOneEnd ==
    ASSUME NEW disk, IsFileSystem(disk), NEW mode
    PROVE  \A s \in Lookups : \A t, u \in Walk(disk, mode)[s] : t = u
<1> DEFINE T == {s \in Lookups : \A t, u \in Walk(disk, mode)[s] : t = u}
<1>1. ASSUME NEW s \in Lookups, \A t \in Lookups : Shorter(t, s) => t \in T
      PROVE  s \in T
  <2>1. CASE s.rest = <<>>
    BY <2>1, WalkOver
  <2>2. CASE s.rest # <<>>
    <3>1. \A t, u \in Onward(disk, mode, s) : t = u
      BY DEF Onward
    <3>2. \A t \in Onward(disk, mode, s) : t \in T
      BY <1>1, <2>2, OnwardShorter
    <3>3. QED
      BY <2>2, <3>1, <3>2, WalkOn
  <2>3. QED
    BY <2>1, <2>2
<1> HIDE DEF T
<1>2. T = Lookups
  BY <1>1, LookupInduction DEF T
<1>3. QED
  BY <1>2 DEF T

\* Where links lead depends on nothing but the links.
LEMMA LedByLinks ==
    ASSUME NEW disk, IsFileSystem(disk), NEW gs, IsFileSystem(gs), LinksOf(disk) = LinksOf(gs)
    PROVE  \A s \in Lookups : Walk(disk, "links")[s] = Walk(gs, "links")[s]
<1> DEFINE T == {s \in Lookups : Walk(disk, "links")[s] = Walk(gs, "links")[s]}
<1>1. \A p : /\ IsLink(disk, p) <=> IsLink(gs, p)
             /\ IsLink(disk, p) => disk[p].to = gs[p].to
  <2>1. \A p : IsLink(disk, p) => <<p, disk[p].to>> \in LinksOf(gs)
    BY DEF LinksOf, IsLink
  <2>2. \A p : IsLink(gs, p) => <<p, gs[p].to>> \in LinksOf(disk)
    BY DEF LinksOf, IsLink
  <2>3. QED
    BY <2>1, <2>2 DEF LinksOf, IsLink
<1>2. ASSUME NEW s \in Lookups, \A t \in Lookups : Shorter(t, s) => t \in T
      PROVE  s \in T
  <2>1. CASE s.rest = <<>>
    <3>1. Walk(disk, "links")[s] = {s} /\ Walk(gs, "links")[s] = {s}
      BY <2>1, WalkOver
    <3>2. QED
      BY <3>1
  <2>2. CASE s.rest # <<>>
    <3>1. Onward(disk, "links", s) = Onward(gs, "links", s)
      BY <1>1 DEF Onward, Passes
    <3>2. \A t \in Onward(disk, "links", s) : t \in T
      BY <1>2, <2>2, OnwardShorter
    <3>3. Walk(disk, "links")[s] = UNION {Walk(disk, "links")[t] : t \in Onward(disk, "links", s)}
      BY <2>2, WalkOn
    <3>4. Walk(gs, "links")[s] = UNION {Walk(gs, "links")[t] : t \in Onward(gs, "links", s)}
      BY <2>2, WalkOn
    <3>5. QED
      BY <3>1, <3>2, <3>3, <3>4
  <2>3. QED
    BY <2>1, <2>2
<1> HIDE DEF T
<1>3. T = Lookups
  BY <1>2, LookupInduction DEF T
<1>4. QED
  BY <1>3 DEF T

-----------------------------------------------------------------------------
\* The lookup s with the names r to look up after its own; with d more links.
Extend(s, r) == Going(s.links, s.at, s.rest \o r)
More(s, d) == Going(s.links + d, s.at, s.rest)

LEMMA LookupType ==
    ASSUME NEW s \in Lookups
    PROVE  /\ s.links \in 0..MaxLinks /\ s.links \in Nat
           /\ s.at \in Seq(Names) /\ s.rest \in Seq(Names \cup {Up})
           /\ s = Going(s.links, s.at, s.rest)
BY MaxLinksAssumption DEF Lookups, Going, Paths

LEMMA GoingType ==
    ASSUME NEW l \in 0..MaxLinks, NEW a \in Seq(Names), NEW r \in Paths
    PROVE  /\ Going(l, a, r) \in Lookups
           /\ Going(l, a, r).links = l
           /\ Going(l, a, r).at = a
           /\ Going(l, a, r).rest = r
BY DEF Lookups, Going

LEMMA ExtendType ==
    ASSUME NEW s \in Lookups, NEW r \in Paths
    PROVE  /\ Extend(s, r) \in Lookups
           /\ Extend(s, r).links = s.links
           /\ Extend(s, r).at = s.at
           /\ Extend(s, r).rest = s.rest \o r
           /\ s.rest = <<>> => Extend(s, r) = Going(s.links, s.at, r)
<1>1. s.rest \in Paths /\ s.links \in 0..MaxLinks /\ s.at \in Seq(Names)
  BY LookupType DEF Paths
<1>2. s.rest \o r \in Paths
  BY <1>1, ConcatProperties DEF Paths
<1>3. s.rest = <<>> => s.rest \o r = r
  BY ConcatEmptySeq DEF Paths
<1>4. /\ Going(s.links, s.at, s.rest \o r) \in Lookups
      /\ Going(s.links, s.at, s.rest \o r).links = s.links
      /\ Going(s.links, s.at, s.rest \o r).at = s.at
      /\ Going(s.links, s.at, s.rest \o r).rest = s.rest \o r
  BY <1>1, <1>2 DEF Going, Lookups
<1>5. QED
  BY <1>3, <1>4 DEF Extend

LEMMA MoreType ==
    ASSUME NEW s \in Lookups, NEW d \in Nat, s.links + d \in 0..MaxLinks
    PROVE  /\ More(s, d) \in Lookups
           /\ More(s, d).links = s.links + d
           /\ More(s, d).at = s.at
           /\ More(s, d).rest = s.rest
<1>1. s.rest \in Paths /\ s.at \in Seq(Names)
  BY LookupType DEF Paths
<1>2. QED
  BY <1>1, GoingType DEF More

\* The first name of a sequence that goes on is the first name of the whole.
LEMMA HeadOfConcat ==
    ASSUME NEW S, NEW q \in Seq(S), q # <<>>, NEW r \in Seq(S)
    PROVE  /\ q \o r # <<>>
           /\ Head(q \o r) = Head(q)
           /\ Tail(q \o r) = Tail(q) \o r
<1>1. q \o r \in Seq(S) /\ Len(q \o r) = Len(q) + Len(r)
  BY ConcatProperties
<1>2. Len(q) \in Nat /\ Len(q) # 0 /\ Len(r) \in Nat
  BY EmptySeq, LenProperties
<1>3. q \o r # <<>>
  BY <1>1, <1>2, EmptySeq
<1>4. Head(q \o r) = Head(q)
  BY <1>1, <1>2, <1>3, ConcatProperties, HeadTailProperties
<1>5. /\ Tail(q) \in Seq(S) /\ Len(Tail(q)) = Len(q) - 1
      /\ \A i \in 1 .. Len(Tail(q)) : Tail(q)[i] = q[i+1]
  BY HeadTailProperties
<1>6. /\ Tail(q \o r) \in Seq(S) /\ Len(Tail(q \o r)) = Len(q) + Len(r) - 1
      /\ \A i \in 1 .. Len(Tail(q \o r)) : Tail(q \o r)[i] = (q \o r)[i+1]
  BY <1>1, <1>3, HeadTailProperties
<1>7. /\ Tail(q) \o r \in Seq(S) /\ Len(Tail(q) \o r) = Len(q) - 1 + Len(r)
      /\ \A i \in 1 .. Len(Tail(q)) + Len(r) : (Tail(q) \o r)[i] =
            IF i <= Len(Tail(q)) THEN Tail(q)[i] ELSE r[i - Len(Tail(q))]
  BY <1>5, ConcatProperties
<1>8. \A i \in 1 .. Len(q) + Len(r) : (q \o r)[i] =
            IF i <= Len(q) THEN q[i] ELSE r[i - Len(q)]
  BY ConcatProperties
<1>9. \A i \in 1 .. Len(Tail(q \o r)) : Tail(q \o r)[i] = (Tail(q) \o r)[i]
  <2> TAKE i \in 1 .. Len(Tail(q \o r))
  <2>1. Tail(q \o r)[i] = IF i + 1 <= Len(q) THEN q[i + 1] ELSE r[i + 1 - Len(q)]
    BY <1>2, <1>6, <1>8
  <2>2. (Tail(q) \o r)[i] = IF i <= Len(q) - 1 THEN q[i + 1] ELSE r[i - (Len(q) - 1)]
    BY <1>2, <1>5, <1>6, <1>7
  <2>3. i + 1 - Len(q) = i - (Len(q) - 1) /\ (i + 1 <= Len(q) <=> i <= Len(q) - 1)
    BY <1>2
  <2>4. QED
    BY <2>1, <2>2, <2>3
<1>10. Tail(q \o r) = Tail(q) \o r
  <2>1. Len(Tail(q \o r)) = Len(Tail(q) \o r)
    BY <1>2, <1>6, <1>7
  <2>2. QED
    BY <1>6, <1>7, <1>9, <2>1, SeqEqual
<1>11. QED
  BY <1>3, <1>4, <1>10

\* A name more to look up later changes nothing about the next one.
LEMMA OnwardExtended ==
    ASSUME NEW disk, IsFileSystem(disk), NEW s \in Lookups, s.rest # <<>>, NEW r \in Paths
    PROVE  Onward(disk, "links", Extend(s, r)) = {Extend(t, r) : t \in Onward(disk, "links", s)}
<1> DEFINE next == Append(s.at, Head(s.rest))
           ahead == Tail(s.rest)
           e == Extend(s, r)
<1>1. /\ s.rest \in Seq(Names \cup {Up}) /\ r \in Seq(Names \cup {Up})
      /\ s.links \in 0..MaxLinks /\ s.at \in Seq(Names)
  BY LookupType DEF Paths
<1>2. /\ e.links = s.links /\ e.at = s.at /\ e.rest # <<>>
      /\ Head(e.rest) = Head(s.rest) /\ Tail(e.rest) = ahead \o r
  <2>1. e.links = s.links /\ e.at = s.at /\ e.rest = s.rest \o r
    BY ExtendType
  <2>2. QED
    BY ZenonT(60), <1>1, <2>1, HeadOfConcat
<1>3. ahead \in Seq(Names \cup {Up})
  BY <1>1, HeadTailProperties
<1>4. \A p, more : Passes(disk, "links", p, more)
  BY DEF Passes
<1>5. \A l, a : Extend(Going(l, a, ahead), r) = Going(l, a, ahead \o r)
  BY DEF Extend, Going
<1>6. CASE Head(s.rest) = Up
  <2> DEFINE up == IF s.at = <<>> THEN <<>> ELSE Parent(s.at)
  <2>1. Onward(disk, "links", s) = {Going(s.links, up, ahead)}
    BY <1>6 DEF Onward
  <2>2. Onward(disk, "links", e) = {Going(s.links, up, ahead \o r)}
    BY <1>2, <1>6 DEF Onward
  <2>3. QED
    BY <1>5, <2>1, <2>2
<1>7. CASE Head(s.rest) # Up /\ IsLink(disk, next) /\ s.links = 0
  BY <1>2, <1>7 DEF Onward
<1>8. CASE Head(s.rest) # Up /\ IsLink(disk, next) /\ s.links # 0
  <2> DEFINE to == disk[next].to
  <2>1. Onward(disk, "links", s) = {Going(s.links - 1, <<>>, to \o ahead)}
    BY <1>8 DEF Onward
  <2>2. Onward(disk, "links", e) = {Going(s.links - 1, <<>>, to \o (ahead \o r))}
    BY <1>2, <1>8 DEF Onward
  <2>3. to \in Seq(Names \cup {Up})
    BY <1>8 DEF IsFileSystem, IsNode, IsLink, Paths
  <2>4. Extend(Going(s.links - 1, <<>>, to \o ahead), r) =
            Going(s.links - 1, <<>>, to \o (ahead \o r))
    <3>1. (to \o ahead) \o r = to \o (ahead \o r)
      <4> HIDE DEF to, ahead
      <4>1. QED
        BY SMTT(60), <1>1, <1>3, <2>3, ConcatAssociative
    <3>2. QED
      BY ZenonT(60), <3>1 DEF Extend, Going
  <2> HIDE DEF to
  <2>5. QED
    BY <2>1, <2>2, <2>4
<1>9. CASE Head(s.rest) # Up /\ ~IsLink(disk, next)
  <2>1. Onward(disk, "links", s) = {Going(s.links, next, ahead)}
    BY <1>4, <1>9 DEF Onward
  <2>2. Onward(disk, "links", e) = {Going(s.links, next, ahead \o r)}
    BY <1>2, <1>4, <1>9 DEF Onward
  <2>3. QED
    BY <1>5, <2>1, <2>2
<1>10. QED
  BY <1>6, <1>7, <1>8, <1>9

\* A lookup that minds nothing but links can be cut anywhere.
LEMMA Compose ==
    ASSUME NEW disk, IsFileSystem(disk), NEW r \in Paths
    PROVE  \A s \in Lookups :
              Walk(disk, "links")[Extend(s, r)] =
                 UNION {Walk(disk, "links")[Extend(t, r)] : t \in Walk(disk, "links")[s]}
<1> DEFINE W == Walk(disk, "links")
           Good(s) == W[Extend(s, r)] = UNION {W[Extend(t, r)] : t \in W[s]}
           T == {s \in Lookups : Good(s)}
<1> HIDE DEF W
<1>1. ASSUME NEW s \in Lookups, \A t \in Lookups : Shorter(t, s) => t \in T
      PROVE  s \in T
  <2>1. CASE s.rest = <<>>
    <3>1. W[s] = {s}
      BY <2>1, WalkOver DEF W
    <3>2. QED
      BY <3>1
  <2>2. CASE s.rest # <<>>
    <3>1. W[s] = UNION {W[t] : t \in Onward(disk, "links", s)}
      BY <2>2, WalkOn DEF W
    <3>2. Extend(s, r) \in Lookups /\ Extend(s, r).rest # <<>>
      BY <2>2, LookupType, ExtendType, HeadOfConcat DEF Paths
    <3>3. W[Extend(s, r)] = UNION {W[t] : t \in Onward(disk, "links", Extend(s, r))}
      BY <3>2, WalkOn DEF W
    <3>4. Onward(disk, "links", Extend(s, r)) = {Extend(t, r) : t \in Onward(disk, "links", s)}
      BY <2>2, OnwardExtended
    <3>5. W[Extend(s, r)] = UNION {W[Extend(t, r)] : t \in Onward(disk, "links", s)}
      BY <3>3, <3>4
    <3>6. \A t \in Onward(disk, "links", s) : t \in T
      BY <1>1, <2>2, OnwardShorter
    <3>7. \A t \in Onward(disk, "links", s) :
             W[Extend(t, r)] = UNION {W[Extend(u, r)] : u \in W[t]}
      BY <3>6
    <3>8. QED
      BY <3>1, <3>5, <3>7
  <2>3. QED
    BY <2>1, <2>2
<1> HIDE DEF T
<1>2. T = Lookups
  BY <1>1, LookupInduction DEF T
<1>3. QED
  BY <1>2 DEF T, W

-----------------------------------------------------------------------------
\* A path that is not empty is an entry of its parent.
LEMMA EntryOfParent ==
    ASSUME NEW S, NEW p \in Seq(S), p # <<>>
    PROVE  p = Append(Parent(p), Last(p)) /\ Last(p) \in S
<1>1. Len(p) \in Nat /\ Len(p) # 0 /\ \A i \in 1..Len(p) : p[i] \in S
  BY EmptySeq, LenProperties, ElementOfSeq
<1>2. Last(p) \in S /\ Last(p) = p[Len(p)]
  BY <1>1 DEF Last
<1>3. /\ Parent(p) \in Seq(S) /\ Len(Parent(p)) = Len(p) - 1
      /\ \A i \in 1..Len(p) - 1 : Parent(p)[i] = p[i]
  BY ParentType
<1> DEFINE a == Append(Parent(p), Last(p))
<1>4. /\ a \in Seq(S) /\ Len(a) = Len(p)
      /\ \A i \in 1..Len(p) - 1 : a[i] = p[i]
      /\ a[Len(p)] = p[Len(p)]
  <2>1. /\ a \in Seq(S)
        /\ Len(a) = Len(Parent(p)) + 1
        /\ \A i \in 1..Len(Parent(p)) : a[i] = Parent(p)[i]
        /\ a[Len(Parent(p)) + 1] = Last(p)
    BY <1>2, <1>3, AppendProperties
  <2>2. Len(Parent(p)) + 1 = Len(p)
    BY <1>1, <1>3
  <2> HIDE DEF a
  <2>3. QED
    BY <1>2, <1>3, <2>1, <2>2
<1>5. \A i \in 1..Len(p) : a[i] = p[i]
  BY <1>1, <1>4
<1> HIDE DEF a
<1>6. a = p
  BY <1>4, <1>5, SeqEqual
<1>7. QED
  BY <1>2, <1>6 DEF a

\* An entry of p has p for its parent.
LEMMA ParentOfEntry ==
    ASSUME NEW S, NEW p \in Seq(S), NEW n \in S
    PROVE  /\ Append(p, n) \in Seq(S) /\ Append(p, n) # <<>>
           /\ Parent(Append(p, n)) = p /\ Last(Append(p, n)) = n
<1>1. Append(p, n) \in Seq(S) /\ Append(p, n) # <<>>
  BY AppendProperties
<1>2. /\ Append(p, n) = Append(Parent(Append(p, n)), Last(Append(p, n)))
      /\ Last(Append(p, n)) \in S /\ Parent(Append(p, n)) \in Seq(S)
  BY <1>1, EntryOfParent, ParentType
<1>3. QED
  BY <1>1, <1>2, AppendInjective

\* One name at a time, from either end.
LEMMA ConcatByName ==
    ASSUME NEW S, NEW p \in Seq(S), NEW n \in S, NEW r \in Seq(S)
    PROVE  /\ Append(p, n) \o r = p \o (<<n>> \o r)
           /\ p \o Append(r, n) = Append(p \o r, n)
<1>1. <<n>> \in Seq(S)
  OBVIOUS
<1>2. Append(p, n) = p \o <<n>> /\ Append(r, n) = r \o <<n>>
  BY AppendIsConcat
<1>3. (p \o <<n>>) \o r = p \o (<<n>> \o r) /\ (p \o r) \o <<n>> = p \o (r \o <<n>>)
  BY SMTT(60), <1>1, ConcatAssociative
<1>4. Append(p \o r, n) = (p \o r) \o <<n>>
  BY ConcatProperties, AppendIsConcat
<1>5. QED
  BY <1>2, <1>3, <1>4

\* The parent of what is below p is below p, or p.
LEMMA ParentOfConcat ==
    ASSUME NEW S, NEW p \in Seq(S), NEW r \in Seq(S), r # <<>>
    PROVE  /\ p \o r = Append(p \o Parent(r), Last(r))
           /\ Parent(p \o r) = p \o Parent(r)
           /\ Parent(r) \in Seq(S) /\ Last(r) \in S /\ p \o Parent(r) \in Seq(S)
<1>1. Parent(r) \in Seq(S) /\ Last(r) \in S /\ r = Append(Parent(r), Last(r))
  BY EntryOfParent, ParentType
<1>2. p \o Append(Parent(r), Last(r)) = Append(p \o Parent(r), Last(r))
  BY <1>1, ConcatByName
<1>3. p \o Parent(r) \in Seq(S)
  BY <1>1, ConcatProperties
<1>4. Parent(Append(p \o Parent(r), Last(r))) = p \o Parent(r)
  BY <1>1, <1>3, ParentOfEntry
<1>5. QED
  BY <1>1, <1>2, <1>3, <1>4

LEMMA HeadThenTail ==
    ASSUME NEW S, NEW r \in Seq(S), r # <<>>
    PROVE  /\ r = <<Head(r)>> \o Tail(r)
           /\ \A p \in Seq(S) : p \o r = Append(p, Head(r)) \o Tail(r)
<1>1. Head(r) \in S /\ Tail(r) \in Seq(S) /\ Len(Tail(r)) = Len(r) - 1
      /\ \A i \in 1 .. Len(Tail(r)) : Tail(r)[i] = r[i+1]
  BY HeadTailProperties
<1>2. Len(r) \in Nat /\ Len(r) # 0
  BY EmptySeq, LenProperties
<1>3. <<Head(r)>> \in Seq(S) /\ Len(<<Head(r)>>) = 1 /\ <<Head(r)>>[1] = Head(r)
  BY <1>1
<1> DEFINE c == <<Head(r)>> \o Tail(r)
<1>4. /\ c \in Seq(S) /\ Len(c) = 1 + Len(Tail(r))
      /\ \A i \in 1 .. 1 + Len(Tail(r)) : c[i] =
            IF i <= 1 THEN <<Head(r)>>[i] ELSE Tail(r)[i - 1]
  BY <1>1, <1>3, ConcatProperties
<1> HIDE DEF c
<1>5. Head(r) = r[1]
  BY <1>2
<1>6. Len(c) = Len(r) /\ \A i \in 1..Len(r) : c[i] = r[i]
  BY <1>1, <1>2, <1>3, <1>4, <1>5
<1>7. c = r
  BY <1>4, <1>6, SeqEqual
<1>8. \A p \in Seq(S) : p \o r = Append(p, Head(r)) \o Tail(r)
  BY SMTT(60), <1>1, <1>7, ConcatByName DEF c
<1>9. QED
  BY <1>7, <1>8 DEF c

\* No link is on the way to q, or at q.
LinkFree(disk, q) == \A p, r \in Seq(Names) : q = p \o r => ~IsLink(disk, p)

\* An entry that is no link adds none, and the way to the parent has none more.
LEMMA LinkFreeEntry ==
    ASSUME NEW disk, NEW q \in Seq(Names), LinkFree(disk, q),
           NEW n \in Names, ~IsLink(disk, Append(q, n))
    PROVE  LinkFree(disk, Append(q, n))
<1> SUFFICES ASSUME NEW p \in Seq(Names), NEW r \in Seq(Names), Append(q, n) = p \o r
             PROVE  ~IsLink(disk, p)
  BY DEF LinkFree
<1>1. CASE r = <<>>
  BY <1>1, ConcatEmptySeq
<1>2. CASE r # <<>>
  <2>1. /\ Append(q, n) = Append(p \o Parent(r), Last(r))
        /\ Parent(r) \in Seq(Names) /\ Last(r) \in Names /\ p \o Parent(r) \in Seq(Names)
    BY <1>2, ParentOfConcat
  <2>2. q = p \o Parent(r)
    <3> DEFINE s == p \o Parent(r)
               e == Last(r)
    <3>1. Append(q, n) = Append(s, e) /\ s \in Seq(Names) /\ e \in Names
      BY <2>1
    <3> HIDE DEF s, e
    <3>2. q = s
      BY <3>1, AppendInjective
    <3>3. QED
      BY <3>2 DEF s
  <2>3. QED
    BY <2>1, <2>2 DEF LinkFree
<1>3. QED
  BY <1>1, <1>2

LEMMA LinkFreeParent ==
    ASSUME NEW disk, NEW q \in Seq(Names), LinkFree(disk, q), q # <<>>
    PROVE  LinkFree(disk, Parent(q))
<1> SUFFICES ASSUME NEW p \in Seq(Names), NEW r \in Seq(Names), Parent(q) = p \o r
             PROVE  ~IsLink(disk, p)
  BY DEF LinkFree
<1>1. q = Append(Parent(q), Last(q)) /\ Last(q) \in Names
  BY EntryOfParent
<1>2. q = p \o Append(r, Last(q)) /\ Append(r, Last(q)) \in Seq(Names)
  <2>1. p \o Append(r, Last(q)) = Append(p \o r, Last(q))
    BY <1>1, ConcatByName
  <2>2. Append(r, Last(q)) \in Seq(Names)
    BY <1>1, AppendProperties
  <2>3. QED
    BY <1>1, <2>1, <2>2
<1>3. QED
  BY <1>2 DEF LinkFree

\* The root is no entry.
LEMMA LinkFreeRoot ==
    ASSUME NEW disk, IsFileSystem(disk)
    PROVE  LinkFree(disk, <<>>)
<1>1. \A p, r \in Seq(Names) : p \o r = <<>> => p = <<>>
  BY ConcatEqualIffEmpty
<1>2. ~IsLink(disk, <<>>)
  BY DEF IsFileSystem, IsLink
<1>3. QED
  BY <1>1, <1>2 DEF LinkFree

\* What is on the way to an entry is a directory.
LEMMA AncestorsAreDirs ==
    ASSUME NEW disk, IsFileSystem(disk)
    PROVE  \A q \in DOMAIN disk : \A p, r \in Seq(Names) :
              q = p \o r /\ r # <<>> /\ p # <<>> => p \in DOMAIN disk /\ disk[p] = Dir
<1> DEFINE Bad(q) == \E p, r \in Seq(Names) : /\ q = p \o r /\ r # <<>> /\ p # <<>>
                                            /\ ~(p \in DOMAIN disk /\ disk[p] = Dir)
           T == {q \in DOMAIN disk : Bad(q)}
           Lengths == {Len(q) : q \in T}
<1> SUFFICES T = {}
  OBVIOUS
<1>1. DOMAIN disk \subseteq Seq(Names) /\ <<>> \notin DOMAIN disk
  BY DEF IsFileSystem
<1>2. Lengths \in SUBSET Nat
  BY <1>1, LenProperties
<1> SUFFICES ASSUME T # {} PROVE FALSE
  OBVIOUS
<1>3. Lengths # {}
  OBVIOUS
<1>4. PICK k \in Lengths : \A j \in Lengths : k <= j
  <2> HIDE DEF Lengths
  <2>1. QED
    BY <1>2, <1>3, LeastNumber
<1>5. PICK q \in T : Len(q) = k
  OBVIOUS
<1>6. PICK p \in Seq(Names), r \in Seq(Names) :
        q = p \o r /\ r # <<>> /\ p # <<>> /\ ~(p \in DOMAIN disk /\ disk[p] = Dir)
  OBVIOUS
<1>7. q \in Seq(Names) /\ q # <<>> /\ q \in DOMAIN disk
  BY <1>1
<1>8. Parent(q) = p \o Parent(r) /\ Parent(r) \in Seq(Names)
  <2> HIDE DEF T
  <2>1. QED
    BY <1>6, ParentOfConcat
<1>9. Len(Parent(q)) = Len(q) - 1
  BY <1>7, ParentType
<1>10. Parent(r) = <<>> => Parent(q) = p
  <2> HIDE DEF T
  <2>1. QED
    BY <1>6, <1>8, ConcatEmptySeq
<1>11. Parent(q) # <<>>
  BY <1>6, <1>8, ConcatEqualIffEmpty
<1>12. Parent(q) \in DOMAIN disk /\ disk[Parent(q)] = Dir
  BY <1>7, <1>11 DEF IsFileSystem, WellFormed
<1>13. CASE Parent(r) = <<>>
  BY <1>6, <1>10, <1>12, <1>13
<1>14. CASE Parent(r) # <<>>
  <2>1. Parent(q) \in T
    BY <1>6, <1>8, <1>12, <1>14
  <2>2. k <= Len(q) - 1 /\ Len(q) = k /\ k \in Nat
    BY <1>2, <1>4, <1>5, <1>9, <2>1
  <2>3. QED
    BY <2>2
<1>15. QED
  BY <1>13, <1>14

\* So no link is on the way to an entry.
LEMMA LinkFreeWay ==
    ASSUME NEW disk, IsFileSystem(disk), NEW q \in DOMAIN disk
    PROVE  q \in Seq(Names) /\ q # <<>> /\ LinkFree(disk, Parent(q))
<1>1. q \in Seq(Names) /\ q # <<>>
  BY DEF IsFileSystem
<1>2. q = Append(Parent(q), Last(q)) /\ Last(q) \in Names
  BY <1>1, EntryOfParent
<1> SUFFICES ASSUME NEW p \in Seq(Names), NEW r \in Seq(Names), Parent(q) = p \o r
             PROVE  ~IsLink(disk, p)
  BY <1>1 DEF LinkFree
<1>3. q = p \o Append(r, Last(q)) /\ Append(r, Last(q)) \in Seq(Names)
      /\ Append(r, Last(q)) # <<>>
  <2>1. p \o Append(r, Last(q)) = Append(p \o r, Last(q))
    BY <1>2, ConcatByName
  <2>2. Append(r, Last(q)) \in Seq(Names) /\ Append(r, Last(q)) # <<>>
    BY <1>2, AppendProperties
  <2>3. QED
    BY <1>2, <2>1, <2>2
<1>4. CASE p = <<>>
  BY <1>4 DEF IsFileSystem, IsLink
<1>5. CASE p # <<>>
  <2>1. p \in DOMAIN disk /\ disk[p] = Dir
    BY <1>3, <1>5, AncestorsAreDirs
  <2>2. QED
    BY <2>1 DEF IsLink, Dir
<1>6. QED
  BY <1>4, <1>5

-----------------------------------------------------------------------------
\* The next name is looked up and is no link.
Plain(disk, s) == Head(s.rest) # Up /\ ~IsLink(disk, Append(s.at, Head(s.rest)))

\* One name further is what links lead to, provided it passes.
LEMMA OnwardPasses ==
    ASSUME NEW disk, NEW mode, NEW s \in Lookups
    PROVE  Onward(disk, mode, s) =
              {t \in Onward(disk, "links", s) :
                 Plain(disk, s) => Passes(disk, mode, t.at, t.rest # <<>>)}
<1>1. \A p, more : Passes(disk, "links", p, more)
  BY DEF Passes
<1>2. CASE Head(s.rest) = Up
  BY <1>2 DEF Onward, Plain
<1>3. CASE Head(s.rest) # Up /\ IsLink(disk, Append(s.at, Head(s.rest)))
  BY <1>3 DEF Onward, Plain
<1>4. CASE Head(s.rest) # Up /\ ~IsLink(disk, Append(s.at, Head(s.rest)))
  <2> DEFINE t == Going(s.links, Append(s.at, Head(s.rest)), Tail(s.rest))
  <2>1. t.at = Append(s.at, Head(s.rest)) /\ t.rest = Tail(s.rest)
    BY DEF Going
  <2>2. Onward(disk, "links", s) = {t}
    BY <1>1, <1>4 DEF Onward
  <2>3. Onward(disk, mode, s) = IF Passes(disk, mode, t.at, t.rest # <<>>) THEN {t} ELSE {}
    BY <1>4, <2>1 DEF Onward
  <2> HIDE DEF t
  <2>4. QED
    BY <1>4, <2>2, <2>3 DEF Plain
<1>5. QED
  BY <1>2, <1>3, <1>4

LEMMA PlainExtended ==
    ASSUME NEW disk, NEW s \in Lookups, s.rest # <<>>, NEW r \in Paths
    PROVE  Plain(disk, Extend(s, r)) <=> Plain(disk, s)
<1>1. Extend(s, r).at = s.at /\ Extend(s, r).rest = s.rest \o r
  BY ExtendType
<1>2. Head(s.rest \o r) = Head(s.rest)
  BY LookupType, HeadOfConcat DEF Paths
<1>3. QED
  BY <1>1, <1>2 DEF Plain

\* Where what exists ends, at a directory unless nothing more is looked up,
\* what exists goes on.
LEMMA ReadCompose ==
    ASSUME NEW disk, IsFileSystem(disk), NEW r \in Paths,
           NEW u \in Lookups, NEW v,
           v \in Walk(disk, "read")[Extend(u, r)],
           r # <<>> => ~(u.at \in DOMAIN disk /\ disk[u.at].type = "File")
    PROVE  \A s \in Lookups :
              u \in Walk(disk, "read")[s] => v \in Walk(disk, "read")[Extend(s, r)]
<1> DEFINE W == Walk(disk, "read")
           Good(s) == u \in W[s] => v \in W[Extend(s, r)]
           T == {s \in Lookups : Good(s)}
<1> HIDE DEF W
<1>0. v \in W[Extend(u, r)]
  BY DEF W
<1>1. ASSUME NEW s \in Lookups, \A t \in Lookups : Shorter(t, s) => t \in T
      PROVE  s \in T
  <2>1. CASE s.rest = <<>>
    <3>1. W[s] = {s}
      BY <2>1, WalkOver DEF W
    <3>2. QED
      BY <1>0, <3>1
  <2>2. CASE s.rest # <<>>
    <3> SUFFICES ASSUME u \in W[s] PROVE v \in W[Extend(s, r)]
      OBVIOUS
    <3>1. PICK t \in Onward(disk, "read", s) : u \in W[t]
      <4>1. W[s] = UNION {W[t] : t \in Onward(disk, "read", s)}
        BY <2>2, WalkOn DEF W
      <4>2. QED
        BY <4>1
    <3>2. t \in Lookups /\ t \in T
      BY <1>1, <2>2, OnwardShorter
    <3>3. v \in W[Extend(t, r)]
      BY <3>1, <3>2
    <3>4. Extend(s, r) \in Lookups /\ Extend(s, r).rest # <<>>
      BY <2>2, LookupType, ExtendType, HeadOfConcat DEF Paths
    <3>5. W[Extend(s, r)] = UNION {W[x] : x \in Onward(disk, "read", Extend(s, r))}
      BY <3>4, WalkOn DEF W
    <3>6. t \in Onward(disk, "links", s) /\ (Plain(disk, s) => Passes(disk, "read", t.at, t.rest # <<>>))
      BY <3>1, OnwardPasses
    <3>7. Extend(t, r) \in Onward(disk, "links", Extend(s, r))
      BY <2>2, <3>6, OnwardExtended
    <3>8. Plain(disk, s) => Passes(disk, "read", t.at, Extend(t, r).rest # <<>>)
      <4>1. Extend(t, r).rest = t.rest \o r
        BY <3>2, ExtendType
      <4>2. CASE t.rest = <<>> /\ r # <<>>
        <5>1. u = t
          <6>1. W[t] = {t}
            BY <3>2, <4>2, WalkOver DEF W
          <6>2. QED
            BY <3>1, <6>1
        <5>2. QED
          BY <3>6, <4>2, <5>1 DEF Passes
      <4>3. CASE r = <<>>
        <5>1. t.rest \o r = t.rest
          BY <3>2, <4>3, LookupType, ConcatEmptySeq
        <5>2. QED
          BY <3>6, <4>1, <5>1
      <4>4. CASE t.rest # <<>>
        <5>1. t.rest \o r # <<>>
          BY <3>2, <4>4, LookupType, HeadOfConcat DEF Paths
        <5>2. QED
          BY <3>6, <4>1, <4>4, <5>1
      <4>5. QED
        BY <4>2, <4>3, <4>4
    <3>9. Extend(t, r) \in Onward(disk, "read", Extend(s, r))
      <4>1. Extend(t, r).at = t.at
        BY <3>2, ExtendType
      <4>2. Plain(disk, Extend(s, r)) <=> Plain(disk, s)
        BY <2>2, PlainExtended
      <4>3. QED
        BY <3>4, <3>7, <3>8, <4>1, <4>2, OnwardPasses
    <3>10. QED
      BY <3>3, <3>5, <3>9
  <2>3. QED
    BY <2>1, <2>2
<1> HIDE DEF T
<1>2. T = Lookups
  BY <1>1, LookupInduction DEF T
<1>3. QED
  BY <1>2 DEF T, W

\* What exists beyond where links lead is what exists from there.
LEMMA ReadBeyond ==
    ASSUME NEW disk, IsFileSystem(disk), NEW r \in Paths, NEW u \in Lookups, NEW v
    PROVE  \A s \in Lookups :
              /\ u \in Walk(disk, "links")[s]
              /\ v \in Walk(disk, "read")[Extend(s, r)]
              => v \in Walk(disk, "read")[Extend(u, r)]
<1> DEFINE W == Walk(disk, "read")
           L == Walk(disk, "links")
           Good(s) == u \in L[s] /\ v \in W[Extend(s, r)] => v \in W[Extend(u, r)]
           T == {s \in Lookups : Good(s)}
<1> HIDE DEF W, L
<1>1. ASSUME NEW s \in Lookups, \A t \in Lookups : Shorter(t, s) => t \in T
      PROVE  s \in T
  <2>1. CASE s.rest = <<>>
    <3>1. L[s] = {s}
      BY <2>1, WalkOver DEF L
    <3>2. QED
      BY <3>1
  <2>2. CASE s.rest # <<>>
    <3> SUFFICES ASSUME u \in L[s], v \in W[Extend(s, r)] PROVE v \in W[Extend(u, r)]
      OBVIOUS
    <3>1. L[s] = UNION {L[t] : t \in Onward(disk, "links", s)}
      BY <2>2, WalkOn DEF L
    <3>2. Extend(s, r) \in Lookups /\ Extend(s, r).rest # <<>>
      BY <2>2, LookupType, ExtendType, HeadOfConcat DEF Paths
    <3>3. W[Extend(s, r)] = UNION {W[x] : x \in Onward(disk, "read", Extend(s, r))}
      BY <3>2, WalkOn DEF W
    <3>4. PICK x \in Onward(disk, "read", Extend(s, r)) : v \in W[x]
      BY <3>3
    <3>5. x \in Onward(disk, "links", Extend(s, r))
      BY <3>2, OnwardPasses
    <3>6. PICK t \in Onward(disk, "links", s) : x = Extend(t, r)
      BY <2>2, <3>5, OnwardExtended
    <3>7. Onward(disk, "links", s) = {t}
      BY DEF Onward
    <3>8. u \in L[t]
      BY <3>1, <3>7
    <3>9. t \in T
      BY <1>1, <2>2, OnwardShorter
    <3>10. QED
      BY <3>4, <3>6, <3>8, <3>9
  <2>3. QED
    BY <2>1, <2>2
<1> HIDE DEF T
<1>2. T = Lookups
  BY <1>1, LookupInduction DEF T
<1>3. QED
  BY <1>2 DEF T, W, L

-----------------------------------------------------------------------------
\* A lookup with more links to follow goes on as it did.
LEMMA OnwardWithMore ==
    ASSUME NEW disk, NEW d \in Nat, NEW s \in Lookups, s.rest # <<>>,
           s.links + d \in 0..MaxLinks, NEW t \in Onward(disk, "links", s)
    PROVE  More(t, d) \in Onward(disk, "links", More(s, d))
<1>1. /\ More(s, d).links = s.links + d /\ s.links \in Nat
      /\ More(s, d).at = s.at /\ More(s, d).rest = s.rest
  BY MoreType, LookupType
<1>2. \A p, more : Passes(disk, "links", p, more)
  BY DEF Passes
<1>3. CASE Head(s.rest) = Up
  BY <1>1, <1>3 DEF Onward, More, Going
<1>4. CASE Head(s.rest) # Up /\ IsLink(disk, Append(s.at, Head(s.rest)))
  <2> DEFINE rest == disk[Append(s.at, Head(s.rest))].to \o Tail(s.rest)
  <2>1. s.links # 0 /\ t = Going(s.links - 1, <<>>, rest)
    BY <1>4 DEF Onward
  <2>2. More(s, d).links # 0 /\ s.links - 1 + d = More(s, d).links - 1
    BY SMTT(60), <1>1, <2>1
  <2>3. More(t, d) = Going(More(s, d).links - 1, <<>>, rest)
    BY ZenonT(60), <2>1, <2>2 DEF More, Going
  <2>4. QED
    BY <1>1, <1>4, <2>2, <2>3 DEF Onward
<1>5. CASE Head(s.rest) # Up /\ ~IsLink(disk, Append(s.at, Head(s.rest)))
  <2>1. t = Going(s.links, Append(s.at, Head(s.rest)), Tail(s.rest))
    BY <1>2, <1>5 DEF Onward
  <2>2. More(t, d) = Going(s.links + d, Append(s.at, Head(s.rest)), Tail(s.rest))
    BY <2>1 DEF More, Going
  <2>3. QED
    BY <1>1, <1>2, <1>5, <2>2 DEF Onward
<1>6. QED
  BY <1>3, <1>4, <1>5

\* With more links to follow a lookup leads where it did.
LEMMA MoreLinks ==
    ASSUME NEW disk, IsFileSystem(disk), NEW d \in Nat
    PROVE  \A s \in Lookups : \A u \in Walk(disk, "links")[s] :
              s.links + d \in 0..MaxLinks => More(u, d) \in Walk(disk, "links")[More(s, d)]
<1> DEFINE L == Walk(disk, "links")
           Good(s) == \A u \in L[s] : s.links + d \in 0..MaxLinks => More(u, d) \in L[More(s, d)]
           T == {s \in Lookups : Good(s)}
<1> HIDE DEF L
<1>1. ASSUME NEW s \in Lookups, \A t \in Lookups : Shorter(t, s) => t \in T
      PROVE  s \in T
  <2> SUFFICES ASSUME NEW u \in L[s], s.links + d \in 0..MaxLinks
               PROVE  More(u, d) \in L[More(s, d)]
    OBVIOUS
  <2>1. /\ More(s, d) \in Lookups /\ More(s, d).links = s.links + d
        /\ More(s, d).at = s.at /\ More(s, d).rest = s.rest
    BY MoreType
  <2>2. CASE s.rest = <<>>
    <3>1. L[s] = {s}
      BY <2>2, WalkOver DEF L
    <3>2. L[More(s, d)] = {More(s, d)}
      BY <2>1, <2>2, WalkOver DEF L
    <3>3. QED
      BY <3>1, <3>2
  <2>3. CASE s.rest # <<>>
    <3>1. L[s] = UNION {L[t] : t \in Onward(disk, "links", s)}
      BY <2>3, WalkOn DEF L
    <3>2. L[More(s, d)] = UNION {L[t] : t \in Onward(disk, "links", More(s, d))}
      BY <2>1, <2>3, WalkOn DEF L
    <3>3. PICK t \in Onward(disk, "links", s) : u \in L[t]
      BY <3>1
    <3>4. t \in T /\ t \in Lookups /\ t.links \in Nat /\ t.links <= s.links /\ s.links \in Nat
      BY <1>1, <2>3, OnwardShorter, LookupType DEF Shorter
    <3>5. t.links + d \in 0..MaxLinks
      BY <3>4, MaxLinksAssumption
    <3>6. More(u, d) \in L[More(t, d)]
      BY <3>3, <3>4, <3>5
    <3>7. More(t, d) \in Onward(disk, "links", More(s, d))
      BY OnwardWithMore, <2>3
    <3>8. QED
      BY <3>2, <3>6, <3>7
  <2>4. QED
    BY <2>2, <2>3
<1> HIDE DEF T
<1>2. T = Lookups
  BY <1>1, LookupInduction DEF T
<1>3. QED
  BY <1>2 DEF T, L

\* What exists with more links to follow exists where fewer lead to it.
LEMMA FewerLinks ==
    ASSUME NEW disk, IsFileSystem(disk), NEW d \in Nat, NEW v, NEW u
    PROVE  \A s \in Lookups :
              /\ s.links + d \in 0..MaxLinks
              /\ u \in Walk(disk, "links")[s]
              /\ v \in Walk(disk, "read")[More(s, d)]
              => u \in Walk(disk, "read")[s]
<1> DEFINE W == Walk(disk, "read")
           L == Walk(disk, "links")
           Good(s) == /\ s.links + d \in 0..MaxLinks
                      /\ u \in L[s]
                      /\ v \in W[More(s, d)]
                      => u \in W[s]
           T == {s \in Lookups : Good(s)}
<1> HIDE DEF W, L
<1>1. ASSUME NEW s \in Lookups, \A t \in Lookups : Shorter(t, s) => t \in T
      PROVE  s \in T
  <2> SUFFICES ASSUME s.links + d \in 0..MaxLinks, u \in L[s], v \in W[More(s, d)]
               PROVE  u \in W[s]
    OBVIOUS
  <2>1. /\ More(s, d) \in Lookups /\ More(s, d).links = s.links + d
        /\ More(s, d).at = s.at /\ More(s, d).rest = s.rest
    BY MoreType
  <2>2. CASE s.rest = <<>>
    <3>1. L[s] = {s} /\ W[s] = {s}
      BY <2>2, WalkOver DEF L, W
    <3>2. QED
      BY <3>1
  <2>3. CASE s.rest # <<>>
    <3>1. L[s] = UNION {L[t] : t \in Onward(disk, "links", s)}
      BY <2>3, WalkOn DEF L
    <3>2. W[s] = UNION {W[t] : t \in Onward(disk, "read", s)}
      BY <2>3, WalkOn DEF W
    <3>3. W[More(s, d)] = UNION {W[t] : t \in Onward(disk, "read", More(s, d))}
      BY <2>1, <2>3, WalkOn DEF W
    <3>4. PICK t \in Onward(disk, "links", s) : u \in L[t]
      BY <3>1
    <3>5. PICK x \in Onward(disk, "read", More(s, d)) : v \in W[x]
      BY <3>3
    <3>6. t \in T /\ t \in Lookups /\ t.links \in Nat /\ t.links <= s.links /\ s.links \in Nat
      BY <1>1, <2>3, OnwardShorter, LookupType DEF Shorter
    <3>7. t.links + d \in 0..MaxLinks
      BY <3>6, MaxLinksAssumption
    <3>8. /\ x \in Onward(disk, "links", More(s, d))
          /\ Plain(disk, More(s, d)) => Passes(disk, "read", x.at, x.rest # <<>>)
      BY <2>1, <3>5, OnwardPasses
    <3>9. x = More(t, d)
      <4>1. More(t, d) \in Onward(disk, "links", More(s, d))
        BY OnwardWithMore, <2>3
      <4>2. \A y, z \in Onward(disk, "links", More(s, d)) : y = z
        BY DEF Onward
      <4>3. QED
        BY <3>8, <4>1, <4>2
    <3>10. x.at = t.at /\ x.rest = t.rest
      BY <3>6, <3>7, <3>9, MoreType
    <3>11. Plain(disk, More(s, d)) <=> Plain(disk, s)
      BY <2>1 DEF Plain
    <3>12. t \in Onward(disk, "read", s)
      BY <3>8, <3>10, <3>11, OnwardPasses
    <3>13. u \in W[t]
      BY <3>4, <3>5, <3>6, <3>7, <3>9
    <3>14. QED
      BY <3>2, <3>12, <3>13
  <2>4. QED
    BY <2>2, <2>3
<1> HIDE DEF T
<1>2. T = Lookups
  BY <1>1, LookupInduction DEF T
<1>3. QED
  BY <1>2 DEF T, L, W

\* A way without links leads to its end.
LEMMA StraightLinks ==
    ASSUME NEW disk, IsFileSystem(disk)
    PROVE  \A s \in Lookups :
              s.rest \in Seq(Names) /\ LinkFree(disk, s.at \o s.rest)
                 => Walk(disk, "links")[s] = {Going(s.links, s.at \o s.rest, <<>>)}
<1> DEFINE L == Walk(disk, "links")
           Good(s) == s.rest \in Seq(Names) /\ LinkFree(disk, s.at \o s.rest)
                        => L[s] = {Going(s.links, s.at \o s.rest, <<>>)}
           T == {s \in Lookups : Good(s)}
<1> HIDE DEF L
<1>1. ASSUME NEW s \in Lookups, \A t \in Lookups : Shorter(t, s) => t \in T
      PROVE  s \in T
  <2> SUFFICES ASSUME s.rest \in Seq(Names), LinkFree(disk, s.at \o s.rest)
               PROVE  L[s] = {Going(s.links, s.at \o s.rest, <<>>)}
    OBVIOUS
  <2>1. s.at \in Seq(Names) /\ s = Going(s.links, s.at, s.rest)
    BY LookupType
  <2>2. CASE s.rest = <<>>
    <3>1. L[s] = {s}
      BY <2>2, WalkOver DEF L
    <3>2. s.at \o s.rest = s.at
      BY <2>1, <2>2, ConcatEmptySeq
    <3>3. QED
      BY <2>1, <2>2, <3>1, <3>2
  <2>3. CASE s.rest # <<>>
    <3> DEFINE n == Head(s.rest)
               t == Going(s.links, Append(s.at, n), Tail(s.rest))
    <3>1. L[s] = UNION {L[x] : x \in Onward(disk, "links", s)}
      BY <2>3, WalkOn DEF L
    <3>2. n \in Names /\ Tail(s.rest) \in Seq(Names) /\ n # Up
      BY <2>3, HeadTailProperties, UpAssumption
    <3>3. s.at \o s.rest = Append(s.at, n) \o Tail(s.rest) /\ Append(s.at, n) \in Seq(Names)
      BY <2>1, <2>3, <3>2, HeadThenTail, AppendProperties
    <3>4. ~IsLink(disk, Append(s.at, n))
      BY <3>2, <3>3 DEF LinkFree
    <3>5. Onward(disk, "links", s) = {t}
      BY <3>2, <3>4 DEF Onward, Passes
    <3>6. t.links = s.links /\ t.at = Append(s.at, n) /\ t.rest = Tail(s.rest)
      BY DEF Going
    <3>7. t \in T
      BY <1>1, <2>3, <3>5, OnwardShorter
    <3>8. L[t] = {Going(s.links, s.at \o s.rest, <<>>)}
      <4> HIDE DEF t
      <4>1. t.rest \in Seq(Names) /\ LinkFree(disk, t.at \o t.rest)
        BY <3>2, <3>3, <3>6
      <4>2. QED
        BY <3>3, <3>6, <3>7, <4>1
    <3>9. QED
      BY <3>1, <3>5, <3>8
  <2>4. QED
    BY <2>2, <2>3
<1> HIDE DEF T
<1>2. T = Lookups
  BY <1>1, LookupInduction DEF T
<1>3. QED
  BY <1>2 DEF T, L

\* A lookup that starts on a way without links ends on one.
LEMMA EndsLinkFree ==
    ASSUME NEW disk, IsFileSystem(disk)
    PROVE  \A s \in Lookups : \A u \in Walk(disk, "links")[s] :
              LinkFree(disk, s.at) => LinkFree(disk, u.at)
<1> DEFINE L == Walk(disk, "links")
           Good(s) == \A u \in L[s] : LinkFree(disk, s.at) => LinkFree(disk, u.at)
           T == {s \in Lookups : Good(s)}
<1> HIDE DEF L
<1>1. ASSUME NEW s \in Lookups, \A t \in Lookups : Shorter(t, s) => t \in T
      PROVE  s \in T
  <2> SUFFICES ASSUME NEW u \in L[s], LinkFree(disk, s.at) PROVE LinkFree(disk, u.at)
    OBVIOUS
  <2>1. CASE s.rest = <<>>
    BY <2>1, WalkOver DEF L
  <2>2. CASE s.rest # <<>>
    <3>1. PICK t \in Onward(disk, "links", s) : u \in L[t]
      <4>1. L[s] = UNION {L[t] : t \in Onward(disk, "links", s)}
        BY <2>2, WalkOn DEF L
      <4>2. QED
        BY <4>1
    <3>2. t \in T
      BY <1>1, <2>2, OnwardShorter
    <3>3. s.at \in Seq(Names) /\ Head(s.rest) \in Names \cup {Up}
      BY <2>2, LookupType, HeadTailProperties
    <3>4. LinkFree(disk, t.at)
      <4>1. CASE Head(s.rest) = Up
        <5>1. t.at = IF s.at = <<>> THEN <<>> ELSE Parent(s.at)
          BY <4>1 DEF Onward, Going
        <5>2. QED
          BY <3>3, <5>1, LinkFreeParent
      <4>2. CASE Head(s.rest) # Up /\ IsLink(disk, Append(s.at, Head(s.rest)))
        <5>1. t.at = <<>>
          <6> DEFINE rest == disk[Append(s.at, Head(s.rest))].to \o Tail(s.rest)
          <6>1. t = Going(s.links - 1, <<>>, rest)
            BY <4>2 DEF Onward
          <6> HIDE DEF rest
          <6>2. QED
            BY <6>1 DEF Going
        <5>2. QED
          BY <5>1, LinkFreeRoot
      <4>3. CASE Head(s.rest) # Up /\ ~IsLink(disk, Append(s.at, Head(s.rest)))
        <5>1. t.at = Append(s.at, Head(s.rest))
          BY <4>3 DEF Onward, Going
        <5>2. QED
          BY <3>3, <4>3, <5>1, LinkFreeEntry
      <4>4. QED
        BY <4>1, <4>2, <4>3
    <3>5. QED
      BY <3>1, <3>2, <3>4
  <2>3. QED
    BY <2>1, <2>2
<1> HIDE DEF T
<1>2. T = Lookups
  BY <1>1, LookupInduction DEF T
<1>3. QED
  BY <1>2 DEF T, L

-----------------------------------------------------------------------------
\* Where links lead path to, whether or not anything is there.
Led(disk, path) == Lookup(disk, path, "links")

\* path is a link where it leads only if nothing is led there.
Unled(disk, path) ==
    \A q \in Led(disk, Parent(path)) : IsLink(disk, Append(q, Last(path))) => Led(disk, path) = {}

Exists(disk, p) == p = <<>> \/ p \in DOMAIN disk

LEMMA StartType ==
    ASSUME NEW path \in Paths
    PROVE  /\ Start(path) \in Lookups /\ Start(path).links = MaxLinks
           /\ Start(path).at = <<>> /\ Start(path).rest = path
<1>1. MaxLinks \in 0..MaxLinks /\ <<>> \in Seq(Names)
  BY MaxLinksAssumption
<1>2. QED
  BY <1>1 DEF Start, Going, Lookups

\* A path of names is a path.
LEMMA NamesArePaths == Seq(Names) \subseteq Paths
<1> SUFFICES ASSUME NEW p \in Seq(Names) PROVE p \in Seq(Names \cup {Up})
  BY DEF Paths
<1>1. QED
  OBVIOUS

\* What exists, and what is created, is where links lead.
LEMMA LedCovers ==
    ASSUME NEW disk, IsFileSystem(disk), NEW path \in Paths
    PROVE  /\ Canonical(disk, path) \subseteq Led(disk, path)
           /\ Lands(disk, path) \subseteq Led(disk, path)
           /\ Led(disk, path) \subseteq Seq(Names)
           /\ \A p, q \in Led(disk, path) : p = q
<1>1. Start(path) \in Lookups
  BY StartType
<1>2. /\ Walk(disk, "read")[Start(path)] \subseteq Walk(disk, "links")[Start(path)]
      /\ Walk(disk, "create")[Start(path)] \subseteq Walk(disk, "links")[Start(path)]
  BY <1>1, FoundIsLed
<1>3. \A u \in Walk(disk, "links")[Start(path)] : u \in Lookups
  BY <1>1, WalkEnds
<1>4. \A t, u \in Walk(disk, "links")[Start(path)] : t = u
  BY <1>1, AtMostOneEnd
<1>5. QED
  BY <1>2, <1>3, <1>4, LookupType DEF Led, Canonical, Lands, Lookup

LEMMA LedDependsOnLinks ==
    ASSUME NEW disk, IsFileSystem(disk), NEW gs, IsFileSystem(gs), LinksOf(disk) = LinksOf(gs)
    PROVE  /\ \A path \in Paths : Led(disk, path) = Led(gs, path)
           /\ \A p : IsLink(disk, p) <=> IsLink(gs, p)
<1>1. \A path \in Paths : Led(disk, path) = Led(gs, path)
  BY LedByLinks, StartType DEF Led, Lookup
<1>2. \A p : IsLink(disk, p) => <<p, disk[p].to>> \in LinksOf(gs)
  BY DEF LinksOf, IsLink
<1>3. \A p : IsLink(gs, p) => <<p, gs[p].to>> \in LinksOf(disk)
  BY DEF LinksOf, IsLink
<1>4. QED
  BY <1>1, <1>2, <1>3 DEF LinksOf, IsLink

\* The root exists.
LEMMA RootIsThere ==
    ASSUME NEW disk, IsFileSystem(disk)
    PROVE  Canonical(disk, <<>>) = {<<>>}
<1>1. <<>> \in Paths
  BY DEF Paths
<1>2. Walk(disk, "read")[Start(<<>>)] = {Start(<<>>)}
  BY <1>1, StartType, WalkOver
<1>3. QED
  BY <1>1, <1>2, StartType DEF Canonical, Lookup

\* The one step that looks up a name which is a link.
LEMMA OnwardLink ==
    ASSUME NEW disk, IsFileSystem(disk), NEW mode, NEW s \in Lookups, s.rest # <<>>,
           Head(s.rest) # Up, IsLink(disk, Append(s.at, Head(s.rest))), s.links # 0
    PROVE  /\ disk[Append(s.at, Head(s.rest))].to \in Paths
           /\ Onward(disk, mode, s) =
                 {Extend(Going(s.links - 1, <<>>, disk[Append(s.at, Head(s.rest))].to),
                         Tail(s.rest))}
           /\ Going(s.links - 1, <<>>, disk[Append(s.at, Head(s.rest))].to) \in Lookups
<1> DEFINE to == disk[Append(s.at, Head(s.rest))].to
<1>1. to \in Paths
  BY DEF IsFileSystem, IsNode, IsLink
<1>2. Extend(Going(s.links - 1, <<>>, to), Tail(s.rest)) =
          Going(s.links - 1, <<>>, to \o Tail(s.rest))
  BY DEF Extend, Going
<1>3. Onward(disk, mode, s) = {Going(s.links - 1, <<>>, to \o Tail(s.rest))}
  BY DEF Onward
<1>4. s.links - 1 \in 0..MaxLinks /\ <<>> \in Seq(Names)
  BY LookupType, MaxLinksAssumption
<1>5. Going(s.links - 1, <<>>, to) \in Lookups
  BY <1>1, <1>4, GoingType
<1> HIDE DEF to
<1>6. /\ to \in Paths
      /\ Onward(disk, mode, s) = {Extend(Going(s.links - 1, <<>>, to), Tail(s.rest))}
      /\ Going(s.links - 1, <<>>, to) \in Lookups
  BY <1>1, <1>2, <1>3, <1>5
<1>7. QED
  BY <1>6 DEF to

\* While no link dangles, what a link leads to exists.
LEMMA LinkFollowed ==
    ASSUME NEW disk, IsFileSystem(disk), ~Dangling(disk),
           NEW n, IsLink(disk, n), NEW l \in 0..MaxLinks,
           NEW w \in Walk(disk, "links")[Going(l, <<>>, disk[n].to)], l < MaxLinks
    PROVE  w \in Walk(disk, "read")[Going(l, <<>>, disk[n].to)]
<1> DEFINE to == disk[n].to
           p == Parent(n)
           e == Last(n)
<1>1. n \in DOMAIN disk /\ to \in Paths
  BY DEF IsFileSystem, IsNode, IsLink
<1>2. n \in Seq(Names) /\ n # <<>> /\ LinkFree(disk, p)
  BY <1>1, LinkFreeWay
<1>3. n = Append(p, e) /\ p \in Seq(Names) /\ e \in Names
  BY <1>2, EntryOfParent, ParentType
<1>4. PICK v : v \in Walk(disk, "read")[Start(n)]
  <2>1. <<n, to>> \in LinksOf(disk)
    BY DEF LinksOf, IsLink
  <2>2. Canonical(disk, n) # {}
    BY <2>1 DEF Dangling
  <2>3. QED
    BY <2>2 DEF Canonical, Lookup
<1> DEFINE s == Start(p)
           r == <<e>>
           u == Going(MaxLinks, p, <<>>)
           z == Going(MaxLinks, p, r)
<1>5. p \in Paths /\ r \in Paths /\ MaxLinks \in 0..MaxLinks /\ <<>> \in Paths
      /\ <<>> \in Seq(Names)
  BY <1>3, NamesArePaths, MaxLinksAssumption DEF Paths
<1>6. s \in Lookups /\ s.links = MaxLinks /\ s.at = <<>> /\ s.rest = p
  BY <1>5, StartType
<1>7. u \in Lookups /\ z \in Lookups /\ z.links = MaxLinks /\ z.at = p /\ z.rest = r
  BY <1>3, <1>5, GoingType
<1>8. u \in Walk(disk, "links")[s]
  <2>1. s.at \o s.rest = p
    BY <1>3, <1>6, ConcatEmptySeq
  <2>2. Walk(disk, "links")[s] = {Going(s.links, s.at \o s.rest, <<>>)}
    <3> HIDE DEF s, p
    <3>1. QED
      BY <1>2, <1>3, <1>6, <2>1, StraightLinks
  <2>3. QED
    BY <1>6, <2>1, <2>2
<1>9. Start(n) = Extend(s, r)
  <2>1. n = p \o r
    BY <1>3, AppendIsConcat
  <2>2. QED
    BY <1>6, <2>1 DEF Start, Extend
<1>10. Extend(u, r) = z
  <2>1. <<>> \o r = r
    BY <1>5, ConcatEmptySeq DEF Paths
  <2>2. QED
    BY <2>1 DEF Extend, Going
<1>11. v \in Walk(disk, "read")[z]
  BY <1>4, <1>5, <1>6, <1>7, <1>8, <1>9, <1>10, ReadBeyond
<1>12. z.rest # <<>> /\ Head(z.rest) = e /\ Tail(z.rest) = <<>> /\ e # Up
  <2>1. e # Up
    BY <1>3, UpAssumption
  <2>2. r # <<>> /\ Head(r) = e /\ Tail(r) = <<>>
    OBVIOUS
  <2> HIDE DEF r, e, z
  <2>3. QED
    BY <1>7, <2>1, <2>2
<1> DEFINE y == Going(MaxLinks - 1, <<>>, to)
<1>13. MaxLinks # 0 /\ MaxLinks \in Nat /\ l \in Nat
  BY MaxLinksAssumption
<1>14. Onward(disk, "read", z) = {Extend(y, <<>>)} /\ y \in Lookups
  <2> HIDE DEF z
  <2>1. IsLink(disk, Append(z.at, Head(z.rest))) /\ Append(z.at, Head(z.rest)) = n
    BY <1>3, <1>7, <1>12
  <2>2. disk[Append(z.at, Head(z.rest))].to = to /\ z.links # 0
    BY <1>7, <1>13, <2>1
  <2>3. /\ Onward(disk, "read", z) =
              {Extend(Going(z.links - 1, <<>>, disk[Append(z.at, Head(z.rest))].to),
                      Tail(z.rest))}
        /\ Going(z.links - 1, <<>>, disk[Append(z.at, Head(z.rest))].to) \in Lookups
    <3>1. /\ z \in Lookups /\ z.rest # <<>> /\ Head(z.rest) # Up /\ z.links # 0
          /\ IsLink(disk, Append(z.at, Head(z.rest)))
      BY <1>7, <1>12, <2>1, <2>2
    <3> HIDE DEF p, e, to, r, y
    <3>2. QED
      BY <3>1, OnwardLink
  <2>4. QED
    BY <1>7, <1>12, <2>2, <2>3
<1>15. Extend(y, <<>>) = y
  BY <1>1, ConcatEmptySeq DEF Extend, Going, Paths
<1>16. v \in Walk(disk, "read")[y]
  BY <1>7, <1>11, <1>12, <1>14, <1>15, WalkOn
<1> DEFINE x == Going(l, <<>>, to)
           d == MaxLinks - 1 - l
<1>17. d \in Nat /\ l + d = MaxLinks - 1 /\ MaxLinks - 1 \in 0..MaxLinks
  BY <1>13
<1>18. x \in Lookups /\ x.links = l /\ x.at = <<>> /\ x.rest = to
  <2> HIDE DEF to
  <2>1. QED
    BY <1>1, <1>5 DEF Going, Lookups
<1>19. More(x, d) = y
  BY <1>17, <1>18 DEF More
<1> HIDE DEF x, d, y
<1>20. w \in Walk(disk, "links")[x]
  BY DEF x
<1>21. w \in Walk(disk, "read")[x]
  BY <1>16, <1>17, <1>18, <1>19, <1>20, FewerLinks
<1>22. QED
  BY <1>21 DEF x

-----------------------------------------------------------------------------
\* What has an entry is the root or a directory.
LEMMA ParentIsDir ==
    ASSUME NEW disk, IsFileSystem(disk), NEW p \in Seq(Names), NEW n \in Names,
           Append(p, n) \in DOMAIN disk
    PROVE  /\ p # <<>> => p \in DOMAIN disk /\ disk[p] = Dir
           /\ ~(p \in DOMAIN disk /\ disk[p].type = "File")
<1>1. Parent(Append(p, n)) = p
  BY ParentOfEntry
<1>2. p # <<>> => p \in DOMAIN disk /\ disk[p] = Dir
  BY <1>1 DEF IsFileSystem, WellFormed
<1>3. <<>> \notin DOMAIN disk
  BY DEF IsFileSystem
<1>4. QED
  BY <1>2, <1>3 DEF Dir

\* While no link dangles, where plain names are led and something is, it is found.
LEMMA ExistingFound ==
    ASSUME NEW disk, IsFileSystem(disk), ~Dangling(disk)
    PROVE  \A s \in Lookups : \A u \in Walk(disk, "links")[s] :
              s.rest \in Seq(Names) /\ Exists(disk, u.at)
                 => /\ u \in Walk(disk, "read")[s]
                    /\ s.rest # <<>> => Append(s.at, Head(s.rest)) \in DOMAIN disk
<1> DEFINE W == Walk(disk, "read")
           L == Walk(disk, "links")
           Good(s) == \A u \in L[s] :
                         s.rest \in Seq(Names) /\ Exists(disk, u.at)
                           => /\ u \in W[s]
                              /\ s.rest # <<>> => Append(s.at, Head(s.rest)) \in DOMAIN disk
           T == {s \in Lookups : Good(s)}
<1> HIDE DEF L, W
<1>1. ASSUME NEW s \in Lookups, \A t \in Lookups : Shorter(t, s) => t \in T
      PROVE  s \in T
  <2> SUFFICES ASSUME NEW u \in L[s], s.rest \in Seq(Names), Exists(disk, u.at)
               PROVE  u \in W[s] /\ (s.rest # <<>> => Append(s.at, Head(s.rest)) \in DOMAIN disk)
    OBVIOUS
  <2>1. CASE s.rest = <<>>
    BY <2>1, WalkOver DEF L, W
  <2>2. CASE s.rest # <<>>
    <3> DEFINE n == Head(s.rest)
               r == Tail(s.rest)
               next == Append(s.at, n)
    <3>1. L[s] = UNION {L[t] : t \in Onward(disk, "links", s)}
      BY <2>2, WalkOn DEF L
    <3>2. W[s] = UNION {W[t] : t \in Onward(disk, "read", s)}
      BY <2>2, WalkOn DEF W
    <3>3. n \in Names /\ r \in Seq(Names) /\ n # Up
      BY <2>2, HeadTailProperties, UpAssumption
    <3>4. s.at \in Seq(Names) /\ next \in Seq(Names) /\ next # <<>>
      BY <3>3, LookupType, AppendProperties
    <3>5. CASE ~IsLink(disk, next)
      <4> DEFINE t == Going(s.links, next, r)
      <4>1. Onward(disk, "links", s) = {t}
        BY <3>3, <3>5 DEF Onward, Passes
      <4>2. t.at = next /\ t.rest = r
        BY DEF Going
      <4>3. u \in L[t] /\ t \in T /\ t \in Lookups
        BY <1>1, <2>2, <3>1, <4>1, OnwardShorter
      <4> HIDE DEF t
      <4>4. u \in W[t] /\ (r # <<>> => Append(next, Head(r)) \in DOMAIN disk)
        BY <3>3, <4>2, <4>3
      <4>5. next \in DOMAIN disk /\ (r # <<>> => disk[next] = Dir)
        <5>1. CASE r = <<>>
          <6>1. L[t] = {t}
            <7>1. t.rest = <<>>
              BY <4>2, <5>1
            <7>2. QED
              BY <4>3, <7>1, WalkOver DEF L
          <6>2. u.at = next
            BY <4>2, <4>3, <6>1
          <6>3. QED
            BY <3>4, <5>1, <6>2 DEF Exists
        <5>2. CASE r # <<>>
          <6>1. Head(r) \in Names
            BY <3>3, <5>2, HeadTailProperties
          <6> HIDE DEF next, r
          <6>2. QED
            BY <3>4, <4>4, <5>2, <6>1, ParentIsDir
        <5>3. QED
          BY <5>1, <5>2
      <4>6. t \in Onward(disk, "read", s)
        <5>1. Passes(disk, "read", next, r # <<>>)
          BY <4>5 DEF Passes, Dir
        <5>2. QED
          BY <3>3, <3>5, <5>1 DEF Onward, t
      <4>7. QED
        BY <3>2, <4>4, <4>5, <4>6
    <3>6. CASE IsLink(disk, next)
      <4> DEFINE x == Going(s.links - 1, <<>>, disk[next].to)
      <4>1. s.links # 0
        <5>1. s.links = 0 => Onward(disk, "links", s) = {}
          BY <3>3, <3>6 DEF Onward
        <5>2. QED
          BY <3>1, <5>1
      <4>2. x \in Lookups
        BY <2>2, <3>3, <3>6, <4>1, OnwardLink
      <4>3. /\ Onward(disk, "links", s) = {Extend(x, r)}
            /\ Onward(disk, "read", s) = {Extend(x, r)}
        BY <2>2, <3>3, <3>6, <4>1, OnwardLink
      <4>4. s.links - 1 \in 0..MaxLinks /\ s.links - 1 < MaxLinks
            /\ x.links = s.links - 1 /\ s.links \in Nat
        <5>1. s.links \in 0..MaxLinks
          BY LookupType
        <5>2. QED
          BY <4>1, <5>1, MaxLinksAssumption DEF Going
      <4>5. r \in Paths
        BY <3>3, NamesArePaths
      <4>6. PICK t \in L[x] : u \in L[Extend(t, r)]
        <5> HIDE DEF x, r
        <5>1. u \in L[Extend(x, r)]
          BY <3>1, <4>3
        <5>2. L[Extend(x, r)] = UNION {L[Extend(t, r)] : t \in L[x]}
          BY <4>2, <4>5, Compose DEF L
        <5>3. QED
          BY <5>1, <5>2
      <4>7. t \in W[x]
        BY <3>6, <4>4, <4>6, LinkFollowed DEF L, W
      <4> HIDE DEF x
      <4>8. t \in Lookups /\ t.rest = <<>> /\ t.links <= s.links - 1
        BY <4>2, <4>4, <4>6, WalkEnds DEF L
      <4> DEFINE z == Extend(t, r)
      <4>9. z \in Lookups /\ z.links = t.links /\ z.at = t.at /\ z.rest = r
        <5>1. z \in Lookups /\ z.links = t.links /\ z.at = t.at /\ z.rest = t.rest \o r
          BY <4>5, <4>8, ExtendType
        <5>2. t.rest \o r = r
          BY <3>3, <4>8, ConcatEmptySeq
        <5>3. QED
          BY <5>1, <5>2
      <4>10. Shorter(z, s)
        <5>1. t.links \in Nat
          BY <4>8, LookupType
        <5>2. t.links < s.links
          BY <4>4, <4>8, <5>1
        <5>3. QED
          BY <4>9, <5>2 DEF Shorter
      <4>11. z \in T
        BY <1>1, <4>9, <4>10
      <4>12. u \in W[z] /\ (r # <<>> => Append(t.at, Head(r)) \in DOMAIN disk)
        <5> HIDE DEF z
        <5>1. QED
          BY <3>3, <4>6, <4>9, <4>11 DEF z
      <4>13. r # <<>> => ~(t.at \in DOMAIN disk /\ disk[t.at].type = "File")
        <5> SUFFICES ASSUME r # <<>> PROVE ~(t.at \in DOMAIN disk /\ disk[t.at].type = "File")
          OBVIOUS
        <5>1. Head(r) \in Names /\ t.at \in Seq(Names)
          BY <3>3, <4>8, HeadTailProperties, LookupType
        <5>2. Append(t.at, Head(r)) \in DOMAIN disk
          BY <4>12
        <5> HIDE DEF r
        <5>3. QED
          BY <5>1, <5>2, ParentIsDir
      <4>14. u \in W[Extend(x, r)]
        <5> HIDE DEF r
        <5>1. QED
          BY <4>2, <4>5, <4>7, <4>8, <4>12, <4>13, ReadCompose DEF W
      <4>15. next \in DOMAIN disk
        BY <3>6 DEF IsLink
      <4>16. QED
        BY <3>2, <4>3, <4>14, <4>15
    <3>7. QED
      BY <3>5, <3>6
  <2>3. QED
    BY <2>1, <2>2
<1> HIDE DEF T
<1>2. T = Lookups
  BY <1>1, LookupInduction DEF T
<1>3. QED
  BY <1>2 DEF T, L, W

\* What links lead plain names to either exists, and is found, or is nothing.
LEMMA LedExists ==
    ASSUME NEW disk, IsFileSystem(disk), ~Dangling(disk), NEW path \in Seq(Names),
           Canonical(disk, path) = {}
    PROVE  Led(disk, path) \cap DOMAIN disk = {}
<1> SUFFICES ASSUME NEW q \in Led(disk, path), q \in DOMAIN disk PROVE FALSE
  OBVIOUS
<1>1. path \in Paths
  BY NamesArePaths
<1>2. PICK u \in Walk(disk, "links")[Start(path)] : u.at = q
  BY DEF Led, Lookup
<1>3. Start(path) \in Lookups /\ Start(path).rest = path
  BY <1>1, StartType
<1>4. u \in Walk(disk, "read")[Start(path)]
  BY <1>2, <1>3, ExistingFound DEF Exists
<1>5. QED
  BY <1>2, <1>4 DEF Canonical, Lookup

\* The way to an entry goes by way of its parent.
LEMMA LedByParent ==
    ASSUME NEW disk, IsFileSystem(disk), NEW path \in Seq(Names), path # <<>>,
           NEW w \in Walk(disk, "links")[Start(path)]
    PROVE  \E u \in Walk(disk, "links")[Start(Parent(path))] :
              /\ u \in Lookups /\ u.rest = <<>>
              /\ w \in Walk(disk, "links")[Going(u.links, u.at, <<Last(path)>>)]
<1> DEFINE p == Parent(path)
           r == <<Last(path)>>
           s == Start(p)
<1>1. path = Append(p, Last(path)) /\ p \in Seq(Names) /\ Last(path) \in Names
  BY EntryOfParent, ParentType
<1>2. r \in Seq(Names) /\ r \in Paths /\ p \in Paths
  <2>1. r \in Seq(Names)
    BY <1>1
  <2> HIDE DEF r, p
  <2>2. QED
    BY <1>1, <2>1, NamesArePaths
<1>3. s \in Lookups /\ s.links = MaxLinks /\ s.at = <<>> /\ s.rest = p
  BY <1>2, StartType
<1>4. Start(path) = Extend(s, r)
  <2>1. path = p \o r
    BY <1>1, AppendIsConcat
  <2>2. QED
    BY <1>3, <2>1 DEF Start, Extend
<1> HIDE DEF s, r
<1>5. PICK u \in Walk(disk, "links")[s] : w \in Walk(disk, "links")[Extend(u, r)]
  BY <1>2, <1>3, <1>4, Compose
<1>6. u \in Lookups /\ u.rest = <<>>
  BY <1>3, <1>5, WalkEnds
<1>7. Extend(u, r) = Going(u.links, u.at, r)
  BY <1>2, <1>6, ExtendType
<1>8. QED
  BY <1>5, <1>6, <1>7 DEF s, r

-----------------------------------------------------------------------------
\* A path that is no link where it leads is led to its parent's entry.
LEMMA LedToEntry ==
    ASSUME NEW disk, IsFileSystem(disk), NEW path \in Seq(Names), path # <<>>, Unled(disk, path)
    PROVE  \A q \in Led(disk, path) : \E p \in Led(disk, Parent(path)) : q = Append(p, Last(path))
<1> SUFFICES ASSUME NEW q \in Led(disk, path)
             PROVE  \E p \in Led(disk, Parent(path)) : q = Append(p, Last(path))
  OBVIOUS
<1> DEFINE e == Last(path)
<1>1. e \in Names /\ e # Up
  BY EntryOfParent, UpAssumption
<1>2. PICK w \in Walk(disk, "links")[Start(path)] : w.at = q
  BY DEF Led, Lookup
<1>3. PICK u \in Walk(disk, "links")[Start(Parent(path))] :
        /\ u \in Lookups /\ u.rest = <<>>
        /\ w \in Walk(disk, "links")[Going(u.links, u.at, <<e>>)]
  BY <1>2, LedByParent
<1>4. u.at \in Led(disk, Parent(path))
  BY <1>3 DEF Led, Lookup
<1>5. ~IsLink(disk, Append(u.at, e))
  BY <1>4 DEF Unled
<1> DEFINE z == Going(u.links, u.at, <<e>>)
           t == Going(u.links, Append(u.at, e), <<>>)
<1>6. /\ z \in Lookups /\ z.links = u.links /\ z.at = u.at /\ z.rest = <<e>>
      /\ t \in Lookups /\ t.rest = <<>> /\ t.at = Append(u.at, e)
  <2>1. u.links \in 0..MaxLinks /\ u.at \in Seq(Names) /\ <<e>> \in Paths /\ <<>> \in Paths
    BY <1>1, <1>3, LookupType DEF Paths
  <2>2. Append(u.at, e) \in Seq(Names)
    BY <1>1, <2>1, AppendProperties
  <2> HIDE DEF e
  <2>3. QED
    BY <2>1, <2>2 DEF Going, Lookups
<1>7. Onward(disk, "links", z) = {t}
  <2>1. Head(<<e>>) = e /\ Tail(<<e>>) = <<>>
    OBVIOUS
  <2> HIDE DEF z, e
  <2>2. QED
    BY <1>1, <1>5, <1>6, <2>1 DEF Onward, Passes
<1>8. w \in Walk(disk, "links")[t]
  <2>1. z.rest # <<>>
    <3>1. <<e>> # <<>>
      OBVIOUS
    <3> HIDE DEF z, e
    <3>2. QED
      BY <1>6, <3>1
  <2>2. Walk(disk, "links")[z] = UNION {Walk(disk, "links")[x] : x \in Onward(disk, "links", z)}
    BY <1>6, <2>1, WalkOn
  <2>3. QED
    BY <1>3, <1>7, <2>2
<1>9. w = t
  BY <1>6, <1>8, WalkOver
<1>10. QED
  BY <1>2, <1>4, <1>6, <1>9

\* While no link dangles, what is not found is no link where it leads.
LEMMA MissedIsUnled ==
    ASSUME NEW disk, IsFileSystem(disk), ~Dangling(disk), NEW path \in Seq(Names), path # <<>>,
           Canonical(disk, path) = {}
    PROVE  Unled(disk, path)
<1> DEFINE e == Last(path)
           p == Parent(path)
<1> SUFFICES ASSUME NEW q \in Led(disk, p), IsLink(disk, Append(q, e)), NEW y \in Led(disk, path)
             PROVE  FALSE
  BY DEF Unled
<1>1. e \in Names /\ e # Up /\ p \in Seq(Names) /\ p \in Paths /\ path = Append(p, e)
  BY EntryOfParent, ParentType, UpAssumption, NamesArePaths
<1>2. PICK w \in Walk(disk, "links")[Start(path)] : w.at = y
  BY DEF Led, Lookup
<1>3. PICK u \in Walk(disk, "links")[Start(p)] :
        /\ u \in Lookups /\ u.rest = <<>>
        /\ w \in Walk(disk, "links")[Going(u.links, u.at, <<e>>)]
  BY <1>2, LedByParent
<1>4. u.at = q
  <2>1. u.at \in Led(disk, p)
    BY <1>3 DEF Led, Lookup
  <2> HIDE DEF p
  <2>2. QED
    BY <1>1, <2>1, LedCovers
<1> DEFINE next == Append(q, e)
           to == disk[next].to
           r == <<e>>
           z == Going(u.links, q, r)
           x == Going(u.links - 1, <<>>, to)
<1>5. Start(p) \in Lookups /\ Start(p).links = MaxLinks /\ Start(p).at = <<>>
      /\ Start(p).rest = p
  <2> HIDE DEF p
  <2>1. QED
    BY <1>1, StartType
<1>6. u.links \in 0..MaxLinks /\ q \in Seq(Names) /\ r \in Paths /\ next \in DOMAIN disk
  BY <1>1, <1>3, <1>4, LookupType DEF IsLink, Paths
<1>7. u \in Walk(disk, "read")[Start(p)]
  <2>1. Exists(disk, u.at)
    BY <1>1, <1>4, <1>6, ParentIsDir DEF Exists
  <2> HIDE DEF p
  <2>2. QED
    BY <1>1, <1>3, <1>5, <2>1, ExistingFound
<1>8. ~(q \in DOMAIN disk /\ disk[q].type = "File")
  BY <1>1, <1>6, ParentIsDir
<1>9. /\ z \in Lookups /\ z.links = u.links /\ z.at = q /\ z.rest = r
      /\ z.rest # <<>> /\ Head(z.rest) = e /\ Tail(z.rest) = <<>>
  <2>1. r # <<>> /\ Head(r) = e /\ Tail(r) = <<>>
    OBVIOUS
  <2> HIDE DEF r
  <2>2. z \in Lookups /\ z.links = u.links /\ z.at = q /\ z.rest = r
    BY <1>6 DEF Going, Lookups
  <2> HIDE DEF z, e
  <2>3. QED
    BY <2>1, <2>2
<1>10. w \in Walk(disk, "links")[z]
  BY <1>3, <1>4
<1> HIDE DEF z
<1>20. z \in Lookups /\ z.rest # <<>>
  BY <1>9
<1>11. u.links # 0
  <2>1. u.links = 0 => Onward(disk, "links", z) = {}
    BY <1>1, <1>9 DEF Onward
  <2>2. Walk(disk, "links")[z] = UNION {Walk(disk, "links")[t] : t \in Onward(disk, "links", z)}
    BY <1>20, WalkOn
  <2>3. QED
    BY <1>10, <2>1, <2>2
<1>12. /\ x \in Lookups /\ to \in Paths
       /\ Onward(disk, "links", z) = {x} /\ Onward(disk, "read", z) = {x}
  <2>1. IsLink(disk, Append(z.at, Head(z.rest))) /\ Head(z.rest) # Up /\ z.links # 0
    BY <1>1, <1>9, <1>11
  <2>2. Append(z.at, Head(z.rest)) = next
    BY <1>9
  <2> HIDE DEF next
  <2>3. /\ to \in Paths /\ x \in Lookups
        /\ Onward(disk, "links", z) = {Extend(x, <<>>)}
        /\ Onward(disk, "read", z) = {Extend(x, <<>>)}
    <3>1. \A mode : /\ disk[Append(z.at, Head(z.rest))].to \in Paths
                    /\ Onward(disk, mode, z) =
                          {Extend(Going(z.links - 1, <<>>, disk[Append(z.at, Head(z.rest))].to),
                                  Tail(z.rest))}
                    /\ Going(z.links - 1, <<>>, disk[Append(z.at, Head(z.rest))].to) \in Lookups
      BY <1>9, <2>1, OnwardLink
    <3>2. QED
      BY <1>9, <2>2, <3>1
  <2>4. Extend(x, <<>>) = x
    <3>1. to \o <<>> = to
      BY <2>3, ConcatEmptySeq DEF Paths
    <3>2. QED
      BY <3>1 DEF Extend, Going
  <2>5. QED
    BY <2>3, <2>4
<1> HIDE DEF x
<1>13. w \in Walk(disk, "links")[x]
  <2>1. Walk(disk, "links")[z] = UNION {Walk(disk, "links")[t] : t \in Onward(disk, "links", z)}
    BY <1>20, WalkOn
  <2>2. QED
    BY <1>10, <1>12, <2>1
<1>14. w \in Walk(disk, "read")[x]
  <2>1. u.links - 1 \in 0..MaxLinks /\ u.links - 1 < MaxLinks
    BY <1>6, <1>11, MaxLinksAssumption
  <2>2. QED
    BY <1>13, <2>1, LinkFollowed DEF x
<1>15. w \in Walk(disk, "read")[z]
  <2>1. Walk(disk, "read")[z] = UNION {Walk(disk, "read")[t] : t \in Onward(disk, "read", z)}
    BY <1>20, WalkOn
  <2>2. QED
    BY <1>12, <1>14, <2>1
<1>16. Extend(u, r) = z
  <2> HIDE DEF r
  <2>1. QED
    BY <1>3, <1>4, <1>6, ExtendType DEF z
<1>17. Start(path) = Extend(Start(p), r)
  <2>1. path = p \o r
    BY <1>1, AppendIsConcat
  <2> HIDE DEF p, r
  <2>2. QED
    BY <1>5, <2>1 DEF Start, Extend
<1>18. w \in Walk(disk, "read")[Start(path)]
  <2> HIDE DEF p, r
  <2>1. w \in Walk(disk, "read")[Extend(Start(p), r)]
    BY <1>3, <1>4, <1>5, <1>6, <1>7, <1>8, <1>15, <1>16, ReadCompose
  <2>2. QED
    BY <1>17, <2>1
<1>19. QED
  BY <1>18 DEF Canonical, Lookup

\* A path below the working directory leads where it does from where the
\* working directory leads.
LEMMA LedFromWorking ==
    ASSUME NEW disk, IsFileSystem(disk), NEW base \in Paths, NEW r \in Paths,
           NEW q \in Led(disk, base)
    PROVE  Led(disk, base \o r) \subseteq Led(disk, q \o r)
<1> SUFFICES ASSUME NEW y \in Led(disk, base \o r) PROVE y \in Led(disk, q \o r)
  OBVIOUS
<1>1. PICK w \in Walk(disk, "links")[Start(base \o r)] : w.at = y
  BY DEF Led, Lookup
<1> DEFINE s == Start(base)
<1>2. s \in Lookups /\ s.links = MaxLinks /\ s.at = <<>> /\ s.rest = base
  BY StartType
<1>3. Start(base \o r) = Extend(s, r)
  BY <1>2 DEF Start, Extend
<1> HIDE DEF s
<1>4. PICK u \in Walk(disk, "links")[s] : w \in Walk(disk, "links")[Extend(u, r)]
  BY <1>1, <1>2, <1>3, Compose
<1>5. u \in Lookups /\ u.rest = <<>> /\ u.links <= MaxLinks
  BY <1>2, <1>4, WalkEnds
<1>6. u.at = q
  <2>1. u.at \in Led(disk, base)
    BY <1>4 DEF Led, Lookup, s
  <2>2. QED
    BY <2>1, LedCovers
<1>7. LinkFree(disk, q)
  <2>1. LinkFree(disk, s.at)
    BY <1>2, LinkFreeRoot
  <2>2. QED
    BY <1>2, <1>4, <1>6, <2>1, EndsLinkFree
<1>8. q \in Seq(Names) /\ q \in Paths /\ u.links \in 0..MaxLinks
  BY <1>5, <1>6, LookupType, NamesArePaths
<1> DEFINE z == Start(q)
           m == Going(MaxLinks, q, <<>>)
           d == MaxLinks - u.links
<1>9. z \in Lookups /\ z.links = MaxLinks /\ z.at = <<>> /\ z.rest = q
  BY <1>8, StartType
<1>10. m \in Walk(disk, "links")[z]
  <2>1. z.at \o z.rest = q
    BY <1>8, <1>9, ConcatEmptySeq
  <2> HIDE DEF z
  <2>2. Walk(disk, "links")[z] = {Going(z.links, z.at \o z.rest, <<>>)}
    BY <1>7, <1>8, <1>9, <2>1, StraightLinks
  <2>3. QED
    BY <1>9, <2>1, <2>2
<1>11. Start(q \o r) = Extend(z, r)
  BY <1>9 DEF Start, Extend
<1>12. d \in Nat /\ u.links + d = MaxLinks /\ MaxLinks \in 0..MaxLinks
  BY <1>8, MaxLinksAssumption
<1> DEFINE x == Extend(u, r)
<1>13. x \in Lookups /\ x.links = u.links /\ x.at = q /\ x.rest = r
  <2>1. x = Going(u.links, u.at, r) /\ x \in Lookups
    BY <1>5, ExtendType
  <2>2. QED
    BY <1>6, <2>1 DEF Going
<1> HIDE DEF x, d, z
<1>14. More(w, d) \in Walk(disk, "links")[More(x, d)]
  <2>1. w \in Walk(disk, "links")[x]
    BY <1>4 DEF x
  <2>2. QED
    BY <1>12, <1>13, <2>1, MoreLinks
<1>15. More(x, d) = Extend(m, r)
  <2>1. <<>> \o r = r
    BY ConcatEmptySeq DEF Paths
  <2>2. More(x, d) = Going(MaxLinks, q, r)
    BY <1>12, <1>13 DEF More
  <2>3. QED
    BY <2>1, <2>2 DEF Extend, Going
<1>16. More(w, d) \in Walk(disk, "links")[Start(q \o r)]
  <2> HIDE DEF m
  <2>1. Walk(disk, "links")[Extend(z, r)] =
           UNION {Walk(disk, "links")[Extend(t, r)] : t \in Walk(disk, "links")[z]}
    BY <1>9, Compose
  <2>2. QED
    BY <1>10, <1>11, <1>14, <1>15, <2>1
<1>17. More(w, d).at = y
  BY <1>1 DEF More, Going
<1>18. QED
  BY <1>16, <1>17 DEF Led, Lookup

(***************************************************************************)
(* Resolutions.                                                            *)
(***************************************************************************)

Operands == [absolute : BOOLEAN, path : Paths]

AtMostOnePath(S) == S = {} \/ \E p \in Seq(Names) : S = {p}

Ahead == {"scope", "boundary", "working"}
AtOperand == {"check", "operand", "walk"}

\* What the resolver keeps between its steps.
KeptInv ==
    /\ IsFileSystem(fs)
    /\ candidate \in Candidates
    /\ stage \in Ahead \cup AtOperand \cup {"conclude", "over"}
    /\ AtMostOnePath(boundary) /\ AtMostOnePath(working)
    /\ targets \in Seq(Seq(Names)) /\ missing \in Seq(Names)
    /\ stage \in Ahead => targets = <<>>
    /\ stage \notin {"walk", "over"} => missing = <<>>
    /\ stage \in {"boundary", "working"} => TargetScope(candidate) # "Unsupported"
    /\ stage \in AtOperand \cup {"working", "conclude"} => boundary # {}
    /\ stage \in AtOperand =>
          /\ working # {}
          /\ Len(targets) < Len(candidate.paths)
          /\ TargetScope(candidate) \in {"Paths", "WritePaths"}
    /\ stage = "check" => candidate.effect = "Create"
    /\ stage = "walk" =>
          /\ TargetScope(candidate) = "WritePaths"
          /\ Len(missing) < Len(Joined)
    /\ stage = "conclude" /\ candidate.paths # <<>> => Len(targets) = Len(candidate.paths)
    /\ stage # "over" => ~Resolved

\* What was answered is what was resolved, within the limits.
AnswerInv ==
    Resolved =>
        /\ result.targets = targets /\ boundary # {}
        /\ candidate.paths # <<>> => Len(targets) = Len(candidate.paths)
        /\ \A p \in Range(targets) : BoundError(p) = "None"
        /\ result.containment = IF \A p \in Range(targets) : Contained(p)
                                  THEN "RepositoryLocal"
                                  ELSE "CrossBoundary"

\* Where links lead operand i from the configured working directory.
Destination(i) == Led(fs, Join(Working, candidate.paths[i]))

\* The operands that have been resolved, and those found not to be there, which
\* are one more where the operand at hand has passed its check.
Resolveds == 1..Len(targets)
Checked == IF stage \in {"operand", "walk"} THEN 1..Len(targets) + 1 ELSE Resolveds

Ancestor == SubSeq(Joined, 1, Len(Joined) - Len(missing))

\* Everything found so far is where links lead.
BoundaryLed == boundary # {} => boundary = Led(fs, Boundary)
WorkingLed == working # {} => working = Led(fs, Working)
TargetsLed == candidate.paths # <<>> =>
    \A i \in Resolveds : i <= Len(candidate.paths) =>
       Destination(i) \subseteq {targets[i]}

\* A creation leads to what is not there, or appeared since.
CreationsNew == candidate.effect = "Create" =>
    \A i \in Checked : i <= Len(candidate.paths) =>
       Destination(i) \cap DOMAIN fs \subseteq seen.appeared

\* On the way up, the operand at hand is led below its ancestor, and that is no
\* link.
AncestorLed == stage = "walk" =>
    /\ Unled(fs, Ancestor)
    /\ Led(fs, Joined) \subseteq {q \o Reverse(missing) : q \in Led(fs, Ancestor)}

\* What holds while links stay as they are and none dangles.
ExactInv ==
    seen.steady =>
        /\ ~Dangling(fs)
        /\ BoundaryLed /\ WorkingLed /\ TargetsLed /\ CreationsNew /\ AncestorLed

Inv == KeptInv /\ AnswerInv /\ ExactInv
-----------------------------------------------------------------------------
\* A reversed sequence, and one that is a name longer.
LEMMA ReverseType ==
    ASSUME NEW S, NEW s \in Seq(S)
    PROVE  /\ Reverse(s) \in Seq(S) /\ Len(Reverse(s)) = Len(s)
           /\ \A i \in 1..Len(s) : Reverse(s)[i] = s[Len(s) - i + 1]
<1>1. Len(s) \in Nat /\ \A i \in 1..Len(s) : s[i] \in S
  BY LenProperties, ElementOfSeq
<1>2. \A i \in 1..Len(s) : (Len(s) - i) + 1 \in 1..Len(s)
  BY <1>1
<1>3. \A i \in 1..Len(s) : s[(Len(s) - i) + 1] \in S
  BY <1>1, <1>2
<1>4. Reverse(s) \in Seq(S) /\ Len(Reverse(s)) = Len(s)
  BY <1>1, <1>3 DEF Reverse
<1>5. QED
  BY <1>4 DEF Reverse

LEMMA ReverseAppend ==
    ASSUME NEW S, NEW s \in Seq(S), NEW e \in S
    PROVE  Reverse(Append(s, e)) = <<e>> \o Reverse(s)
<1> DEFINE a == Append(s, e)
           l == Reverse(a)
           r == <<e>> \o Reverse(s)
<1>1. /\ a \in Seq(S) /\ Len(a) = Len(s) + 1 /\ Len(s) \in Nat
      /\ a[Len(s) + 1] = e /\ \A i \in 1..Len(s) : a[i] = s[i]
  BY AppendProperties, LenProperties
<1> HIDE DEF a
<1>2. /\ l \in Seq(S) /\ Len(l) = Len(s) + 1
      /\ \A i \in 1..Len(s) + 1 : l[i] = a[Len(s) + 1 - i + 1]
  BY <1>1, ReverseType
<1>3. <<e>> \in Seq(S) /\ Len(<<e>>) = 1 /\ <<e>>[1] = e
  OBVIOUS
<1>4. /\ r \in Seq(S) /\ Len(r) = 1 + Len(s)
      /\ \A i \in 1..1 + Len(s) : r[i] = IF i <= 1 THEN <<e>>[i] ELSE Reverse(s)[i - 1]
  BY <1>3, ReverseType, ConcatProperties
<1> HIDE DEF l, r
<1>5. \A i \in 1..Len(s) + 1 : l[i] = r[i]
  <2> TAKE i \in 1..Len(s) + 1
  <2>1. CASE i = 1
    BY <1>1, <1>2, <1>3, <1>4, <2>1
  <2>2. CASE i # 1
    <3>1. i - 1 \in 1..Len(s) /\ Len(s) + 1 - i + 1 \in 1..Len(s) /\ ~(i <= 1)
      BY <1>1, <2>2
    <3>2. Reverse(s)[i - 1] = s[Len(s) - (i - 1) + 1]
      BY <3>1, ReverseType
    <3>3. Len(s) - (i - 1) + 1 = Len(s) + 1 - i + 1
      BY <1>1
    <3>4. l[i] = s[Len(s) + 1 - i + 1]
      BY <1>1, <1>2, <3>1
    <3>5. r[i] = Reverse(s)[i - 1]
      BY <1>1, <1>4, <3>1
    <3>6. QED
      BY <3>2, <3>3, <3>4, <3>5
  <2>3. QED
    BY <2>1, <2>2
<1>6. l = r
  <2>1. Len(l) = Len(r) /\ Len(l) = Len(s) + 1
    BY <1>1, <1>2, <1>4
  <2>2. QED
    BY <1>2, <1>4, <1>5, <2>1, SeqEqual
<1>7. QED
  BY <1>6 DEF l, r, a

\* The parent of the first k names of a path is its first k - 1 names.
LEMMA ParentOfPrefix ==
    ASSUME NEW S, NEW p \in Seq(S), NEW k \in 1..Len(p)
    PROVE  /\ SubSeq(p, 1, k) \in Seq(S) /\ SubSeq(p, 1, k) # <<>>
           /\ Parent(SubSeq(p, 1, k)) = SubSeq(p, 1, k - 1)
<1>1. Len(p) \in Nat /\ \A i \in 1..Len(p) : p[i] \in S
  BY LenProperties, ElementOfSeq
<1>2. \A n \in 0..Len(p) : /\ SubSeq(p, 1, n) \in Seq(S) /\ Len(SubSeq(p, 1, n)) = n
                          /\ \A i \in 1..n : SubSeq(p, 1, n)[i] = p[i]
  <2> TAKE n \in 0..Len(p)
  <2>1. n \in Int /\ n \in Nat /\ \A i \in 1..n : p[i] \in S
    BY <1>1
  <2>2. /\ SubSeq(p, 1, n) \in Seq(S)
        /\ Len(SubSeq(p, 1, n)) = IF 1 <= n THEN n - 1 + 1 ELSE 0
        /\ \A i \in 1..n - 1 + 1 : SubSeq(p, 1, n)[i] = p[1 + i - 1]
    BY <2>1, SubSeqProperties
  <2>3. n - 1 + 1 = n /\ \A i \in 1..n : 1 + i - 1 = i
    BY <2>1
  <2>4. \A i \in 1..n : SubSeq(p, 1, n)[i] = p[i]
    <3> TAKE i \in 1..n
    <3>1. SubSeq(p, 1, n)[i] = p[1 + i - 1]
      BY <2>2, <2>3
    <3>2. QED
      BY <2>3, <3>1
  <2>5. (IF 1 <= n THEN n - 1 + 1 ELSE 0) = n
    BY <2>1
  <2>6. QED
    BY <2>2, <2>4, <2>5
<1> DEFINE q == SubSeq(p, 1, k)
           m == SubSeq(p, 1, k - 1)
<1>3. k \in 0..Len(p) /\ k - 1 \in 0..Len(p) /\ k # 0 /\ k \in Nat
  BY <1>1
<1>4. /\ q \in Seq(S) /\ Len(q) = k /\ \A i \in 1..k : q[i] = p[i]
      /\ m \in Seq(S) /\ Len(m) = k - 1 /\ \A i \in 1..k - 1 : m[i] = p[i]
  BY <1>2, <1>3
<1> HIDE DEF q, m
<1>5. q # <<>>
  BY <1>3, <1>4
<1>6. /\ Parent(q) \in Seq(S) /\ Len(Parent(q)) = k - 1
      /\ \A i \in 1..k - 1 : Parent(q)[i] = q[i]
  BY <1>4, <1>5, ParentType
<1>7. \A i \in 1..k - 1 : Parent(q)[i] = m[i]
  BY SMTT(60), <1>3, <1>4, <1>6
<1>8. Parent(q) = m
  BY <1>4, <1>6, <1>7, SeqEqual
<1>9. QED
  BY <1>4, <1>5, <1>8 DEF q, m
-----------------------------------------------------------------------------
\* The operand at hand is an operand, and of plain names if it is of a patch.
LEMMA NextOperandType ==
    ASSUME KeptInv, stage \in AtOperand
    PROVE  /\ NextOperand \in Operands
           /\ TargetScope(candidate) = "WritePaths" \/ candidate.effect = "Create"
                 => NextOperand.path \in Seq(Names)
<1>1. /\ Len(targets) \in Nat /\ Len(targets) < Len(candidate.paths)
      /\ candidate \in Candidates
  BY LenProperties DEF KeptInv
<1>2. candidate.paths \in Seq(Operands)
  BY <1>1, CandidatesAssumption DEF Operands
<1>3. Len(targets) + 1 \in 1..Len(candidate.paths)
  BY <1>1, <1>2, LenProperties
<1>4. NextOperand \in Operands
  BY <1>2, <1>3, ElementOfSeq DEF NextOperand
<1>5. ASSUME TargetScope(candidate) = "WritePaths" \/ candidate.effect = "Create"
      PROVE  NextOperand.path \in Seq(Names)
  <2>1. candidate.kind \in PatchKinds \/ candidate.effect = "Create"
    BY <1>5 DEF TargetScope
  <2>2. candidate.paths \in Seq([absolute : BOOLEAN, path : Seq(Names)])
    BY <1>1, <2>1, CandidatesAssumption
  <2>3. NextOperand \in [absolute : BOOLEAN, path : Seq(Names)]
    BY <1>3, <2>2, ElementOfSeq DEF NextOperand
  <2>4. QED
    BY <2>3
<1>6. QED
  BY <1>4, <1>5

\* So what it is joined to is a path, and of plain names too.
LEMMA JoinedType ==
    ASSUME KeptInv, stage \in AtOperand
    PROVE  /\ \E w \in Seq(Names) : working = {w} /\ Joined = Join(w, NextOperand)
           /\ Joined \in Paths
           /\ Join(Working, NextOperand) \in Paths
           /\ TargetScope(candidate) = "WritePaths" \/ candidate.effect = "Create"
                 => Joined \in Seq(Names)
<1>1. PICK w \in Seq(Names) : working = {w}
  BY DEF KeptInv, AtMostOnePath
<1>2. Joined = Join(w, NextOperand)
  BY <1>1 DEF Joined
<1>3. w \in Paths /\ NextOperand.path \in Paths /\ Working \in Paths
  BY <1>1, NamesArePaths, NextOperandType, ConfigurationAssumption DEF Operands
<1>4. Joined \in Paths /\ Join(Working, NextOperand) \in Paths
  BY <1>2, <1>3, ConcatProperties DEF Join, Paths
<1>5. ASSUME TargetScope(candidate) = "WritePaths" \/ candidate.effect = "Create"
      PROVE  Joined \in Seq(Names)
  BY <1>1, <1>2, <1>5, NextOperandType, ConcatProperties DEF Join
<1>6. QED
  BY <1>1, <1>2, <1>4, <1>5

\* Where links lead the operand from the configured working directory is where
\* they lead it from the canonical one.
LEMMA JoinedCovers ==
    ASSUME KeptInv, stage \in AtOperand, ExactInv, seen.steady
    PROVE  Led(fs, Join(Working, NextOperand)) \subseteq Led(fs, Joined)
<1>1. PICK w \in Seq(Names) : working = {w} /\ Joined = Join(w, NextOperand)
  BY JoinedType
<1>2. working = Led(fs, Working)
  BY <1>1 DEF ExactInv, WorkingLed
<1>3. w \in Led(fs, Working) /\ IsFileSystem(fs)
  BY <1>1, <1>2 DEF KeptInv
<1>4. NextOperand.path \in Paths /\ Working \in Paths
  BY NextOperandType, ConfigurationAssumption DEF Operands
<1>5. CASE NextOperand.absolute
  BY <1>1, <1>5 DEF Join
<1>6. CASE ~NextOperand.absolute
  <2>1. Led(fs, Working \o NextOperand.path) \subseteq Led(fs, w \o NextOperand.path)
    BY <1>3, <1>4, LedFromWorking
  <2>2. QED
    BY <1>1, <1>6, <2>1 DEF Join
<1>7. QED
  BY <1>5, <1>6

\* The ancestor the walk has come to, and its parent, which it comes to next.
LEMMA AncestorType ==
    ASSUME KeptInv, stage = "walk"
    PROVE  /\ Joined \in Seq(Names) /\ Ancestor \in Seq(Names) /\ Ancestor # <<>>
           /\ Last(Ancestor) \in Names /\ Parent(Ancestor) \in Seq(Names)
           /\ Append(missing, Last(Ancestor)) \in Seq(Names)
           /\ Len(Append(missing, Last(Ancestor))) = Len(missing) + 1
           /\ Parent(Ancestor) = SubSeq(Joined, 1, Len(Joined) - (Len(missing) + 1))
           /\ Parent(Ancestor) # <<>> => Len(missing) + 1 < Len(Joined)
<1>1. Joined \in Seq(Names) /\ missing \in Seq(Names) /\ Len(missing) < Len(Joined)
  BY JoinedType DEF KeptInv, AtOperand
<1>2. Len(missing) \in Nat /\ Len(Joined) \in Nat
  BY <1>1, LenProperties
<1> DEFINE k == Len(Joined) - Len(missing)
<1>3. k \in 1..Len(Joined) /\ k - 1 = Len(Joined) - (Len(missing) + 1)
  BY <1>1, <1>2
<1>4. /\ Ancestor \in Seq(Names) /\ Ancestor # <<>>
      /\ Parent(Ancestor) = SubSeq(Joined, 1, k - 1)
  <2> HIDE DEF k
  <2>1. QED
    BY <1>1, <1>3, ParentOfPrefix DEF Ancestor, k
<1>5. Last(Ancestor) \in Names /\ Parent(Ancestor) \in Seq(Names)
  BY <1>4, EntryOfParent, ParentType
<1>6. /\ Append(missing, Last(Ancestor)) \in Seq(Names)
      /\ Len(Append(missing, Last(Ancestor))) = Len(missing) + 1
  BY <1>1, <1>5, AppendProperties
<1>7. ASSUME Parent(Ancestor) # <<>> PROVE Len(missing) + 1 < Len(Joined)
  <2>1. SubSeq(Joined, 1, k - 1) # <<>>
    BY <1>4, <1>7
  <2>2. ~(k - 1 < 1)
    BY <1>3, <2>1, SubSeqEmpty
  <2>3. QED
    BY <1>2, <2>2
<1>8. QED
  BY <1>1, <1>3, <1>4, <1>5, <1>6, <1>7

\* One name more stripped: the operand is led below the parent.
LEMMA StripOne ==
    ASSUME KeptInv, ExactInv, seen.steady, stage = "walk"
    PROVE  Led(fs, Joined) \subseteq
              {q \o Reverse(Append(missing, Last(Ancestor))) : q \in Led(fs, Parent(Ancestor))}
<1> SUFFICES ASSUME NEW y \in Led(fs, Joined)
             PROVE  \E p \in Led(fs, Parent(Ancestor)) :
                       y = p \o Reverse(Append(missing, Last(Ancestor)))
  OBVIOUS
<1>1. /\ Joined \in Seq(Names) /\ Ancestor \in Seq(Names) /\ Ancestor # <<>>
      /\ Last(Ancestor) \in Names /\ Parent(Ancestor) \in Seq(Names)
  BY AncestorType
<1>2. /\ Unled(fs, Ancestor)
      /\ Led(fs, Joined) \subseteq {q \o Reverse(missing) : q \in Led(fs, Ancestor)}
      /\ IsFileSystem(fs) /\ missing \in Seq(Names)
  BY DEF ExactInv, AncestorLed, KeptInv
<1>3. PICK q \in Led(fs, Ancestor) : y = q \o Reverse(missing)
  BY <1>2
<1>4. PICK p \in Led(fs, Parent(Ancestor)) : q = Append(p, Last(Ancestor))
  BY <1>1, <1>2, <1>3, LedToEntry
<1>5. p \in Seq(Names)
  BY <1>1, <1>2, <1>4, LedCovers, NamesArePaths
<1> DEFINE e == Last(Ancestor)
<1>6. Append(p, e) \o Reverse(missing) = p \o (<<e>> \o Reverse(missing))
  <2>1. Reverse(missing) \in Seq(Names)
    BY <1>2, ReverseType
  <2> HIDE DEF e
  <2>2. e \in Names
    BY <1>1 DEF e
  <2>3. QED
    BY SMTT(60), <1>5, <2>1, <2>2, ConcatByName
<1>7. Reverse(Append(missing, e)) = <<e>> \o Reverse(missing)
  BY <1>1, <1>2, ReverseAppend
<1>8. QED
  BY <1>3, <1>4, <1>6, <1>7
-----------------------------------------------------------------------------
\* What no step of the resolver changes.
Same == UNCHANGED <<fs, candidate, seen>>

\* An error keeps what has been found.
LEMMA FailStep ==
    ASSUME Inv, NEW error, Fail(error), Same
    PROVE  Inv'
<1>1. /\ stage' = "over" /\ result' = Refused(error)
      /\ UNCHANGED <<boundary, working, targets, missing, fs, candidate, seen>>
  BY DEF Fail, Same
<1>2. ~Resolved'
  BY <1>1 DEF Resolved, Refused
<1>3. KeptInv'
  BY <1>1, <1>2 DEF Inv, KeptInv, Ahead, AtOperand, AtMostOnePath
<1>4. AnswerInv'
  BY <1>2 DEF AnswerInv
<1>5. ExactInv'
  <2> SUFFICES ASSUME seen.steady PROVE ExactInv'
    BY <1>1 DEF ExactInv
  <2>1. ~Dangling(fs) /\ BoundaryLed /\ WorkingLed /\ TargetsLed /\ CreationsNew
    BY DEF Inv, ExactInv
  <2>2. ~Dangling(fs)' /\ BoundaryLed' /\ WorkingLed'
    BY <1>1, <2>1 DEF BoundaryLed, WorkingLed
  <2>3. TargetsLed'
    BY <1>1, <2>1 DEF TargetsLed, Resolveds, Destination
  <2>4. CreationsNew'
    <3>1. Len(targets) \in Nat
      BY LenProperties DEF Inv, KeptInv
    <3>2. Checked' \subseteq Checked
      BY <1>1, <3>1 DEF Checked, Resolveds
    <3>3. QED
      BY <1>1, <2>1, <3>2 DEF CreationsNew, Destination
  <2>5. AncestorLed'
    BY <1>1 DEF AncestorLed
  <2>6. QED
    BY <2>2, <2>3, <2>4, <2>5 DEF ExactInv
<1>6. QED
  BY <1>3, <1>4, <1>5 DEF Inv

LEMMA ScopeStep ==
    ASSUME Inv, Scope, Same
    PROVE  Inv'
<1>1. ASSUME NEW error, Fail(error) PROVE Inv'
  BY <1>1, FailStep
<1>2. ASSUME TargetScope(candidate) # "Unsupported", stage' = "boundary",
             UNCHANGED <<boundary, working, targets, missing, result>>
      PROVE  Inv'
  <2>1. stage = "scope" /\ UNCHANGED <<fs, candidate, seen>>
    BY DEF Scope, Same
  <2>2. KeptInv'
    BY <1>2, <2>1 DEF Inv, KeptInv, Ahead, AtOperand, AtMostOnePath, Resolved
  <2>3. AnswerInv'
    BY <1>2, <2>1, <2>2 DEF KeptInv, AnswerInv
  <2>4. ExactInv'
    BY <1>2, <2>1 DEF Inv, ExactInv, BoundaryLed, WorkingLed, TargetsLed, CreationsNew,
                      AncestorLed, Resolveds, Checked, Destination
  <2>5. QED
    BY <2>2, <2>3, <2>4 DEF Inv
<1>3. QED
  BY <1>1, <1>2 DEF Scope

\* What canonicalize finds is one path, where links lead.
LEMMA CanonicalIsLed ==
    ASSUME KeptInv, NEW path \in Paths, Canonical(fs, path) # {}
    PROVE  AtMostOnePath(Canonical(fs, path)) /\ Canonical(fs, path) = Led(fs, path)
<1>1. /\ Canonical(fs, path) \subseteq Led(fs, path)
      /\ Led(fs, path) \subseteq Seq(Names)
      /\ \A p, q \in Led(fs, path) : p = q
  BY LedCovers DEF KeptInv
<1>2. QED
  BY <1>1 DEF AtMostOnePath

LEMMA BoundaryStep ==
    ASSUME Inv, CanonicalizeBoundary, Same
    PROVE  Inv'
<1>1. ASSUME NEW error, Fail(error) PROVE Inv'
  BY <1>1, FailStep
<1>2. ASSUME Canonical(fs, Boundary) # {}, boundary' = Canonical(fs, Boundary),
             stage' = "working", UNCHANGED <<working, targets, missing, result>>
      PROVE  Inv'
  <2>1. stage = "boundary" /\ UNCHANGED <<fs, candidate, seen>>
    BY DEF CanonicalizeBoundary, Same
  <2>2. AtMostOnePath(boundary') /\ boundary' = Led(fs, Boundary) /\ boundary' # {}
    BY <1>2, CanonicalIsLed, ConfigurationAssumption DEF Inv
  <2>3. KeptInv'
    BY <1>2, <2>1, <2>2 DEF Inv, KeptInv, Ahead, AtOperand, AtMostOnePath, Resolved
  <2>4. AnswerInv'
    BY <1>2, <2>1, <2>3 DEF KeptInv, AnswerInv
  <2>5. ExactInv'
    BY <1>2, <2>1, <2>2 DEF Inv, ExactInv, BoundaryLed, WorkingLed, TargetsLed,
                            CreationsNew, AncestorLed, Resolveds, Checked, Destination
  <2>6. QED
    BY <2>3, <2>4, <2>5 DEF Inv
<1>3. QED
  BY <1>1, <1>2 DEF CanonicalizeBoundary

\* A set of one path, as a sequence.
LEMMA OneAsSequence ==
    ASSUME NEW S, NEW p \in S
    PROVE  SetToSeq({p}) \in Seq(S)
<1>1. Cardinality({p}) = 1
  BY FS_Singleton
<1> DEFINE f == [i \in 1..1 |-> p]
<1>2. f \in [1..1 -> {p}] /\ IsInjective(f)
  BY DEF IsInjective
<1>3. SetToSeq({p}) \in [1..1 -> {p}]
  BY <1>1, <1>2 DEF SetToSeq
<1>4. QED
  BY <1>3

LEMMA WorkingStep ==
    ASSUME Inv, CanonicalizeWorking, Same
    PROVE  Inv'
<1>1. ASSUME NEW error, Fail(error) PROVE Inv'
  BY <1>1, FailStep
<1>2. ASSUME Canonical(fs, Working) # {}, working' = Canonical(fs, Working),
             IF TargetScope(candidate) = "Repository"
               THEN /\ targets' = SetToSeq(Canonical(fs, Working))
                    /\ stage' = "conclude"
               ELSE stage' = StageFor(<<>>) /\ UNCHANGED targets,
             UNCHANGED <<boundary, missing, result>>
      PROVE  Inv'
  <2>1. stage = "working" /\ UNCHANGED <<fs, candidate, seen>>
    BY DEF CanonicalizeWorking, Same
  <2>2. AtMostOnePath(working') /\ working' = Led(fs, Working) /\ working' # {}
    BY <1>2, CanonicalIsLed, ConfigurationAssumption DEF Inv
  <2>3. /\ KeptInv /\ targets = <<>> /\ missing = <<>> /\ boundary # {} /\ ~Resolved
        /\ TargetScope(candidate) # "Unsupported" /\ candidate \in Candidates
    BY <2>1 DEF Inv, KeptInv, Ahead
  <2>4. candidate.paths \in Seq(Operands)
    BY <2>3, CandidatesAssumption DEF Operands
  <2>5. /\ AtMostOnePath(boundary)' /\ boundary' # {} /\ IsFileSystem(fs)'
        /\ candidate' \in Candidates /\ missing' = <<>> /\ missing' \in Seq(Names)
        /\ ~Resolved' /\ AtMostOnePath(working)' /\ working' # {}
    BY <1>2, <2>1, <2>2, <2>3 DEF KeptInv, AtMostOnePath, Resolved
  <2>6. AnswerInv'
    BY <2>5 DEF AnswerInv
  <2>7. (BoundaryLed /\ ~Dangling(fs)) \/ ~seen.steady
    BY DEF Inv, ExactInv
  <2>8. seen'.steady => ~Dangling(fs)' /\ BoundaryLed' /\ WorkingLed'
    BY <1>2, <2>1, <2>2, <2>7 DEF BoundaryLed, WorkingLed
  <2>9. CASE TargetScope(candidate) = "Repository"
    <3>1. targets' \in Seq(Seq(Names)) /\ stage' = "conclude"
      <4>1. PICK w \in Seq(Names) : working' = {w}
        BY <2>2 DEF AtMostOnePath
      <4>2. targets' = SetToSeq({w}) /\ stage' = "conclude"
        BY <1>2, <2>9, <4>1
      <4>3. QED
        BY <4>2, OneAsSequence
    <3>2. candidate.paths = <<>>
      BY <2>9 DEF TargetScope
    <3>3. KeptInv'
      BY <2>1, <2>5, <3>1, <3>2 DEF KeptInv, Ahead, AtOperand
    <3>4. TargetsLed' /\ AncestorLed'
      BY <2>1, <3>1, <3>2 DEF TargetsLed, AncestorLed
    <3>5. CreationsNew'
      <4>1. candidate.effect # "Create" \/ \A i \in Checked' : ~(i <= Len(candidate.paths))
        <5>1. Len(candidate.paths) = 0
          BY <3>2
        <5>2. Checked' = 1..Len(targets') /\ Len(targets') \in Nat
          BY <3>1, LenProperties DEF Checked, Resolveds
        <5>3. QED
          BY <5>1, <5>2
      <4>2. QED
        BY <2>1, <4>1 DEF CreationsNew
    <3>6. QED
      BY <2>6, <2>8, <3>3, <3>4, <3>5 DEF Inv, ExactInv
  <2>10. CASE TargetScope(candidate) # "Repository"
    <3>1. targets' = <<>> /\ stage' = StageFor(<<>>) /\ Len(targets') = 0
      BY <1>2, <2>3, <2>10
    <3>2. TargetScope(candidate) \in {"Paths", "WritePaths"}
      BY <2>3, <2>10 DEF TargetScope
    <3>3. /\ Len(candidate.paths) \in Nat
          /\ candidate.paths # <<>> => Len(candidate.paths) # 0
      BY <2>4, LenProperties, EmptySeq
    <3>4. \/ stage' = "conclude" /\ candidate.paths = <<>>
          \/ /\ 0 < Len(candidate.paths)
             /\ \/ stage' = "check" /\ candidate.effect = "Create"
                \/ stage' = "operand" /\ candidate.effect # "Create"
      BY <3>1, <3>3 DEF StageFor, Check
    <3>5. KeptInv'
      <4>1. targets' \in Seq(Seq(Names))
        BY <3>1
      <4>2. QED
        BY <2>1, <2>5, <3>1, <3>2, <3>4, <4>1 DEF KeptInv, Ahead, AtOperand
    <3>6. TargetsLed' /\ AncestorLed'
      BY <3>1, <3>4 DEF TargetsLed, AncestorLed, Resolveds
    <3>7. CreationsNew'
      BY <2>1, <3>1, <3>4 DEF CreationsNew, Checked, Resolveds
    <3>8. QED
      BY <2>6, <2>8, <3>5, <3>6, <3>7 DEF Inv, ExactInv
  <2>11. QED
    BY <2>9, <2>10
<1>3. QED
  BY <1>1, <1>2 DEF CanonicalizeWorking

LEMMA CheckStep ==
    ASSUME Inv, CheckCreation, Same
    PROVE  Inv'
<1>1. ASSUME NEW error, Fail(error) PROVE Inv'
  BY <1>1, FailStep
<1>2. ASSUME Canonical(fs, Joined) = {}, stage' = "operand",
             UNCHANGED <<boundary, working, targets, missing, result>>
      PROVE  Inv'
  <2>1. stage = "check" /\ UNCHANGED <<fs, candidate, seen>>
    BY DEF CheckCreation, Same
  <2>2. KeptInv /\ stage \in AtOperand /\ candidate.effect = "Create"
    BY <2>1 DEF Inv, KeptInv, AtOperand
  <2>3. KeptInv'
    BY <1>2, <2>1, <2>2 DEF KeptInv, Ahead, AtOperand, AtMostOnePath, Resolved
  <2>4. AnswerInv'
    BY <1>2, <2>3 DEF KeptInv, AnswerInv
  <2>5. ASSUME seen.steady PROVE ExactInv'
    <3>1. ExactInv
      BY DEF Inv
    <3>2. ~Dangling(fs) /\ BoundaryLed /\ WorkingLed /\ TargetsLed /\ CreationsNew
      BY <2>5, <3>1 DEF ExactInv
    <3>3. Led(fs, Join(Working, NextOperand)) \cap DOMAIN fs = {}
      <4>1. Led(fs, Join(Working, NextOperand)) \subseteq Led(fs, Joined)
        BY <2>2, <2>5, <3>1, JoinedCovers
      <4>2. Joined \in Seq(Names) /\ IsFileSystem(fs)
        BY <2>2, JoinedType DEF KeptInv
      <4>3. Led(fs, Joined) \cap DOMAIN fs = {}
        BY <1>2, <3>2, <4>2, LedExists
      <4>4. QED
        BY <4>1, <4>3
    <3>4. CreationsNew'
      <4> SUFFICES ASSUME NEW i \in Checked', i <= Len(candidate.paths)
                   PROVE  Destination(i) \cap DOMAIN fs \subseteq seen.appeared
        BY <1>2, <2>1 DEF CreationsNew, Destination
      <4>1. Len(targets) \in Nat
        BY <2>2, LenProperties DEF KeptInv
      <4>2. i \in 1..Len(targets) \/ i = Len(targets) + 1
        BY <1>2, <2>1, <4>1 DEF Checked, Resolveds
      <4>3. CASE i \in 1..Len(targets)
        BY <2>1, <2>2, <3>2, <4>3 DEF CreationsNew, Checked, Resolveds
      <4>4. CASE i = Len(targets) + 1
        BY <3>3, <4>4 DEF Destination, NextOperand
      <4>5. QED
        BY <4>2, <4>3, <4>4
    <3>5. TargetsLed' /\ BoundaryLed' /\ WorkingLed' /\ ~Dangling(fs)' /\ AncestorLed'
      BY <1>2, <2>1, <3>2 DEF TargetsLed, BoundaryLed, WorkingLed, AncestorLed, Resolveds,
                              Destination
    <3>6. QED
      BY <3>4, <3>5 DEF ExactInv
  <2>6. QED
    BY <2>1, <2>3, <2>4, <2>5 DEF Inv, ExactInv
<1>3. QED
  BY <1>1, <1>2 DEF CheckCreation

\* The operand at hand resolved to where links lead it.
LEMMA ResolveStep ==
    ASSUME Inv, stage \in {"operand", "walk"}, NEW path \in Seq(Names), Resolve(path), Same,
           seen.steady => Led(fs, Joined) \subseteq {path}
    PROVE  Inv'
<1>1. /\ targets' = Append(targets, path) /\ stage' = StageFor(targets') /\ missing' = <<>>
      /\ UNCHANGED <<boundary, working, result, fs, candidate, seen>>
  BY DEF Resolve, Same
<1>2. /\ KeptInv /\ stage \in AtOperand /\ targets \in Seq(Seq(Names)) /\ ~Resolved
      /\ candidate \in Candidates
  BY DEF Inv, KeptInv, AtOperand
<1>3. /\ targets' \in Seq(Seq(Names)) /\ Len(targets') = Len(targets) + 1
      /\ \A i \in 1..Len(targets) : targets'[i] = targets[i]
      /\ targets'[Len(targets) + 1] = path /\ Len(targets) \in Nat
  BY <1>1, <1>2, AppendProperties, LenProperties
<1>4. Len(targets) < Len(candidate.paths) /\ Len(candidate.paths) \in Nat
  BY <1>2, CandidatesAssumption, LenProperties DEF KeptInv
<1>5. \/ stage' = "conclude" /\ Len(targets') = Len(candidate.paths)
      \/ /\ Len(targets') < Len(candidate.paths)
         /\ \/ stage' = "check" /\ candidate.effect = "Create"
            \/ stage' = "operand" /\ candidate.effect # "Create"
  BY <1>1, <1>3, <1>4 DEF StageFor, Check
<1>6. ~Resolved' /\ AnswerInv'
  BY <1>1, <1>2 DEF Resolved, AnswerInv
<1>7. KeptInv'
  BY SMTT(60), <1>1, <1>2, <1>3, <1>5, <1>6 DEF KeptInv, Ahead, AtOperand, AtMostOnePath
<1>8. ASSUME seen.steady PROVE ExactInv'
  <2>1. ExactInv /\ ~Dangling(fs) /\ BoundaryLed /\ WorkingLed /\ TargetsLed /\ CreationsNew
    BY <1>8 DEF Inv, ExactInv
  <2>2. ~Dangling(fs)' /\ BoundaryLed' /\ WorkingLed' /\ AncestorLed'
    BY <1>1, <1>5, <2>1 DEF BoundaryLed, WorkingLed, AncestorLed
  <2>3. TargetsLed'
    <3> SUFFICES ASSUME candidate.paths # <<>>, NEW i \in 1..Len(targets'),
                        i <= Len(candidate.paths)
                 PROVE  Destination(i) \subseteq {targets'[i]}
      BY <1>1 DEF TargetsLed, Destination, Resolveds
    <3>1. i \in 1..Len(targets) \/ i = Len(targets) + 1
      BY <1>3
    <3>2. CASE i \in 1..Len(targets)
      BY <1>3, <2>1, <3>2 DEF TargetsLed, Resolveds
    <3>3. CASE i = Len(targets) + 1
      <4>1. Led(fs, Join(Working, NextOperand)) \subseteq {path}
        BY <1>2, <1>8, <2>1, JoinedCovers
      <4>2. QED
        BY <1>3, <3>3, <4>1 DEF Destination, NextOperand
    <3>4. QED
      BY <3>1, <3>2, <3>3
  <2>4. CreationsNew'
    <3> SUFFICES ASSUME candidate.effect = "Create" PROVE CreationsNew'
      BY <1>1 DEF CreationsNew
    <3>1. Checked' = Checked
      BY <1>3, <1>5 DEF Checked, Resolveds
    <3>2. QED
      BY <1>1, <2>1, <3>1 DEF CreationsNew, Destination
  <2>5. QED
    BY <2>2, <2>3, <2>4 DEF ExactInv
<1>9. QED
  BY <1>1, <1>6, <1>7, <1>8 DEF Inv, ExactInv

LEMMA OperandStep ==
    ASSUME Inv, CanonicalizeOperand, Same
    PROVE  Inv'
<1>1. ASSUME NEW error, Fail(error) PROVE Inv'
  BY <1>1, FailStep
<1>2. stage = "operand" /\ UNCHANGED <<fs, candidate, seen>>
  BY DEF CanonicalizeOperand, Same
<1>3. /\ KeptInv /\ stage \in AtOperand /\ IsFileSystem(fs) /\ missing = <<>>
      /\ TargetScope(candidate) \in {"Paths", "WritePaths"}
  BY <1>2 DEF Inv, KeptInv, AtOperand
<1>4. Joined \in Paths
  BY <1>3, JoinedType
<1>5. ASSUME NEW path \in Canonical(fs, Joined), Resolve(path) PROVE Inv'
  <2>1. Canonical(fs, Joined) = Led(fs, Joined) /\ AtMostOnePath(Canonical(fs, Joined))
    BY <1>3, <1>4, <1>5, CanonicalIsLed
  <2>2. path \in Seq(Names) /\ Led(fs, Joined) \subseteq {path}
    BY <1>5, <2>1 DEF AtMostOnePath
  <2>3. QED
    BY <1>2, <1>5, <2>2, ResolveStep
<1>6. ASSUME Canonical(fs, Joined) = {}, TargetScope(candidate) # "Paths", stage' = "walk",
             UNCHANGED <<boundary, working, targets, missing, result>>
      PROVE  Inv'
  <2>1. TargetScope(candidate) = "WritePaths"
    BY <1>3, <1>6
  <2>2. Joined \in Seq(Names) /\ Joined' = Joined
    BY <1>2, <1>3, <1>6, <2>1, JoinedType DEF Joined, NextOperand
  <2>3. Joined # <<>> /\ Len(Joined) \in Nat /\ Len(Joined) # 0 /\ Len(missing) = 0
    BY <1>3, <1>6, <2>2, RootIsThere, EmptySeq, LenProperties
  <2>4. KeptInv'
    BY <1>2, <1>3, <1>6, <2>1, <2>2, <2>3
       DEF KeptInv, Ahead, AtOperand, AtMostOnePath, Resolved
  <2>5. AnswerInv'
    BY <1>6, <2>4 DEF KeptInv, AnswerInv
  <2>6. ASSUME seen.steady PROVE ExactInv'
    <3>1. ~Dangling(fs) /\ BoundaryLed /\ WorkingLed /\ TargetsLed /\ CreationsNew
      BY <2>6 DEF Inv, ExactInv
    <3>2. TargetsLed' /\ BoundaryLed' /\ WorkingLed' /\ ~Dangling(fs)' /\ CreationsNew'
      BY <1>2, <1>6, <3>1 DEF TargetsLed, BoundaryLed, WorkingLed, CreationsNew, Checked,
                              Resolveds, Destination
    <3>3. AncestorLed'
      <4>1. Ancestor' = Joined
        <5>1. Ancestor' = SubSeq(Joined, 1, Len(Joined) - 0)
          BY <1>6, <2>2, <2>3 DEF Ancestor
        <5>2. QED
          BY <2>2, <2>3, <5>1, SubSeqFull
      <4>2. Unled(fs, Joined)
        BY <1>3, <1>6, <2>2, <2>3, <3>1, MissedIsUnled
      <4>3. Led(fs, Joined) \subseteq {q \o Reverse(<<>>) : q \in Led(fs, Joined)}
        <5>1. Reverse(<<>>) = <<>>
          BY ReverseType, EmptySeq
        <5>2. \A q \in Led(fs, Joined) : q \o <<>> = q
          BY <1>3, <1>4, LedCovers, ConcatEmptySeq
        <5>3. QED
          BY <5>1, <5>2
      <4>4. QED
        BY <1>2, <1>3, <1>6, <2>2, <4>1, <4>2, <4>3 DEF AncestorLed
    <3>4. QED
      BY <3>2, <3>3 DEF ExactInv
  <2>7. QED
    BY <1>2, <2>4, <2>5, <2>6 DEF Inv, ExactInv
<1>7. QED
  BY <1>1, <1>5, <1>6 DEF CanonicalizeOperand

LEMMA WalkStep ==
    ASSUME Inv, WalkUp, Same
    PROVE  Inv'
<1>1. ASSUME NEW error, Fail(error) PROVE Inv'
  BY <1>1, FailStep
<1>2. stage = "walk" /\ UNCHANGED <<fs, candidate, seen>>
  BY DEF WalkUp, Same
<1>3. /\ KeptInv /\ stage \in AtOperand /\ IsFileSystem(fs) /\ missing \in Seq(Names)
      /\ TargetScope(candidate) = "WritePaths" /\ ExactInv
  BY <1>2 DEF Inv, KeptInv, AtOperand
<1> DEFINE stripped == Append(missing, Last(Ancestor))
<1>4. /\ Joined \in Seq(Names) /\ Ancestor \in Seq(Names) /\ Ancestor # <<>>
      /\ Last(Ancestor) \in Names /\ Parent(Ancestor) \in Seq(Names)
      /\ stripped \in Seq(Names) /\ Len(stripped) = Len(missing) + 1
      /\ Parent(Ancestor) = SubSeq(Joined, 1, Len(Joined) - (Len(missing) + 1))
      /\ Parent(Ancestor) # <<>> => Len(missing) + 1 < Len(Joined)
  BY <1>2, <1>3, AncestorType
<1>5. Parent(Ancestor) \in Paths
  BY <1>4, NamesArePaths
<1>6. seen.steady => Led(fs, Joined) \subseteq
                       {q \o Reverse(stripped) : q \in Led(fs, Parent(Ancestor))}
  BY <1>2, <1>3, StripOne
<1> HIDE DEF stripped
<1>7. ASSUME NEW path \in Canonical(fs, Parent(Ancestor)),
             Resolve(AppendMissing(path, stripped))
      PROVE  Inv'
  <2>1. /\ Canonical(fs, Parent(Ancestor)) = Led(fs, Parent(Ancestor))
        /\ AtMostOnePath(Canonical(fs, Parent(Ancestor)))
    BY <1>3, <1>5, <1>7, CanonicalIsLed
  <2>2. path \in Seq(Names) /\ Led(fs, Parent(Ancestor)) = {path}
    BY <1>7, <2>1 DEF AtMostOnePath
  <2>3. AppendMissing(path, stripped) = path \o Reverse(stripped)
    BY DEF AppendMissing
  <2>4. AppendMissing(path, stripped) \in Seq(Names)
    BY <1>4, <2>2, <2>3, ReverseType, ConcatProperties
  <2>5. seen.steady => Led(fs, Joined) \subseteq {AppendMissing(path, stripped)}
    BY <1>6, <2>2, <2>3
  <2>6. QED
    BY <1>2, <1>7, <2>4, <2>5, ResolveStep
<1>8. ASSUME Canonical(fs, Parent(Ancestor)) = {}, missing' = stripped,
             UNCHANGED <<stage, boundary, working, targets, result>>
      PROVE  Inv'
  <2>1. Joined' = Joined
    BY <1>2, <1>8 DEF Joined, NextOperand
  <2>2. Parent(Ancestor) # <<>>
    BY <1>3, <1>8, RootIsThere
  <2>3. Len(missing') < Len(Joined') /\ missing' \in Seq(Names)
    BY <1>4, <1>8, <2>1, <2>2
  <2>4. KeptInv'
    BY <1>2, <1>3, <1>8, <2>1, <2>3
       DEF KeptInv, Ahead, AtOperand, AtMostOnePath, Resolved
  <2>5. AnswerInv'
    BY <1>2, <1>8, <2>4 DEF KeptInv, AnswerInv
  <2>6. ASSUME seen.steady PROVE ExactInv'
    <3>1. ~Dangling(fs) /\ BoundaryLed /\ WorkingLed /\ TargetsLed /\ CreationsNew
      BY <1>3, <2>6 DEF ExactInv
    <3>2. TargetsLed' /\ BoundaryLed' /\ WorkingLed' /\ ~Dangling(fs)' /\ CreationsNew'
      BY <1>2, <1>8, <3>1 DEF TargetsLed, BoundaryLed, WorkingLed, CreationsNew, Checked,
                              Resolveds, Destination
    <3>3. AncestorLed'
      <4>1. Ancestor' = Parent(Ancestor)
        BY <1>4, <1>8, <2>1 DEF Ancestor
      <4>2. Unled(fs, Parent(Ancestor))
        BY <1>3, <1>4, <1>8, <2>2, <3>1, MissedIsUnled
      <4>3. QED
        BY <1>2, <1>6, <1>8, <2>1, <2>6, <4>1, <4>2 DEF AncestorLed
    <3>4. QED
      BY <3>2, <3>3 DEF ExactInv
  <2>7. QED
    BY <1>2, <2>4, <2>5, <2>6 DEF Inv, ExactInv
<1>9. QED
  BY <1>1, <1>7, <1>8 DEF WalkUp, Ancestor, stripped

LEMMA ConcludeStep ==
    ASSUME Inv, Conclude, Same
    PROVE  Inv'
<1>1. ASSUME NEW error, Fail(error) PROVE Inv'
  BY <1>1, FailStep
<1>2. ASSUME Unbounded = {}, stage' = "over",
             result' = [status |-> "ok",
                        containment |-> IF \A p \in Range(targets) : Contained(p)
                                          THEN "RepositoryLocal"
                                          ELSE "CrossBoundary",
                        reversibility |-> ReversibilityOf(candidate.effect),
                        targets |-> targets, boundary |-> boundary],
             UNCHANGED <<boundary, working, targets, missing>>
      PROVE  Inv'
  <2>1. stage = "conclude" /\ UNCHANGED <<fs, candidate, seen>>
    BY DEF Conclude, Same
  <2>2. /\ KeptInv /\ targets \in Seq(Seq(Names)) /\ boundary # {}
        /\ candidate.paths # <<>> => Len(targets) = Len(candidate.paths)
    BY <2>1 DEF Inv, KeptInv
  <2>3. KeptInv'
    BY <1>2, <2>1, <2>2 DEF KeptInv, Ahead, AtOperand, AtMostOnePath
  <2>4. \A p \in Range(targets) : BoundError(p) = "None"
    <3>1. PICK b : b = CHOOSE x \in boundary : TRUE
      OBVIOUS
    <3>2. b \in Seq(Names)
      BY <2>2, <3>1 DEF KeptInv, AtMostOnePath
    <3>3. Spelled = Append(targets, b)
      BY <3>1 DEF Spelled
    <3>4. /\ Spelled \in Seq(Seq(Names)) /\ Len(Spelled) = Len(targets) + 1
          /\ Len(targets) \in Nat /\ \A i \in 1..Len(targets) : Spelled[i] = targets[i]
      BY <2>2, <3>2, <3>3, AppendProperties, LenProperties
    <3>5. \A i \in 1..Len(targets) : i \in DOMAIN Spelled
      BY <3>4, LenProperties
    <3>6. \A i \in 1..Len(targets) : BoundError(targets[i]) = "None"
      BY <1>2, <3>4, <3>5 DEF Unbounded
    <3>7. DOMAIN targets = 1..Len(targets)
      BY <2>2, LenProperties
    <3>8. QED
      BY <3>6, <3>7 DEF Range
  <2>5. AnswerInv'
    <3>1. \A p \in Range(targets') : BoundError(p) = "None"
      BY <1>2, <2>4
    <3>2. result'.containment = IF \A p \in Range(targets)' : Contained(p)'
                                  THEN "RepositoryLocal"
                                  ELSE "CrossBoundary"
      BY <1>2 DEF Range, Contained
    <3>3. result'.targets = targets' /\ boundary' # {}
      BY <1>2, <2>2
    <3>4. candidate'.paths # <<>> => Len(targets') = Len(candidate'.paths)
      BY <1>2, <2>1, <2>2
    <3>5. QED
      BY <3>1, <3>2, <3>3, <3>4 DEF AnswerInv
  <2>6. ExactInv'
    BY <1>2, <2>1 DEF Inv, ExactInv, BoundaryLed, WorkingLed, TargetsLed, CreationsNew,
                      AncestorLed, Resolveds, Checked, Destination
  <2>7. QED
    BY <2>3, <2>5, <2>6 DEF Inv
<1>3. QED
  BY <1>1, <1>2 DEF Conclude

\* A second resolution starts as the first did.
LEMMA AgainStep ==
    ASSUME Inv, NEW other \in Candidates, Again(other)
    PROVE  Inv'
<1>1. /\ candidate' = other /\ stage' = "scope" /\ boundary' = {} /\ working' = {}
      /\ targets' = <<>> /\ missing' = <<>> /\ result' = Pending /\ fs' = fs
      /\ seen' = [steady |-> ~Dangling(fs), appeared |-> {}]
  BY DEF Again
<1>2. ~Resolved'
  BY <1>1 DEF Resolved, Pending
<1>3. targets' \in Seq(Seq(Names)) /\ missing' \in Seq(Names) /\ Len(targets') = 0
  BY <1>1
<1>4. KeptInv'
  BY <1>1, <1>2, <1>3 DEF Inv, KeptInv, Ahead, AtOperand, AtMostOnePath
<1>5. AnswerInv'
  BY <1>2 DEF AnswerInv
<1>6. ExactInv'
  <2>1. seen'.steady => ~Dangling(fs)'
    BY <1>1
  <2>2. BoundaryLed' /\ WorkingLed' /\ AncestorLed'
    BY <1>1 DEF BoundaryLed, WorkingLed, AncestorLed
  <2>3. Resolveds' = {} /\ Checked' = {}
    BY <1>1, <1>3 DEF Resolveds, Checked
  <2>4. TargetsLed' /\ CreationsNew'
    BY <2>3 DEF TargetsLed, CreationsNew
  <2>5. QED
    BY <2>1, <2>2, <2>4 DEF ExactInv
<1>7. QED
  BY <1>4, <1>5, <1>6 DEF Inv

\* Whatever others change, what was found stays where links lead while they stay.
LEMMA ChangeStep ==
    ASSUME Inv, NEW new, Change(new), IsFileSystem(new)
    PROVE  Inv'
<1>1. /\ fs' = new /\ UNCHANGED <<candidate, stage, boundary, working, targets, missing, result>>
      /\ seen' = [steady |-> /\ seen.steady /\ ~Dangling(new)
                             /\ LinksOf(new) = LinksOf(fs),
                  appeared |-> seen.appeared \cup (DOMAIN new \ DOMAIN fs)]
  BY DEF Change, resolver
<1>2. Joined' = Joined /\ Ancestor' = Ancestor /\ Resolveds' = Resolveds /\ Checked' = Checked
  BY <1>1 DEF Joined, NextOperand, Ancestor, Resolveds, Checked
<1>3. KeptInv'
  BY <1>1, <1>2 DEF Inv, KeptInv, AtMostOnePath, Resolved
<1>4. AnswerInv'
  BY <1>1 DEF Inv, AnswerInv, Resolved, Contained
<1>5. ASSUME seen'.steady PROVE ExactInv'
  <2>1. /\ seen.steady /\ ~Dangling(new) /\ LinksOf(new) = LinksOf(fs)
        /\ seen'.appeared = seen.appeared \cup (DOMAIN new \ DOMAIN fs)
    BY <1>1, <1>5
  <2>2. KeptInv /\ IsFileSystem(fs)
    BY DEF Inv, KeptInv
  <2>3. /\ \A path \in Paths : Led(new, path) = Led(fs, path)
        /\ \A p : IsLink(new, p) <=> IsLink(fs, p)
    BY <2>1, <2>2, LedDependsOnLinks
  <2>4. BoundaryLed /\ WorkingLed /\ TargetsLed /\ CreationsNew /\ AncestorLed
    BY <2>1 DEF Inv, ExactInv
  <2>5. BoundaryLed' /\ WorkingLed'
    BY <1>1, <2>3, <2>4, ConfigurationAssumption DEF BoundaryLed, WorkingLed
  <2>6. \A i \in 1..Len(candidate.paths) : Join(Working, candidate.paths[i]) \in Paths
    <3> TAKE i \in 1..Len(candidate.paths)
    <3>1. candidate.paths[i] \in Operands
      BY <2>2, CandidatesAssumption, ElementOfSeq DEF KeptInv, Operands
    <3>2. candidate.paths[i].path \in Paths /\ Working \in Paths
      BY <3>1, ConfigurationAssumption DEF Operands
    <3>3. QED
      BY <3>2, ConcatProperties DEF Join, Paths
  <2>7. \A i \in 1..Len(candidate.paths) : Destination(i)' = Destination(i)
    BY <1>1, <2>3, <2>6 DEF Destination
  <2>8. TargetsLed'
    <3> SUFFICES ASSUME candidate.paths # <<>>, NEW i \in Resolveds, i <= Len(candidate.paths)
                 PROVE  Destination(i)' \subseteq {targets[i]}
      BY <1>1, <1>2 DEF TargetsLed
    <3>1. i \in 1..Len(candidate.paths)
      <4>1. Len(targets) \in Nat /\ Len(candidate.paths) \in Nat
        BY <2>2, CandidatesAssumption, LenProperties DEF KeptInv
      <4>2. QED
        BY <4>1 DEF Resolveds
    <3>2. QED
      BY <2>4, <2>7, <3>1 DEF TargetsLed
  <2>9. CreationsNew'
    <3> SUFFICES ASSUME candidate.effect = "Create", NEW i \in Checked, i <= Len(candidate.paths)
                 PROVE  Destination(i)' \cap DOMAIN new \subseteq seen'.appeared
      BY <1>1, <1>2 DEF CreationsNew
    <3>1. i \in 1..Len(candidate.paths)
      <4>1. Len(targets) \in Nat /\ Len(candidate.paths) \in Nat
        BY <2>2, CandidatesAssumption, LenProperties DEF KeptInv
      <4>2. QED
        BY <4>1 DEF Checked, Resolveds
    <3>2. Destination(i) \cap DOMAIN fs \subseteq seen.appeared
      BY <2>4 DEF CreationsNew
    <3>3. QED
      BY <2>1, <2>7, <3>1, <3>2
  <2>10. AncestorLed'
    <3> SUFFICES ASSUME stage = "walk" PROVE AncestorLed'
      BY <1>1 DEF AncestorLed
    <3>1. /\ Joined \in Paths /\ Ancestor \in Paths /\ Parent(Ancestor) \in Paths
      BY <2>2, AncestorType, NamesArePaths
    <3>2. /\ Led(new, Joined) = Led(fs, Joined) /\ Led(new, Ancestor) = Led(fs, Ancestor)
          /\ Led(new, Parent(Ancestor)) = Led(fs, Parent(Ancestor))
      BY <2>3, <3>1
    <3>3. Unled(fs, Ancestor) => Unled(new, Ancestor)
      BY <2>3, <3>2 DEF Unled
    <3>4. /\ Unled(fs, Ancestor)
          /\ Led(fs, Joined) \subseteq {q \o Reverse(missing) : q \in Led(fs, Ancestor)}
      BY <2>4 DEF AncestorLed
    <3>5. QED
      BY <1>1, <1>2, <3>2, <3>3, <3>4 DEF AncestorLed
  <2>11. QED
    BY <1>1, <2>1, <2>5, <2>8, <2>9, <2>10 DEF ExactInv
<1>6. QED
  BY <1>3, <1>4, <1>5 DEF Inv, ExactInv

LEMMA OthersStep ==
    ASSUME Inv, Others
    PROVE  Inv'
<1>1. IsFileSystem(fs)
  BY DEF Inv, KeptInv
<1>2. PICK p \in Places : TakeAway(p) \/ \E node \in Nodes[p] : PutAt(p, node)
  BY DEF Others
<1>3. p \in Seq(Names) \ {<<>>} /\ \A node \in Nodes[p] : IsNode(node)
  BY NodesAssumption DEF Places
<1>4. CASE TakeAway(p)
  <2> DEFINE new == [q \in DOMAIN fs \ {p} |-> fs[q]]
  <2>1. Change(new) /\ WellFormed(new)
    BY <1>4 DEF TakeAway, Change
  <2>2. IsFileSystem(new)
    BY <1>1, <2>1 DEF IsFileSystem
  <2> HIDE DEF new
  <2>3. QED
    BY <2>1, <2>2, ChangeStep
<1>5. ASSUME NEW node \in Nodes[p], PutAt(p, node) PROVE Inv'
  <2> DEFINE new == [q \in DOMAIN fs \cup {p} |-> IF q = p THEN node ELSE fs[q]]
  <2>1. Change(new) /\ WellFormed(new)
    BY <1>5 DEF PutAt, Change
  <2>2. IsFileSystem(new)
    BY <1>1, <1>3, <1>5, <2>1 DEF IsFileSystem
  <2> HIDE DEF new
  <2>3. QED
    BY <2>1, <2>2, ChangeStep
<1>6. QED
  BY <1>2, <1>4, <1>5

LEMMA InitInv == Init => Inv
<1> SUFFICES ASSUME Init PROVE Inv
  OBVIOUS
<1>1. /\ fs \in FileSystems /\ WellFormed(fs) /\ candidate \in Candidates /\ stage = "scope"
      /\ boundary = {} /\ working = {} /\ targets = <<>> /\ missing = <<>>
      /\ result = Pending /\ seen = [steady |-> ~Dangling(fs), appeared |-> {}]
  BY DEF Init
<1>2. IsFileSystem(fs)
  <2>1. PICK f : /\ fs = WithFixed(f) /\ DOMAIN f \subseteq Places
                 /\ \A p \in DOMAIN f : f[p] \in Nodes[p]
    <3>1. PICK f \in UNION {{g \in [there -> UNION Range(Nodes)] :
                               \A p \in there : g[p] \in Nodes[p]} :
                             there \in SUBSET Places} : fs = WithFixed(f)
      BY <1>1 DEF FileSystems
    <3>2. PICK there \in SUBSET Places :
             f \in {g \in [there -> UNION Range(Nodes)] : \A p \in there : g[p] \in Nodes[p]}
      BY <3>1
    <3>3. QED
      BY <3>1, <3>2
  <2>2. /\ DOMAIN fs = DOMAIN f \cup DOMAIN Fixed
        /\ \A p \in DOMAIN fs : fs[p] = IF p \in DOMAIN f THEN f[p] ELSE Fixed[p]
    BY <2>1 DEF WithFixed
  <2>3. DOMAIN fs \subseteq Seq(Names) \ {<<>>} /\ \A p \in DOMAIN fs : IsNode(fs[p])
    BY <2>1, <2>2, NodesAssumption DEF Places
  <2>4. QED
    BY <1>1, <2>3 DEF IsFileSystem
<1>3. ~Resolved /\ targets \in Seq(Seq(Names)) /\ missing \in Seq(Names) /\ Len(targets) = 0
  BY <1>1 DEF Resolved, Pending
<1>4. KeptInv
  BY <1>1, <1>2, <1>3 DEF KeptInv, Ahead, AtOperand, AtMostOnePath
<1>5. AnswerInv
  BY <1>3 DEF AnswerInv
<1>6. ExactInv
  <2>1. seen.steady => ~Dangling(fs)
    BY <1>1
  <2>2. BoundaryLed /\ WorkingLed /\ AncestorLed
    BY <1>1 DEF BoundaryLed, WorkingLed, AncestorLed
  <2>3. Resolveds = {} /\ Checked = {}
    BY <1>1, <1>3 DEF Resolveds, Checked
  <2>4. TargetsLed /\ CreationsNew
    BY <2>3 DEF TargetsLed, CreationsNew
  <2>5. QED
    BY <2>1, <2>2, <2>4 DEF ExactInv
<1>7. QED
  BY <1>4, <1>5, <1>6 DEF Inv

LEMMA NextInv == Inv /\ [Next]_vars => Inv'
<1> SUFFICES ASSUME Inv, [Next]_vars PROVE Inv'
  OBVIOUS
<1>1. CASE Step
  <2>1. Same
    BY <1>1 DEF Step, Same
  <2>2. QED
    BY <1>1, <2>1, ScopeStep, BoundaryStep, WorkingStep, CheckStep, OperandStep, WalkStep,
       ConcludeStep DEF Step
<1>2. CASE \E other \in Candidates : Again(other)
  BY <1>2, AgainStep
<1>3. CASE Others
  BY <1>3, OthersStep
<1>4. CASE UNCHANGED vars
  <2>1. UNCHANGED <<fs, candidate, stage, boundary, working, targets, missing, result, seen>>
    BY <1>4 DEF vars, resolver
  <2>2. Joined' = Joined /\ Ancestor' = Ancestor /\ Resolveds' = Resolveds /\ Checked' = Checked
    BY <2>1 DEF Joined, NextOperand, Ancestor, Resolveds, Checked
  <2>3. KeptInv'
    BY <2>1, <2>2 DEF Inv, KeptInv, AtMostOnePath, Resolved
  <2>4. AnswerInv'
    BY <2>1 DEF Inv, AnswerInv, Resolved, Contained
  <2>5. ExactInv'
    BY <2>1, <2>2 DEF Inv, ExactInv, BoundaryLed, WorkingLed, TargetsLed, CreationsNew,
                      AncestorLed, Destination
  <2>6. QED
    BY <2>3, <2>4, <2>5 DEF Inv
<1>5. QED
  BY <1>1, <1>2, <1>3, <1>4 DEF Next
-----------------------------------------------------------------------------
\* What is touched is where links lead, and that is the target.
LEMMA TouchesAreTargets ==
    ASSUME Inv, Resolved, seen.steady, NEW i \in 1..Len(candidate.paths)
    PROVE  /\ i \in DOMAIN result.targets
           /\ Touches[i] \subseteq Destination(i)
           /\ Destination(i) \subseteq {result.targets[i]}
           /\ Len(result.targets) = Len(candidate.paths)
<1>1. /\ KeptInv /\ candidate \in Candidates /\ IsFileSystem(fs)
      /\ targets \in Seq(Seq(Names)) /\ result.targets = targets
      /\ candidate.paths # <<>> => Len(targets) = Len(candidate.paths)
  BY DEF Inv, KeptInv, AnswerInv
<1>2. candidate.paths \in Seq(Operands)
  BY <1>1, CandidatesAssumption DEF Operands
<1>3. candidate.paths # <<>> /\ candidate.paths[i] \in Operands /\ Len(candidate.paths) \in Nat
  BY <1>2, LenProperties, EmptySeq, ElementOfSeq
<1>4. Len(targets) = Len(candidate.paths) /\ DOMAIN targets = 1..Len(targets)
  BY <1>1, <1>3, LenProperties
<1>5. candidate.paths[i].path \in Paths /\ Working \in Paths
  BY <1>3, ConfigurationAssumption DEF Operands
<1>6. Join(Working, candidate.paths[i]) \in Paths
  BY <1>5, ConcatProperties DEF Join, Paths
<1>7. Touches[i] \subseteq Destination(i)
  <2>1. Touches[i] = Lands(fs, Join(Working, candidate.paths[i]))
    BY DEF Touches
  <2>2. QED
    BY <1>1, <1>6, <2>1, LedCovers DEF Destination
<1>8. Destination(i) \subseteq {targets[i]}
  <2>1. TargetsLed
    BY DEF Inv, ExactInv
  <2>2. i <= Len(candidate.paths) /\ i \in Resolveds
    BY <1>3, <1>4 DEF Resolveds
  <2>3. QED
    BY <1>3, <2>1, <2>2 DEF TargetsLed
<1>9. QED
  BY <1>1, <1>4, <1>7, <1>8

LEMMA InvTargets == Inv => TargetsAreExact
<1> SUFFICES ASSUME Inv, Resolved, seen.steady, candidate.paths # <<>>
             PROVE  TargetsAreExact
  BY DEF TargetsAreExact
<1>1. /\ candidate \in Candidates /\ targets \in Seq(Seq(Names)) /\ result.targets = targets
      /\ Len(targets) = Len(candidate.paths)
      /\ \A p \in Range(targets) : BoundError(p) = "None"
  BY DEF Inv, KeptInv, AnswerInv
<1>2. \A p \in Range(targets) :
         Len(p) < MaxSegments /\ Bytes(p) <= MaxBytes /\ Range(p) \cap Foreign = {}
  <2> TAKE p \in Range(targets)
  <2>1. p \in Seq(Names)
    BY <1>1, RangeOfSeq
  <2>2. Len(p) \in Nat /\ MaxSegments \in Nat
    BY <2>1, LenProperties, LimitsAssumption
  <2>3. ~(Len(p) + 1 > MaxSegments) /\ Bytes(p) <= MaxBytes /\ Range(p) \cap Foreign = {}
    <3>1. BoundError(p) = "None"
      BY <1>1
    <3> HIDE DEF Bytes
    <3>2. QED
      BY <3>1 DEF BoundError
  <2>4. QED
    BY <2>2, <2>3
<1>3. DOMAIN targets = 1..Len(candidate.paths)
  BY <1>1, LenProperties
<1>4. \A i \in DOMAIN targets : Touches[i] \subseteq {targets[i]}
  BY <1>1, <1>3, TouchesAreTargets
<1>5. QED
  BY <1>1, <1>2, <1>4 DEF TargetsAreExact

LEMMA InvContainment == Inv => ContainmentIsExact
<1> SUFFICES ASSUME Inv, Resolved, seen.steady PROVE ContainmentIsExact
  BY DEF ContainmentIsExact
<1> DEFINE here == Canonical(fs, Boundary)
           inside(p) == \E b \in here : Inside(p, b)
<1>1. /\ KeptInv /\ IsFileSystem(fs) /\ boundary # {} /\ boundary = Led(fs, Boundary)
      /\ result.targets = targets
      /\ result.containment = IF \A p \in Range(targets) : Contained(p)
                                THEN "RepositoryLocal"
                                ELSE "CrossBoundary"
      /\ candidate \in Candidates
  BY DEF Inv, KeptInv, AnswerInv, ExactInv, BoundaryLed
<1>2. here \subseteq boundary
  BY <1>1, LedCovers, ConfigurationAssumption
<1>3. here # {} => here = boundary
  BY <1>1, CanonicalIsLed, ConfigurationAssumption
<1>4. ASSUME result.containment = "RepositoryLocal", here # {},
             NEW i \in DOMAIN Touches, NEW p \in Touches[i]
      PROVE  inside(p)
  <2>1. i \in 1..Len(candidate.paths)
    BY <1>4 DEF Touches
  <2>2. i \in DOMAIN targets /\ p = targets[i]
    BY <1>1, <1>4, <2>1, TouchesAreTargets
  <2>3. Contained(p)
    BY <1>1, <1>4, <2>2 DEF Range
  <2>4. QED
    BY <1>3, <1>4, <2>3 DEF Contained
<1>5. ASSUME result.containment # "RepositoryLocal"
      PROVE  \E p \in Range(result.targets) : ~inside(p)
  BY <1>1, <1>2, <1>5 DEF Contained
<1>6. QED
  BY <1>4, <1>5 DEF ContainmentIsExact

LEMMA InvCreates == Inv => CreatesAreNew
<1> SUFFICES ASSUME Inv, Resolved, candidate.effect = "Create", seen.steady,
                    NEW i \in DOMAIN Touches
             PROVE  Touches[i] \cap DOMAIN fs \subseteq seen.appeared
  BY DEF CreatesAreNew
<1>1. i \in 1..Len(candidate.paths)
  BY DEF Touches
<1>2. Touches[i] \subseteq Destination(i) /\ Len(result.targets) = Len(candidate.paths)
  BY <1>1, TouchesAreTargets
<1>3. result.targets = targets /\ targets \in Seq(Seq(Names)) /\ candidate \in Candidates
  BY DEF Inv, KeptInv, AnswerInv
<1>4. Len(targets) \in Nat
  BY <1>3, LenProperties
<1>5. i \in Checked /\ i <= Len(candidate.paths)
  BY <1>1, <1>2, <1>3, <1>4 DEF Checked, Resolveds
<1>6. CreationsNew
  BY DEF Inv, ExactInv
<1>7. QED
  BY <1>2, <1>5, <1>6 DEF CreationsNew

LEMMA InvRevalidation == Inv => RevalidationSeesChanges
<1> SUFFICES ASSUME Inv, Resolved, seen.steady,
                    Unchanged(Fingerprint(recorded.candidate, recorded.result),
                              Fingerprint(candidate, result))
             PROVE  /\ UNION Range(Touches) \subseteq Range(recorded.result.targets)
                    /\ candidate.kind = recorded.candidate.kind
  BY DEF RevalidationSeesChanges
<1> DEFINE Old == recorded.result.targets
           New == result.targets
<1>1. /\ candidate.kind = recorded.candidate.kind
      /\ [t \in Range(Old) |-> Cardinality({i \in DOMAIN Old : Old[i] = t})] =
            [t \in Range(New) |-> Cardinality({i \in DOMAIN New : New[i] = t})]
  BY DEF Unchanged, Fingerprint
<1>2. Range(Old) = Range(New)
  BY <1>1
<1>3. ASSUME NEW i \in DOMAIN Touches, NEW p \in Touches[i] PROVE p \in Range(New)
  <2>1. i \in 1..Len(candidate.paths)
    BY DEF Touches
  <2>2. i \in DOMAIN New /\ p = New[i]
    BY <1>3, <2>1, TouchesAreTargets
  <2>3. QED
    BY <2>2 DEF Range
<1>4. UNION Range(Touches) \subseteq Range(Old)
  BY <1>2, <1>3 DEF Range
<1>5. QED
  BY <1>1, <1>4

\* What was resolved is what the operation touches, of plain and bounded names.
THEOREM ResolvedIsTouched == Spec => []TargetsAreExact
BY InitInv, NextInv, InvTargets, PTL DEF Spec

\* Containment is what the file system says of where the operation lands.
THEOREM ContainmentExact == Spec => []ContainmentIsExact
BY InitInv, NextInv, InvContainment, PTL DEF Spec

\* A creation overwrites nothing that was there before.
THEOREM CreationsAreNew == Spec => []CreatesAreNew
BY InitInv, NextInv, InvCreates, PTL DEF Spec

\* What compares as unchanged is the approved kind of operation on approved paths.
THEOREM ApprovalsHold == Spec => []RevalidationSeesChanges
BY InitInv, NextInv, InvRevalidation, PTL DEF Spec
=============================================================================
