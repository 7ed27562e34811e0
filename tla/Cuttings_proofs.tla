--------------------------- MODULE Cuttings_proofs ---------------------------
(***************************************************************************)
(* What the grammars rest on, for texts and pieces of any length: what     *)
(* joining sequences gives, and that the cuttings of a text are exactly    *)
(* the sequences of legal pieces that join to it.                          *)
(***************************************************************************)
EXTENDS Cuttings, SequenceTheorems, WellFoundedInduction, TLAPS

\* Induction over the natural numbers, as the least number principle.
LEMMA LeastNumber ==
    ASSUME NEW T \in SUBSET Nat, T # {}
    PROVE  \E n \in T : \A m \in T : n <= m
<1>1. \E R : IsWellFoundedOn(R, Nat) /\ \A x, y \in Nat : <<x, y>> \in R <=> x < y
  <2>1. \A x, y \in Nat : <<x, y>> \in OpToRel(<, Nat) <=> x < y
    BY DEF OpToRel
  <2>2. QED
    BY <2>1, NatLessThanWellFounded
<1>2. PICK R : IsWellFoundedOn(R, Nat) /\ \A x, y \in Nat : <<x, y>> \in R <=> x < y
  BY <1>1
<1>3. PICK n \in T : \A m \in T : ~ (<<m, n>> \in R)
  <2>1. IsWellFoundedOn(R, Nat)
    BY <1>2
  <2>2. QED
    BY <2>1, WFMin
<1>4. \A m \in T : ~ (m < n)
  BY <1>2, <1>3
<1>5. QED
  BY <1>4

\* The function that FlattenSeq is defined by: the first i pieces, flat.
FlatFrom(pieces, flat, i) ==
    IF i = 1 THEN pieces[i] ELSE flat[i - 1] \o pieces[i]
Flat(pieces) ==
    LET flat[i \in 1..Len(pieces)] == FlatFrom(pieces, flat, i) IN flat

LEMMA FlatRecursion ==
    ASSUME NEW pieces, Len(pieces) \in Nat, NEW i \in 1..Len(pieces)
    PROVE  Flat(pieces)[i] = FlatFrom(pieces, Flat(pieces), i)
<1> DEFINE I == 1..Len(pieces)
           R == {st \in I \X I : st[1] < st[2]}
           Def(flat, x) == FlatFrom(pieces, flat, x)
           f[x \in I] == Def(f, x)
<1>1. \A x, y \in I : <<x, y>> \in R <=> x < y
  OBVIOUS
<1>2. IsWellFoundedOn(R, I)
  <2> HIDE DEF R
  <2>1. ASSUME NEW T \in SUBSET I, T # {}
        PROVE  \E x \in T : \A y \in T : ~ (<<y, x>> \in R)
    <3>1. T \in SUBSET Nat
      OBVIOUS
    <3>2. PICK n \in T : \A m \in T : n <= m
      BY <2>1, <3>1, LeastNumber
    <3>3. QED
      BY <1>1, <3>1, <3>2
  <2> HIDE DEF I
  <2>2. QED
    BY <2>1, MinWF
<1>3. WFDefOn(R, I, Def)
  <2> SUFFICES ASSUME NEW g, NEW h, NEW x \in I,
                      \A y \in SetLessThan(x, R, I) : g[y] = h[y]
               PROVE  Def(g, x) = Def(h, x)
    BY DEF WFDefOn
  <2>1. x # 1 => x - 1 \in SetLessThan(x, R, I)
    BY DEF SetLessThan
  <2>2. QED
    BY <2>1 DEF FlatFrom
<1>4. Flat(pieces) = f
  BY DEF Flat, FlatFrom
<1>5. OpDefinesFcn(f, I, Def)
  BY DEF OpDefinesFcn
<1> HIDE DEF f, R, Def
<1>6. WFInductiveDefines(f, I, Def)
  BY <1>2, <1>3, <1>5, WFInductiveDef
<1>7. f = [x \in I |-> Def(f, x)]
  BY <1>6 DEF WFInductiveDefines
<1>8. f[i] = Def(f, i)
  BY <1>7
<1>9. QED
  BY <1>4, <1>8 DEF Def

LEMMA FlattenIsFlat ==
    ASSUME NEW pieces, Len(pieces) \in Nat \ {0}
    PROVE  FlattenSeq(pieces) = Flat(pieces)[Len(pieces)]
BY DEF FlattenSeq, Flat, FlatFrom

\* Joining sequences over S gives one.
LEMMA FlatType ==
    ASSUME NEW S, NEW pieces \in Seq(Seq(S)), NEW i \in 1..Len(pieces)
    PROVE  Flat(pieces)[i] \in Seq(S)
<1> DEFINE T == {j \in 1..Len(pieces) : Flat(pieces)[j] \notin Seq(S)}
<1>1. Len(pieces) \in Nat /\ \A j \in 1..Len(pieces) : pieces[j] \in Seq(S)
  BY LenProperties, ElementOfSeq
<1>2. ASSUME T # {} PROVE FALSE
  <2>1. T \in SUBSET Nat
    BY <1>1
  <2> HIDE DEF T
  <2>2. PICK n \in T : \A m \in T : n <= m
    BY <1>2, <2>1, LeastNumber
  <2>3. n \in 1..Len(pieces) /\ Flat(pieces)[n] \notin Seq(S)
    BY <2>2 DEF T
  <2>4. Flat(pieces)[n] = FlatFrom(pieces, Flat(pieces), n)
    BY <1>1, <2>3, FlatRecursion
  <2>5. n # 1
    BY <1>1, <2>3, <2>4 DEF FlatFrom
  <2>6. n - 1 \in 1..Len(pieces) /\ n - 1 \notin T
    BY <1>1, <2>1, <2>2, <2>3, <2>5
  <2>7. Flat(pieces)[n - 1] \in Seq(S)
    BY <2>6 DEF T
  <2>8. Flat(pieces)[n] = Flat(pieces)[n - 1] \o pieces[n]
    BY <2>4, <2>5 DEF FlatFrom
  <2>9. QED
    BY <1>1, <2>3, <2>7, <2>8, ConcatProperties
<1>3. QED
  BY <1>2

\* Another piece does not change what is flat before it.
LEMMA FlatBefore ==
    ASSUME NEW S, NEW pieces \in Seq(S), NEW x \in S, NEW i \in 1..Len(pieces)
    PROVE  Flat(Append(pieces, x))[i] = Flat(pieces)[i]
<1> DEFINE more == Append(pieces, x)
           T == {j \in 1..Len(pieces) : Flat(more)[j] # Flat(pieces)[j]}
<1>1. /\ Len(pieces) \in Nat /\ Len(more) = Len(pieces) + 1
      /\ \A j \in 1..Len(pieces) : more[j] = pieces[j]
  BY LenProperties, AppendProperties
<1> HIDE DEF more
<1>2. ASSUME T # {} PROVE FALSE
  <2>1. T \in SUBSET Nat
    BY <1>1
  <2> HIDE DEF T
  <2>2. PICK n \in T : \A m \in T : n <= m
    BY <1>2, <2>1, LeastNumber
  <2>3. n \in 1..Len(pieces) /\ Flat(more)[n] # Flat(pieces)[n]
    BY <2>2 DEF T
  <2>4. n \in 1..Len(more) /\ Len(more) \in Nat
    BY <1>1, <2>3
  <2>5. /\ Flat(pieces)[n] = FlatFrom(pieces, Flat(pieces), n)
        /\ Flat(more)[n] = FlatFrom(more, Flat(more), n)
    BY <1>1, <2>3, <2>4, FlatRecursion
  <2>6. n # 1
    BY <1>1, <2>3, <2>5 DEF FlatFrom
  <2>7. n - 1 \in 1..Len(pieces) /\ n - 1 \notin T
    BY <1>1, <2>1, <2>2, <2>3, <2>6
  <2>8. Flat(more)[n - 1] = Flat(pieces)[n - 1]
    BY <2>7 DEF T
  <2>9. QED
    BY <1>1, <2>3, <2>5, <2>8 DEF FlatFrom
<1>3. QED
  BY <1>2 DEF more

\* Flattening one more piece appends it.
LEMMA FlattenAppend ==
    ASSUME NEW S, NEW pieces \in Seq(Seq(S)), NEW x \in Seq(S)
    PROVE  FlattenSeq(Append(pieces, x)) = FlattenSeq(pieces) \o x
<1> DEFINE more == Append(pieces, x)
<1>1. /\ Len(pieces) \in Nat /\ Len(more) = Len(pieces) + 1
      /\ more[Len(pieces) + 1] = x
  BY LenProperties, AppendProperties
<1>2. \A i \in 1..Len(pieces) : Flat(more)[i] = Flat(pieces)[i]
  BY FlatBefore
<1> HIDE DEF more
<1>3. FlattenSeq(more) = Flat(more)[Len(more)]
  BY <1>1, FlattenIsFlat
<1>4. Flat(more)[Len(more)] = FlatFrom(more, Flat(more), Len(more))
  BY <1>1, FlatRecursion
<1>5. CASE Len(pieces) = 0
  <2>1. FlattenSeq(pieces) = pieces
    BY <1>5 DEF FlattenSeq
  <2>2. pieces = <<>>
    BY <1>5, EmptySeq
  <2>3. FlattenSeq(more) = x
    BY <1>1, <1>3, <1>4, <1>5 DEF FlatFrom
  <2>4. <<>> \o x = x
    BY ConcatEmptySeq
  <2>5. QED
    BY <2>1, <2>2, <2>3, <2>4 DEF more
<1>6. CASE Len(pieces) # 0
  <2>1. FlattenSeq(pieces) = Flat(pieces)[Len(pieces)]
    BY <1>1, <1>6, FlattenIsFlat
  <2>2. Flat(more)[Len(more)] = Flat(more)[Len(more) - 1] \o more[Len(more)]
    <3>1. Len(more) # 1
      BY <1>1, <1>6
    <3>2. QED
      BY <1>4, <3>1 DEF FlatFrom
  <2>3. Flat(more)[Len(more) - 1] = Flat(pieces)[Len(pieces)]
    BY <1>1, <1>2, <1>6
  <2>4. QED
    BY <1>1, <1>3, <2>1, <2>2, <2>3 DEF more
<1>7. QED
  BY <1>5, <1>6

LEMMA FlattenType ==
    ASSUME NEW S, NEW pieces \in Seq(Seq(S))
    PROVE  FlattenSeq(pieces) \in Seq(S)
<1>1. Len(pieces) \in Nat
  BY LenProperties
<1>2. CASE Len(pieces) = 0
  <2>1. FlattenSeq(pieces) = pieces /\ pieces = <<>>
    BY <1>2, EmptySeq DEF FlattenSeq
  <2>2. QED
    BY <2>1, EmptySeq
<1>3. CASE Len(pieces) # 0
  <2>1. FlattenSeq(pieces) = Flat(pieces)[Len(pieces)] /\ Len(pieces) \in 1..Len(pieces)
    BY <1>1, <1>3, FlattenIsFlat
  <2>2. QED
    BY <2>1, FlatType
<1>4. QED
  BY <1>2, <1>3
LEMMA ThreeInARow ==
    ASSUME NEW S, NEW a \in Seq(S), NEW b \in Seq(S), NEW c \in Seq(S)
    PROVE  (a \o b) \o c = a \o (b \o c)
BY ConcatAssociative, SMTT(30)

Regroups(P) ==
    \A a, c \in Seq(P), x \in P : (a \o <<x>>) \o c = a \o (<<x>> \o c)

LEMMA OneBetween ==
    ASSUME NEW P
    PROVE  Regroups(P)
<1>1. ASSUME NEW a \in Seq(P), NEW c \in Seq(P), NEW x \in P
      PROVE  (a \o <<x>>) \o c = a \o (<<x>> \o c)
  <2> DEFINE one == <<x>>
  <2>1. one \in Seq(P)
    OBVIOUS
  <2> HIDE DEF one
  <2>2. (a \o one) \o c = a \o (one \o c)
    BY <2>1, ThreeInARow
  <2>3. QED
    BY <2>2 DEF one
<1>2. QED
  BY <1>1 DEF Regroups

\* Appending behind a sequence is appending behind what it ends.
LEMMA AppendBehind ==
    ASSUME NEW S, NEW c \in Seq(S), NEW d \in Seq(S), NEW x \in S
    PROVE  c \o Append(d, x) = Append(c \o d, x)
<1>1. <<x>> \in Seq(S) /\ c \o d \in Seq(S)
  BY ConcatProperties
<1>2. Append(d, x) = d \o <<x>> /\ Append(c \o d, x) = (c \o d) \o <<x>>
  BY <1>1, AppendIsConcat
<1>3. (c \o d) \o <<x>> = c \o (d \o <<x>>)
  BY <1>1, ConcatAssociative
<1>4. QED
  BY <1>2, <1>3

-----------------------------------------------------------------------------
\* What CuttingsTo says of the places up to n.
CutFrom(text, Legal, upTo, n) ==
    IF n = 0 THEN {<<>>}
    ELSE UNION {{Append(pieces, SubSeq(text, k + 1, n)) : pieces \in upTo[k]} :
                k \in {k \in 0..(n - 1) : SubSeq(text, k + 1, n) \in Legal}}

EndsBehind(text, Legal, upTo, n, c) ==
    \E k \in 0..(n - 1) :
        /\ SubSeq(text, k + 1, n) \in Legal
        /\ \E before \in upTo[k] : c = Append(before, SubSeq(text, k + 1, n))

LEMMA CutFromMember ==
    ASSUME NEW text, NEW Legal, NEW upTo, NEW n \in Nat \ {0}, NEW c
    PROVE  c \in CutFrom(text, Legal, upTo, n) <=> EndsBehind(text, Legal, upTo, n, c)
<1> DEFINE K == {k \in 0..(n - 1) : SubSeq(text, k + 1, n) \in Legal}
           More(k) == {Append(before, SubSeq(text, k + 1, n)) : before \in upTo[k]}
<1>1. CutFrom(text, Legal, upTo, n) = UNION {More(k) : k \in K}
  BY DEF CutFrom
<1>2. \A k : c \in More(k)
               <=> \E before \in upTo[k] : c = Append(before, SubSeq(text, k + 1, n))
  OBVIOUS
<1> HIDE DEF More
<1>3. c \in UNION {More(k) : k \in K} <=> \E k \in K : c \in More(k)
  OBVIOUS
<1>4. QED
  BY <1>1, <1>2, <1>3 DEF EndsBehind

LEMMA CuttingsRecursion ==
    ASSUME NEW text, Len(text) \in Nat, NEW Legal, NEW n \in 0..Len(text)
    PROVE  CuttingsTo(text, Legal)[n]
             = CutFrom(text, Legal, CuttingsTo(text, Legal), n)
<1> DEFINE I == 0..Len(text)
           R == {st \in I \X I : st[1] < st[2]}
           Def(upTo, x) == CutFrom(text, Legal, upTo, x)
           f[x \in I] == Def(f, x)
<1>1. \A x, y \in I : <<x, y>> \in R <=> x < y
  OBVIOUS
<1>2. IsWellFoundedOn(R, I)
  <2> HIDE DEF R
  <2>1. ASSUME NEW T \in SUBSET I, T # {}
        PROVE  \E x \in T : \A y \in T : ~ (<<y, x>> \in R)
    <3>1. T \in SUBSET Nat
      OBVIOUS
    <3>2. PICK m \in T : \A k \in T : m <= k
      BY <2>1, <3>1, LeastNumber
    <3>3. QED
      BY <1>1, <3>1, <3>2
  <2> HIDE DEF I
  <2>2. QED
    BY <2>1, MinWF
<1>3. WFDefOn(R, I, Def)
  <2> SUFFICES ASSUME NEW g, NEW h, NEW x \in I,
                      \A y \in SetLessThan(x, R, I) : g[y] = h[y]
               PROVE  Def(g, x) = Def(h, x)
    BY DEF WFDefOn
  <2>1. \A k \in 0..(x - 1) : k \in SetLessThan(x, R, I)
    BY DEF SetLessThan
  <2>2. \A k \in 0..(x - 1) : g[k] = h[k]
    BY <2>1
  <2>3. CASE x = 0
    BY <2>3 DEF CutFrom
  <2>4. CASE x # 0
    <3>1. x \in Nat \ {0}
      BY <2>4
    <3>2. ASSUME NEW c
          PROVE  c \in CutFrom(text, Legal, g, x) <=> c \in CutFrom(text, Legal, h, x)
      <4>1. /\ c \in CutFrom(text, Legal, g, x) <=> EndsBehind(text, Legal, g, x, c)
            /\ c \in CutFrom(text, Legal, h, x) <=> EndsBehind(text, Legal, h, x, c)
        BY <3>1, CutFromMember
      <4>2. EndsBehind(text, Legal, g, x, c) <=> EndsBehind(text, Legal, h, x, c)
        BY <2>2 DEF EndsBehind
      <4>3. QED
        BY <4>1, <4>2
    <3>3. QED
      BY <3>2
  <2>5. QED
    BY <2>3, <2>4
<1>4. CuttingsTo(text, Legal) = f
  BY DEF CuttingsTo, CutFrom
<1>5. OpDefinesFcn(f, I, Def)
  BY DEF OpDefinesFcn
<1> HIDE DEF f, R, Def
<1>6. WFInductiveDefines(f, I, Def)
  BY <1>2, <1>3, <1>5, WFInductiveDef
<1>7. f = [x \in I |-> Def(f, x)]
  BY <1>6 DEF WFInductiveDefines
<1>8. f[n] = Def(f, n)
  BY <1>7
<1>9. QED
  BY <1>4, <1>8 DEF Def

\* A sequence of pieces that are not empty is itself not empty when it joins
\* to something, and its last piece is behind what the others join to.
LastOf(S, P, pieces) ==
    \E before \in Seq(P), last \in P :
        /\ pieces = Append(before, last)
        /\ FlattenSeq(before) \in Seq(S)
        /\ FlattenSeq(pieces) = FlattenSeq(before) \o last

LEMMA LastPiece ==
    ASSUME NEW S, NEW P, P \subseteq Seq(S) \ {<<>>}, NEW pieces \in Seq(P),
           pieces # <<>>
    PROVE  LastOf(S, P, pieces)
<1>1. PICK before \in Seq(P), last \in P : pieces = Append(before, last)
  BY SequenceEmptyOrAppend
<1>2. before \in Seq(Seq(S)) /\ last \in Seq(S)
  <2>1. P \subseteq Seq(S)
    OBVIOUS
  <2>2. QED
    BY <2>1, SeqMonotonic
<1>3. QED
  BY ZenonT(60), <1>1, <1>2, FlattenType, FlattenAppend DEF LastOf

\* What two sequences are when they join to the beginning of a text.
LEMMA SplitText ==
    ASSUME NEW S, NEW text \in Seq(S), NEW n \in 0..Len(text),
           NEW a \in Seq(S), NEW b \in Seq(S), a \o b = SubSeq(text, 1, n)
    PROVE  /\ Len(a) + Len(b) = n /\ Len(a) \in 0..n
           /\ a = SubSeq(text, 1, Len(a)) /\ b = SubSeq(text, Len(a) + 1, n)
<1>1. /\ Len(text) \in Nat /\ \A i \in 1..Len(text) : text[i] \in S
      /\ Len(a) \in Nat /\ Len(b) \in Nat
  BY LenProperties, ElementOfSeq
<1>2. /\ Len(SubSeq(text, 1, n)) = n
      /\ \A i \in 1..n : SubSeq(text, 1, n)[i] = text[i]
  BY <1>1, SubSeqProperties
<1>3. /\ Len(a \o b) = Len(a) + Len(b)
      /\ \A i \in 1..(Len(a) + Len(b)) :
            (a \o b)[i] = IF i <= Len(a) THEN a[i] ELSE b[i - Len(a)]
  BY ConcatProperties
<1>4. Len(a) + Len(b) = n /\ Len(a) \in 0..n
  BY <1>1, <1>2, <1>3
<1>5. a = SubSeq(text, 1, Len(a))
  <2>1. /\ SubSeq(text, 1, Len(a)) \in Seq(S) /\ Len(SubSeq(text, 1, Len(a))) = Len(a)
        /\ \A i \in 1..Len(a) : SubSeq(text, 1, Len(a))[i] = text[i]
    BY <1>1, <1>4, SubSeqProperties
  <2>2. \A i \in 1..Len(a) : a[i] = text[i]
    BY <1>1, <1>2, <1>3, <1>4
  <2>3. QED
    BY <2>1, <2>2, SeqEqual
<1>6. b = SubSeq(text, Len(a) + 1, n)
  <2>1. /\ SubSeq(text, Len(a) + 1, n) \in Seq(S)
        /\ Len(SubSeq(text, Len(a) + 1, n)) = Len(b)
        /\ \A i \in 1..Len(b) : SubSeq(text, Len(a) + 1, n)[i] = text[Len(a) + i]
    <3>1. \A i \in (Len(a) + 1)..n : text[i] \in S
      BY <1>1, <1>4
    <3>2. Len(a) + 1 \in Int /\ n \in Int
      BY <1>1
    <3>3. /\ SubSeq(text, Len(a) + 1, n) \in Seq(S)
          /\ Len(SubSeq(text, Len(a) + 1, n)) = IF Len(a) + 1 <= n THEN n - (Len(a) + 1) + 1 ELSE 0
          /\ \A i \in 1..(n - (Len(a) + 1) + 1) :
                SubSeq(text, Len(a) + 1, n)[i] = text[(Len(a) + 1) + i - 1]
      BY <3>1, <3>2, SubSeqProperties
    <3>4. QED
      BY <1>1, <1>4, <3>3
  <2>2. \A i \in 1..Len(b) : b[i] = text[Len(a) + i]
    <3> TAKE i \in 1..Len(b)
    <3>1. Len(a) + i \in 1..n /\ ~ (Len(a) + i <= Len(a)) /\ (Len(a) + i) - Len(a) = i
      BY <1>1, <1>4
    <3>2. (a \o b)[Len(a) + i] = b[i]
      BY <1>3, <1>4, <3>1
    <3>3. QED
      BY <1>2, <3>1, <3>2
  <2>3. QED
    BY <2>1, <2>2, SeqEqual
<1>7. QED
  BY ZenonT(60), <1>4, <1>5, <1>6

\* The cuttings of a text up to a place are the sequences of legal pieces,
\* none empty, that join to the text up to that place.
LEMMA CuttingsAreExact ==
    ASSUME NEW S, NEW text \in Seq(S), NEW Legal \in SUBSET Seq(S),
           NEW n \in 0..Len(text), NEW pieces
    PROVE  pieces \in CuttingsTo(text, Legal)[n]
             <=> /\ pieces \in Seq(Legal \ {<<>>})
                 /\ FlattenSeq(pieces) = SubSeq(text, 1, n)
<1> DEFINE P == Legal \ {<<>>}
           upTo == CuttingsTo(text, Legal)
           Exact(m) == \A c : c \in upTo[m] <=> /\ c \in Seq(P)
                                                /\ FlattenSeq(c) = SubSeq(text, 1, m)
           T == {m \in 0..Len(text) : ~Exact(m)}
<1>1. /\ Len(text) \in Nat /\ \A i \in 1..Len(text) : text[i] \in S
      /\ P \subseteq Seq(S) \ {<<>>}
  BY LenProperties, ElementOfSeq
<1>0. P = Legal \ {<<>>} /\ P \subseteq Seq(S) /\ P \subseteq Legal
  OBVIOUS
<1>2. <<>> \in Seq(P) /\ FlattenSeq(<<>>) = <<>> /\ SubSeq(text, 1, 0) = <<>>
  <2>1. <<>> \in Seq(P) /\ Len(<<>>) = 0
    BY EmptySeq
  <2>2. QED
    BY <2>1, SubSeqEmpty DEF FlattenSeq
<1>3. ASSUME NEW m \in 0..Len(text), \A k \in 0..(m - 1) : Exact(k)
      PROVE  Exact(m)
  <2>1. upTo[m] = CutFrom(text, Legal, upTo, m)
    BY <1>1, CuttingsRecursion
  <2> HIDE DEF upTo, P
  <2>2. ASSUME NEW c, c \in Seq(P), FlattenSeq(c) = SubSeq(text, 1, m), c # <<>>
        PROVE  m # 0 /\ c \in CutFrom(text, Legal, upTo, m)
    <3>1. PICK before \in Seq(P), last \in P :
             /\ c = Append(before, last)
             /\ FlattenSeq(before) \in Seq(S)
             /\ FlattenSeq(c) = FlattenSeq(before) \o last
      <4>1. c \in Seq(P) /\ c # <<>>
        BY <2>2
      <4>2. P \subseteq Seq(S) \ {<<>>}
        BY <1>1
      <4>3. LastOf(S, P, c)
        BY <4>1, <4>2, LastPiece
      <4>4. QED
        BY <4>3 DEF LastOf
    <3> DEFINE at == Len(FlattenSeq(before))
    <3>2. last \in Seq(S) /\ last # <<>> /\ last \in Legal
      BY <1>0, <1>1
    <3>3. /\ at + Len(last) = m /\ at \in 0..m
          /\ FlattenSeq(before) = SubSeq(text, 1, at)
          /\ last = SubSeq(text, at + 1, m)
      <4>1. FlattenSeq(before) \o last = SubSeq(text, 1, m)
        BY <2>2, <3>1
      <4>2. FlattenSeq(before) \in Seq(S)
        BY <3>1
      <4>3. QED
        BY <3>2, <4>1, <4>2, SplitText
    <3>4. Len(last) \in Nat \ {0}
      BY <3>2, EmptySeq
    <3> HIDE DEF at
    <3>5. m # 0 /\ at \in 0..(m - 1)
      BY <3>3, <3>4
    <3>6. before \in upTo[at]
      BY <1>3, <3>3, <3>5
    <3>7. QED
      <4>1. m \in Nat \ {0} /\ SubSeq(text, at + 1, m) \in Legal
        BY <1>1, <3>2, <3>3, <3>5
      <4>2. \E b \in upTo[at] : c = Append(b, SubSeq(text, at + 1, m))
        BY <3>1, <3>3, <3>6
      <4>3. EndsBehind(text, Legal, upTo, m, c)
        BY <3>5, <4>1, <4>2 DEF EndsBehind
      <4>4. QED
        BY <3>5, <4>1, <4>3, CutFromMember
  <2>3. ASSUME NEW c, c \in CutFrom(text, Legal, upTo, m), m # 0
        PROVE  c \in Seq(P) /\ FlattenSeq(c) = SubSeq(text, 1, m)
    <3>0. PICK k \in 0..(m - 1) :
             /\ SubSeq(text, k + 1, m) \in Legal
             /\ \E b \in upTo[k] : c = Append(b, SubSeq(text, k + 1, m))
      <4>1. m \in Nat \ {0}
        BY <1>1, <2>3
      <4>2. EndsBehind(text, Legal, upTo, m, c)
        BY <2>3, <4>1, CutFromMember
      <4>3. QED
        BY <4>2 DEF EndsBehind
    <3>1. PICK before \in upTo[k] : c = Append(before, SubSeq(text, k + 1, m))
      BY <3>0
    <3>2. before \in Seq(P) /\ FlattenSeq(before) = SubSeq(text, 1, k)
      BY <1>3, <3>1
    <3>3. Len(SubSeq(text, k + 1, m)) = m - k /\ m - k # 0
      <4>1. \A i \in (k + 1)..m : text[i] \in S
        BY <1>1
      <4>2. k + 1 \in Int /\ m \in Int /\ k + 1 <= m
        OBVIOUS
      <4>3. Len(SubSeq(text, k + 1, m)) = m - (k + 1) + 1
        BY <4>1, <4>2, SubSeqProperties
      <4>4. QED
        BY <4>3
    <3>4. SubSeq(text, k + 1, m) \in P
      <4>1. SubSeq(text, k + 1, m) # <<>>
        BY <3>3, EmptySeq
      <4>2. QED
        BY <1>0, <3>0, <4>1
    <3>5. before \in Seq(Seq(S)) /\ SubSeq(text, k + 1, m) \in Seq(S)
      BY <1>1, <3>2, <3>4, <1>0, SeqMonotonic
    <3>6. FlattenSeq(c) = SubSeq(text, 1, k) \o SubSeq(text, k + 1, m)
      BY <3>1, <3>2, <3>5, FlattenAppend
    <3>7. SubSeq(text, 1, k) \o SubSeq(text, k + 1, m) = SubSeq(text, 1, m)
      <4>1. 1 \in 1..(Len(text) + 1) /\ k \in (1 - 1)..Len(text) /\ m \in k..Len(text)
        BY <1>1
      <4>2. QED
        BY <4>1, ConcatAdjacentSubSeq
    <3>8. c \in Seq(P)
      BY <3>1, <3>2, <3>4, AppendProperties
    <3>9. QED
      BY <3>6, <3>7, <3>8
  <2>4. CASE m = 0
    <3>1. upTo[m] = {<<>>}
      BY <2>1, <2>4 DEF CutFrom
    <3>2. QED
      BY <1>2, <2>2, <2>4, <3>1
  <2>5. CASE m # 0
    <3>1. ASSUME FlattenSeq(<<>>) = SubSeq(text, 1, m) PROVE FALSE
      <4>1. Len(SubSeq(text, 1, m)) = m
        BY <1>1, SubSeqProperties
      <4>2. Len(<<>>) = 0
        BY EmptySeq
      <4>3. QED
        BY <1>2, <2>5, <3>1, <4>1, <4>2
    <3>2. QED
      BY <2>1, <2>2, <2>3, <2>5, <3>1
  <2>6. QED
    BY <2>4, <2>5
<1>4. ASSUME T # {} PROVE FALSE
  <2> HIDE DEF Exact
  <2>1. T \in SUBSET Nat
    BY <1>1
  <2>2. PICK m \in T : \A k \in T : m <= k
    BY <1>4, <2>1, LeastNumber
  <2>3. m \in 0..Len(text) /\ ~Exact(m)
    BY <2>2
  <2>4. \A k \in 0..(m - 1) : Exact(k)
    <3> TAKE k \in 0..(m - 1)
    <3>1. k \in 0..Len(text) /\ ~ (m <= k)
      BY <1>1, <2>3
    <3>2. k \notin T
      BY <2>2, <3>1
    <3>3. QED
      BY <3>1, <3>2
  <2>5. QED
    BY <1>3, <2>3, <2>4
<1>5. Exact(n)
  BY <1>4
<1>6. QED
  BY <1>5

LEMMA CuttingsOfText ==
    ASSUME NEW S, NEW text \in Seq(S), NEW Legal \in SUBSET Seq(S), NEW pieces
    PROVE  pieces \in CuttingsOf(text, Legal)
             <=> pieces \in Seq(Legal \ {<<>>}) /\ FlattenSeq(pieces) = text
<1>1. Len(text) \in 0..Len(text) /\ SubSeq(text, 1, Len(text)) = text
  BY LenProperties, SubSeqFull
<1>2. QED
  BY <1>1, CuttingsAreExact DEF CuttingsOf

-----------------------------------------------------------------------------
\* The values of pieces, when value is a function of the piece.
Valued(value, P, T) == value \in [P -> Seq(T)]
Mapped(value, pieces) == [k \in DOMAIN pieces |-> value[pieces[k]]]

LEMMA MappedAppend ==
    ASSUME NEW P, NEW T, NEW value, Valued(value, P, T),
           NEW pieces \in Seq(P), NEW piece \in P
    PROVE  /\ Mapped(value, pieces) \in Seq(Seq(T))
           /\ Mapped(value, Append(pieces, piece))
                = Append(Mapped(value, pieces), value[piece])
<1> DEFINE more == Append(pieces, piece)
           values == Mapped(value, pieces)
<1>0. value \in [P -> Seq(T)]
  BY DEF Valued
<1>1. /\ Len(pieces) \in Nat /\ DOMAIN pieces = 1..Len(pieces)
      /\ \A k \in 1..Len(pieces) : pieces[k] \in P
  BY LenProperties, ElementOfSeq
<1>2. /\ Len(more) = Len(pieces) + 1 /\ DOMAIN more = 1..(Len(pieces) + 1)
      /\ \A k \in 1..Len(pieces) : more[k] = pieces[k]
      /\ more[Len(pieces) + 1] = piece
  BY <1>1, AppendProperties, LenProperties
<1>3. values \in Seq(Seq(T)) /\ Len(values) = Len(pieces)
  <2>1. values \in [1..Len(pieces) -> Seq(T)]
    BY <1>0, <1>1 DEF Mapped
  <2>2. QED
    BY <1>1, <2>1 DEF Mapped
<1>4. value[piece] \in Seq(T)
  BY <1>0
<1>5. Mapped(value, more) = Append(values, value[piece])
  <2> HIDE DEF more
  <2>1. Mapped(value, more) \in Seq(Seq(T)) /\ Len(Mapped(value, more)) = Len(pieces) + 1
    <3>1. \A k \in 1..(Len(pieces) + 1) : more[k] \in P
      BY <1>1, <1>2
    <3>2. Mapped(value, more) \in [1..(Len(pieces) + 1) -> Seq(T)]
      BY <1>0, <1>2, <3>1 DEF Mapped
    <3>3. QED
      BY <1>1, <1>2, <3>2 DEF Mapped
  <2> HIDE DEF values
  <2>2. /\ Append(values, value[piece]) \in Seq(Seq(T))
        /\ Len(Append(values, value[piece])) = Len(pieces) + 1
        /\ \A k \in 1..Len(pieces) : Append(values, value[piece])[k] = values[k]
        /\ Append(values, value[piece])[Len(pieces) + 1] = value[piece]
    BY <1>3, <1>4, AppendProperties
  <2>3. ASSUME NEW k \in 1..(Len(pieces) + 1)
        PROVE  Mapped(value, more)[k] = Append(values, value[piece])[k]
    <3>1. Mapped(value, more)[k] = value[more[k]]
      BY <1>2 DEF Mapped
    <3>2. CASE k = Len(pieces) + 1
      BY <1>2, <2>2, <3>1, <3>2
    <3>3. CASE k # Len(pieces) + 1
      <4>1. k \in 1..Len(pieces)
        BY <1>1, <3>3
      <4>2. values[k] = value[pieces[k]]
        BY <1>1, <4>1 DEF values, Mapped
      <4>3. QED
        BY <1>2, <2>2, <3>1, <4>1, <4>2
    <3>4. QED
      BY <3>2, <3>3
  <2>4. QED
    BY <2>1, <2>2, <2>3, SeqEqual
<1>6. QED
  BY <1>3, <1>5

\* One more piece adds its value at the end of what the others spell.
LEMMA MappedFlattens ==
    ASSUME NEW P, NEW T, NEW value, Valued(value, P, T),
           NEW pieces \in Seq(P), NEW piece \in P
    PROVE  /\ FlattenSeq(Mapped(value, pieces)) \in Seq(T)
           /\ FlattenSeq(Mapped(value, Append(pieces, piece)))
                = FlattenSeq(Mapped(value, pieces)) \o value[piece]
<1>1. value[piece] \in Seq(T)
  BY DEF Valued
<1>2. /\ Mapped(value, pieces) \in Seq(Seq(T))
      /\ Mapped(value, Append(pieces, piece)) = Append(Mapped(value, pieces), value[piece])
  BY MappedAppend
<1>3. QED
  BY <1>1, <1>2, FlattenType, FlattenAppend

-----------------------------------------------------------------------------
\* Joining in two goes, and a first piece taken off.
Joins(a, b) == FlattenSeq(a \o b) = FlattenSeq(a) \o FlattenSeq(b)

LEMMA FlattenConcat ==
    ASSUME NEW S, NEW a \in Seq(Seq(S)), NEW b \in Seq(Seq(S))
    PROVE  Joins(a, b)
<1> DEFINE T == {n \in Nat : \E c \in Seq(Seq(S)) : Len(c) = n /\ ~Joins(a, c)}
<1>1. ASSUME T # {} PROVE FALSE
  <2>1. T \in SUBSET Nat
    OBVIOUS
  <2> HIDE DEF T
  <2>2. PICK n \in T : \A m \in T : n <= m
    BY <1>1, <2>1, LeastNumber
  <2>3. PICK c \in Seq(Seq(S)) : Len(c) = n /\ ~Joins(a, c)
    BY <2>2 DEF T
  <2>4. FlattenSeq(a) \in Seq(S)
    BY FlattenType
  <2>5. c # <<>>
    <3>1. FlattenSeq(<<>>) = <<>>
      BY DEF FlattenSeq
    <3>2. a \o <<>> = a /\ FlattenSeq(a) \o <<>> = FlattenSeq(a)
      BY <2>4, ConcatEmptySeq
    <3>3. QED
      BY <2>3, <3>1, <3>2 DEF Joins
  <2>6. PICK d \in Seq(Seq(S)), x \in Seq(S) : c = Append(d, x)
    BY <2>5, SequenceEmptyOrAppend
  <2>7. Len(d) \in Nat /\ Len(c) = Len(d) + 1
    BY <2>6, LenProperties, AppendProperties
  <2>8. Joins(a, d)
    <3>1. Len(d) \notin T
      BY <2>1, <2>2, <2>3, <2>7
    <3>2. QED
      BY <2>7, <3>1 DEF T
  <2>9. a \o c = Append(a \o d, x) /\ a \o d \in Seq(Seq(S))
    <3>1. a \o d \in Seq(Seq(S)) /\ x \in Seq(S)
      BY <2>6, ConcatProperties
    <3>2. a \o Append(d, x) = Append(a \o d, x)
      BY <2>6, AppendBehind
    <3>3. QED
      BY <2>6, <3>1, <3>2
  <2>10. /\ FlattenSeq(a \o c) = FlattenSeq(a \o d) \o x
         /\ FlattenSeq(c) = FlattenSeq(d) \o x
    BY <2>6, <2>9, FlattenAppend
  <2>11. FlattenSeq(d) \in Seq(S)
    BY FlattenType
  <2>12. (FlattenSeq(a) \o FlattenSeq(d)) \o x = FlattenSeq(a) \o (FlattenSeq(d) \o x)
    <3> DEFINE before == FlattenSeq(a)
               behind == FlattenSeq(d)
    <3>1. before \in Seq(S) /\ behind \in Seq(S) /\ x \in Seq(S)
      BY <2>4, <2>6, <2>11
    <3> HIDE DEF before, behind
    <3>2. (before \o behind) \o x = before \o (behind \o x)
      BY SMTT(60), <3>1, ConcatAssociative
    <3>3. QED
      BY <3>2 DEF before, behind
  <2>13. QED
    BY <2>3, <2>8, <2>10, <2>12 DEF Joins
<1>2. Len(b) \in Nat
  BY LenProperties
<1>3. QED
  BY <1>1, <1>2

LEMMA FlattenOne ==
    ASSUME NEW S, NEW x \in Seq(S)
    PROVE  FlattenSeq(<<x>>) = x
<1>1. <<>> \in Seq(Seq(S)) /\ Append(<<>>, x) = <<x>> /\ FlattenSeq(<<>>) = <<>>
  BY DEF FlattenSeq
<1>2. FlattenSeq(Append(<<>>, x)) = <<>> \o x /\ <<>> \o x = x
  BY <1>1, FlattenAppend, ConcatEmptySeq
<1>3. QED
  BY <1>1, <1>2

\* A sequence of pieces that is not empty has a first one.
FirstOf(S, P, pieces) ==
    \E first \in P, rest \in Seq(P) :
        /\ pieces = <<first>> \o rest
        /\ first \in Seq(S) /\ first # <<>>
        /\ FlattenSeq(rest) \in Seq(S)
        /\ FlattenSeq(pieces) = first \o FlattenSeq(rest)

LEMMA FirstPiece ==
    ASSUME NEW S, NEW P, P \subseteq Seq(S) \ {<<>>}, NEW pieces \in Seq(P),
           pieces # <<>>
    PROVE  FirstOf(S, P, pieces)
<1>1. /\ Head(pieces) \in P /\ Tail(pieces) \in Seq(P)
      /\ pieces = <<Head(pieces)>> \o Tail(pieces)
  BY HeadTailProperties
<1>2. PICK first \in P, rest \in Seq(P) : pieces = <<first>> \o rest
  BY ZenonT(60), <1>1
<1>3. rest \in Seq(Seq(S)) /\ first \in Seq(S) /\ <<first>> \in Seq(Seq(S))
  <2>1. P \subseteq Seq(S)
    OBVIOUS
  <2>2. rest \in Seq(Seq(S)) /\ first \in Seq(S)
    BY <2>1, SeqMonotonic
  <2>3. QED
    BY <2>2
<1>4. /\ FlattenSeq(rest) \in Seq(S) /\ FlattenSeq(<<first>>) = first
      /\ Joins(<<first>>, rest)
  BY <1>3, FlattenType, FlattenOne, FlattenConcat
<1>5. QED
  BY <1>2, <1>3, <1>4 DEF FirstOf, Joins

-----------------------------------------------------------------------------
\* A text behind a place of another; sets of pieces none of which begins
\* another; a cutting that begins another.
Found(p, text, n) ==
    n + Len(p) <= Len(text) /\ \A i \in 1..Len(p) : text[n + i] = p[i]
PrefixFree(P) ==
    \A p, q \in P : Len(p) <= Len(q) /\ (\A i \in 1..Len(p) : p[i] = q[i]) => p = q
Begins(P, c, d) ==
    \E e \in Seq(P) : d = c \o e /\ FlattenSeq(d) = FlattenSeq(c) \o FlattenSeq(e)

LEMMA FoundConcat ==
    ASSUME NEW S, NEW text \in Seq(S), NEW n \in Nat, NEW a \in Seq(S), NEW b \in Seq(S)
    PROVE  Found(a \o b, text, n) <=> Found(a, text, n) /\ Found(b, text, n + Len(a))
<1>1. /\ Len(a) \in Nat /\ Len(b) \in Nat /\ Len(text) \in Nat
      /\ Len(a \o b) = Len(a) + Len(b)
      /\ \A i \in 1..(Len(a) + Len(b)) :
            (a \o b)[i] = IF i <= Len(a) THEN a[i] ELSE b[i - Len(a)]
  BY LenProperties, ConcatProperties
<1> DEFINE c == a \o b
<1> HIDE DEF c
<1>2. /\ Len(c) = Len(a) + Len(b)
      /\ \A i \in 1..Len(a) : c[i] = a[i]
      /\ \A i \in 1..Len(b) : c[Len(a) + i] = b[i]
  BY <1>1 DEF c
<1>3. ASSUME Found(c, text, n) PROVE Found(a, text, n) /\ Found(b, text, n + Len(a))
  <2>1. n + (Len(a) + Len(b)) <= Len(text)
    BY <1>2, <1>3 DEF Found
  <2>2. \A i \in 1..Len(a) : text[n + i] = a[i]
    BY <1>1, <1>2, <1>3 DEF Found
  <2>3. ASSUME NEW i \in 1..Len(b) PROVE text[(n + Len(a)) + i] = b[i]
    <3>1. Len(a) + i \in 1..Len(c) /\ (n + Len(a)) + i = n + (Len(a) + i)
      BY <1>1, <1>2
    <3>2. QED
      BY <1>2, <1>3, <3>1 DEF Found
  <2>4. QED
    BY <1>1, <2>1, <2>2, <2>3 DEF Found
<1>4. ASSUME Found(a, text, n), Found(b, text, n + Len(a)) PROVE Found(c, text, n)
  <2>1. n + Len(c) <= Len(text)
    BY <1>1, <1>2, <1>4 DEF Found
  <2>2. ASSUME NEW i \in 1..Len(c) PROVE text[n + i] = c[i]
    <3>1. CASE i <= Len(a)
      <4>1. i \in 1..Len(a)
        BY <1>1, <1>2, <3>1
      <4>2. QED
        BY <1>2, <1>4, <4>1 DEF Found
    <3>2. CASE ~(i <= Len(a))
      <4>1. i - Len(a) \in 1..Len(b) /\ Len(a) + (i - Len(a)) = i
            /\ (n + Len(a)) + (i - Len(a)) = n + i
        BY <1>1, <1>2, <3>2
      <4>2. c[i] = b[i - Len(a)]
        BY <1>2, <4>1
      <4>3. text[(n + Len(a)) + (i - Len(a))] = b[i - Len(a)]
        BY <1>4, <4>1 DEF Found
      <4>4. QED
        BY <4>1, <4>2, <4>3
    <3>3. QED
      BY <3>1, <3>2
  <2>3. QED
    BY <2>1, <2>2 DEF Found
<1>5. QED
  BY <1>3, <1>4 DEF c

\* Of two cuttings that stand at the same place the shorter begins the longer.
LEMMA PrefixCut ==
    ASSUME NEW S, NEW P, P \subseteq Seq(S) \ {<<>>}, PrefixFree(P),
           NEW text \in Seq(S), NEW n \in Nat, NEW c \in Seq(P), NEW d \in Seq(P),
           Found(FlattenSeq(c), text, n), Found(FlattenSeq(d), text, n),
           Len(FlattenSeq(c)) <= Len(FlattenSeq(d))
    PROVE  Begins(P, c, d)
<1> DEFINE Bad(b) == /\ Found(FlattenSeq(b), text, n)
                     /\ Len(FlattenSeq(b)) <= Len(FlattenSeq(d))
                     /\ ~Begins(P, b, d)
           T == {m \in Nat : \E b \in Seq(P) : Len(b) = m /\ Bad(b)}
<1>0. P \subseteq Seq(S) /\ Seq(P) \subseteq Seq(Seq(S))
  <2>1. P \subseteq Seq(S)
    OBVIOUS
  <2>2. QED
    BY <2>1, SeqMonotonic
<1>1. ASSUME T # {} PROVE FALSE
  <2>1. T \in SUBSET Nat
    OBVIOUS
  <2> HIDE DEF T
  <2>2. PICK m \in T : \A k \in T : m <= k
    BY <1>1, <2>1, LeastNumber
  <2>3. PICK b \in Seq(P) : Len(b) = m /\ Bad(b)
    BY <2>2 DEF T
  <2>4. FlattenSeq(d) \in Seq(S) /\ d \in Seq(Seq(S))
    BY <1>0, FlattenType
  <2>5. b # <<>>
    <3>1. FlattenSeq(<<>>) = <<>>
      BY DEF FlattenSeq
    <3>2. <<>> \o d = d /\ <<>> \o FlattenSeq(d) = FlattenSeq(d)
      BY <2>4, ConcatEmptySeq
    <3>3. QED
      BY <2>3, <3>1, <3>2 DEF Begins
  <2>6. LastOf(S, P, b)
    BY <2>5, LastPiece
  <2>7. PICK before \in Seq(P), last \in P :
            /\ b = Append(before, last)
            /\ last \in Seq(S) /\ last # <<>>
            /\ before \in Seq(Seq(S))
            /\ FlattenSeq(before) \in Seq(S)
            /\ FlattenSeq(b) = FlattenSeq(before) \o last
    <3>1. \A q \in P : q # <<>>
      OBVIOUS
    <3>2. QED
      BY <2>6, <1>0, <3>1 DEF LastOf
  <2> DEFINE f == FlattenSeq(before)
  <2>8. /\ Len(f) \in Nat /\ Len(last) \in Nat /\ Len(last) > 0
        /\ Len(FlattenSeq(b)) = Len(f) + Len(last)
        /\ Len(FlattenSeq(d)) \in Nat
    BY <2>4, <2>7, LenProperties, ConcatProperties, EmptySeq
  <2>9. Found(f, text, n) /\ Found(last, text, n + Len(f))
    <3>1. Found(f \o last, text, n)
      BY <2>3, <2>7
    <3>2. QED
      BY <2>7, <3>1, FoundConcat
  <2>10. Begins(P, before, d)
    <3>1. Len(before) \in Nat /\ Len(b) = Len(before) + 1
      BY <2>7, LenProperties, AppendProperties
    <3>2. Len(before) \notin T
      BY <2>1, <2>2, <2>3, <3>1
    <3>3. Len(f) <= Len(FlattenSeq(d))
      BY <2>3, <2>8
    <3>4. QED
      BY <2>9, <3>1, <3>2, <3>3 DEF T
  <2>11. PICK e \in Seq(P) :
             d = before \o e /\ FlattenSeq(d) = f \o FlattenSeq(e)
    BY <2>10 DEF Begins
  <2>12. FlattenSeq(e) \in Seq(S) /\ Len(FlattenSeq(e)) \in Nat
         /\ Len(FlattenSeq(d)) = Len(f) + Len(FlattenSeq(e))
    <3>1. FlattenSeq(e) \in Seq(S)
      BY <1>0, FlattenType
    <3>2. QED
      BY <2>7, <2>11, <3>1, LenProperties, ConcatProperties
  <2>13. e # <<>>
    <3>1. FlattenSeq(<<>>) = <<>> /\ Len(<<>>) = 0
      BY ZenonT(60) DEF FlattenSeq
    <3>2. QED
      BY SMTT(60), <2>3, <2>8, <2>12, <3>1
  <2>14. FirstOf(S, P, e)
    BY <2>13, FirstPiece
  <2>15. PICK first \in P, rest \in Seq(P) :
            /\ e = <<first>> \o rest
            /\ first \in Seq(S) /\ first # <<>>
            /\ FlattenSeq(rest) \in Seq(S)
            /\ FlattenSeq(e) = first \o FlattenSeq(rest)
    BY <2>14 DEF FirstOf
  <2>16. Found(first, text, n + Len(f))
    <3>1. Found(f \o FlattenSeq(e), text, n)
      BY <2>11
    <3>2. Found(FlattenSeq(e), text, n + Len(f))
      BY <2>7, <2>12, <3>1, FoundConcat
    <3>3. Found(first \o FlattenSeq(rest), text, n + Len(f))
      BY <2>15, <3>2
    <3>4. n + Len(f) \in Nat
      BY <2>8
    <3>5. QED
      BY <2>15, <3>3, <3>4, FoundConcat
  <2>17. first = last
    <3>1. Len(first) \in Nat /\ Len(last) \in Nat
      BY <2>7, <2>15, LenProperties
    <3>2. \A i \in 1..Len(first) : text[(n + Len(f)) + i] = first[i]
      BY <2>16 DEF Found
    <3>3. \A i \in 1..Len(last) : text[(n + Len(f)) + i] = last[i]
      BY <2>9 DEF Found
    <3>4. CASE Len(first) <= Len(last)
      <4>1. \A i \in 1..Len(first) : first[i] = last[i]
        BY <3>1, <3>2, <3>3, <3>4
      <4>2. QED
        BY <3>4, <4>1 DEF PrefixFree
    <3>5. CASE Len(last) <= Len(first)
      <4>1. \A i \in 1..Len(last) : last[i] = first[i]
        BY <3>1, <3>2, <3>3, <3>5
      <4>2. QED
        BY <3>5, <4>1 DEF PrefixFree
    <3>6. QED
      BY <3>1, <3>4, <3>5
  <2>18. d = b \o rest
    <3>1. b = before \o <<last>>
      BY <2>7, AppendIsConcat
    <3>2. (before \o <<last>>) \o rest = before \o (<<last>> \o rest)
      <4>1. Regroups(P)
        BY OneBetween
      <4>2. QED
        BY <4>1 DEF Regroups
    <3>3. QED
      BY <2>11, <2>15, <2>17, <3>1, <3>2
  <2>19. FlattenSeq(d) = FlattenSeq(b) \o FlattenSeq(rest)
    <3>1. Joins(b, rest)
      BY <1>0, FlattenConcat
    <3>2. QED
      BY <2>18, <3>1 DEF Joins
  <2>20. QED
    BY <2>3, <2>18, <2>19 DEF Begins
<1>2. Len(c) \in Nat
  BY LenProperties
<1>3. QED
  BY <1>1, <1>2

\* A text has at most one cutting into pieces none of which begins another.
LEMMA UniqueCut ==
    ASSUME NEW S, NEW P, P \subseteq Seq(S) \ {<<>>}, PrefixFree(P),
           NEW c \in Seq(P), NEW d \in Seq(P), FlattenSeq(c) = FlattenSeq(d)
    PROVE  c = d
<1> DEFINE text == FlattenSeq(c)
<1>1. text \in Seq(S)
  <2>1. P \subseteq Seq(S)
    OBVIOUS
  <2>2. c \in Seq(Seq(S))
    BY <2>1, SeqMonotonic
  <2>3. QED
    BY <2>2, FlattenType
<1>2. /\ Len(text) \in Nat /\ Found(text, text, 0)
  BY <1>1, LenProperties DEF Found
<1>3. Begins(P, c, d)
  <2>1. Found(FlattenSeq(d), text, 0) /\ Len(FlattenSeq(c)) <= Len(FlattenSeq(d))
        /\ Found(FlattenSeq(c), text, 0) /\ 0 \in Nat
    BY <1>2
  <2> HIDE DEF text
  <2>2. QED
    BY <1>1, <2>1, PrefixCut
<1>4. PICK e \in Seq(P) : d = c \o e /\ FlattenSeq(d) = FlattenSeq(c) \o FlattenSeq(e)
  BY <1>3 DEF Begins
<1>5. e = <<>>
  <2>1. SUFFICES ASSUME e # <<>> PROVE FALSE
    OBVIOUS
  <2>2. FirstOf(S, P, e)
    BY <2>1, FirstPiece
  <2>3. PICK first \in P, rest \in Seq(P) :
            /\ first \in Seq(S) /\ first # <<>> /\ FlattenSeq(rest) \in Seq(S)
            /\ FlattenSeq(e) = first \o FlattenSeq(rest)
    BY <2>2 DEF FirstOf
  <2>4. FlattenSeq(e) \in Seq(S) /\ Len(FlattenSeq(e)) > 0
    BY <2>3, ConcatProperties, LenProperties, EmptySeq
  <2>5. Len(text) = Len(text) + Len(FlattenSeq(e))
    BY <1>1, <1>4, <2>4, ConcatProperties
  <2>6. QED
    BY <1>2, <2>4, <2>5, LenProperties
<1>6. QED
  BY <1>4, <1>5, ConcatEmptySeq
=============================================================================
