--------------------------- MODULE Envelope_proofs ---------------------------
(***************************************************************************)
(* What the adapter accepts, for envelopes of any length and nesting, and  *)
(* what it decodes their strings to.                                       *)
(*                                                                         *)
(* The grammar says of a whole text what its values are, from the inside   *)
(* out; the reader goes from the left to the right and keeps a stack.  The *)
(* invariant is what the stack stands for: the containers that are open,   *)
(* each in the last part of the one below, whose parts before that are     *)
(* whole and have been counted and named.  A token either goes on with the *)
(* last part of the container on top, or completes it, or begins the next  *)
(* one, or moves between two containers; below the top nothing changes.    *)
(*                                                                         *)
(* The strings are a second machine with a second grammar, of the pieces   *)
(* a text can be cut into; its invariant is at the end.                    *)
(***************************************************************************)
EXTENDS CodexEnvelope, JsonString, Cuttings_proofs, FiniteSetTheorems

\* A stretch lies between two cuts with none in between.
LEMMA StretchesAre ==
    ASSUME NEW i \in Nat, NEW j \in Nat, NEW C \in SUBSET (i..j), i <= j + 1
    PROVE  /\ \A m \in Stretches(i, j, C) :
                /\ m = <<m[1], m[2]>> /\ m[1] \in i..(j + 1) /\ m[2] \in Int
                /\ i - 1 <= m[2] /\ m[2] <= j /\ m[1] <= m[2] + 1
                /\ m[1] = i \/ m[1] - 1 \in C
                /\ m[2] = j \/ m[2] + 1 \in C
                /\ \A k \in C : k < m[1] \/ k > m[2]
           /\ \A b, e \in Int :
                /\ b <= e + 1
                /\ b = i \/ b - 1 \in C
                /\ e = j \/ e + 1 \in C
                /\ \A k \in C : k < b \/ k > e
                => <<b, e>> \in Stretches(i, j, C)
<1> DEFINE cuts == {i - 1, j + 1} \cup C
<1>1. /\ \A k \in cuts : k \in Int /\ i - 1 <= k /\ k <= j + 1
      /\ \A k \in C : i <= k /\ k <= j /\ k \in Int
  OBVIOUS
<1>2. ASSUME NEW m \in Stretches(i, j, C)
      PROVE  /\ m = <<m[1], m[2]>> /\ m[1] \in i..(j + 1) /\ m[2] \in Int
             /\ i - 1 <= m[2] /\ m[2] <= j /\ m[1] <= m[2] + 1
             /\ m[1] = i \/ m[1] - 1 \in C
             /\ m[2] = j \/ m[2] + 1 \in C
             /\ \A k \in C : k < m[1] \/ k > m[2]
  <2>1. PICK a \in cuts, b \in cuts : /\ m = <<a + 1, b - 1>> /\ a < b
                                      /\ \A k \in cuts : k <= a \/ k >= b
    BY <1>2 DEF Stretches
  <2>2. m[1] = a + 1 /\ m[2] = b - 1 /\ a \in Int /\ b \in Int
    BY <1>1, <2>1
  <2>3. a # j + 1 /\ b # i - 1
    BY <1>1, <2>1
  <2>4. a = i - 1 \/ a \in C
    BY <2>1, <2>3
  <2>5. b = j + 1 \/ b \in C
    BY <2>1, <2>3
  <2>6. i - 1 <= a /\ a <= j + 1 /\ i - 1 <= b /\ b <= j + 1
    BY <1>1, <2>1
  <2>7. \A k \in C : k < a + 1 \/ k > b - 1
    BY <1>1, <2>1, <2>2
  <2>8. a + 1 - 1 = a /\ b - 1 + 1 = b
    BY <2>2
  <2>9. m[1] \in i..(j + 1) /\ i - 1 <= m[2] /\ m[2] <= j /\ m[1] <= m[2] + 1 /\ m[2] \in Int
    BY <2>1, <2>2, <2>3, <2>6
  <2>10. m[1] = i \/ m[1] - 1 \in C
    BY <2>2, <2>4, <2>8
  <2>11. m[2] = j \/ m[2] + 1 \in C
    BY <2>2, <2>5, <2>8
  <2> QED
    BY <2>1, <2>2, <2>7, <2>9, <2>10, <2>11
<1>3. ASSUME NEW b \in Int, NEW e \in Int, b <= e + 1,
             b = i \/ b - 1 \in C, e = j \/ e + 1 \in C,
             \A k \in C : k < b \/ k > e
      PROVE  <<b, e>> \in Stretches(i, j, C)
  <2>1. b - 1 \in cuts /\ e + 1 \in cuts /\ b - 1 < e + 1
    BY <1>3
  <2>2. \A k \in cuts : k <= b - 1 \/ k >= e + 1
    <3>1. i - 1 <= b - 1 /\ j + 1 >= e + 1
      BY <1>1, <1>3
    <3> QED
      BY <1>1, <1>3, <3>1
  <2>3. <<b - 1 + 1, e + 1 - 1>> = <<b, e>>
    BY <1>3
  <2>4. <<b - 1, e + 1>> \in {c \in cuts \X cuts :
                c[1] < c[2] /\ \A k \in cuts : k <= c[1] \/ k >= c[2]}
    BY <2>1, <2>2
  <2> QED
    BY <2>3, <2>4 DEF Stretches
<1> QED
  BY <1>2, <1>3
-----------------------------------------------------------------------------
\* The cuts of what a container encloses.
LEMMA CutsAre ==
    ASSUME NEW s \in Seq(Tokens), NEW m \in Pairs(s), m[1] < m[2],
           NEW members \in Cuts(s, m)
    PROVE  \A n \in members :
             /\ n = <<n[1], n[2]>> /\ n[1] \in Nat /\ n[2] \in Nat
             /\ m[1] < n[1] /\ n[2] < m[2] /\ n[1] <= n[2] + 1
<1>1. m[1] \in 1..Len(s) /\ m[2] \in 0..Len(s) /\ Len(s) \in Nat
  BY DEF Pairs
<1> DEFINE i == m[1] + 1
           j == m[2] - 1
<1>2. PICK C \in CommasIn(s, i, j) : members = Stretches(i, j, C)
  BY DEF Cuts
<1>3. C \in SUBSET (i..j)
  BY <1>2 DEF CommasIn
<1>4. i \in Nat /\ j \in Nat /\ i <= j + 1 /\ i - 1 = m[1] /\ j < m[2]
  BY SMTT(60), <1>1
<1> HIDE DEF i, j
<1>5. \A n \in members :
                /\ n = <<n[1], n[2]>> /\ n[1] \in i..(j + 1) /\ n[2] \in Int
                /\ i - 1 <= n[2] /\ n[2] <= j /\ n[1] <= n[2] + 1
  BY <1>2, <1>3, <1>4, StretchesAre
<1> QED
  BY <1>1, <1>4, <1>5

\* IsValue is what its definition says: inside a container the stretches are
\* shorter, so the function of its recursive definition exists.
LEMMA ValueRecursion ==
    ASSUME NEW s \in Seq(Tokens), NEW m \in Pairs(s)
    PROVE  IsValue(s)[m] <=> ValueIn(s, IsValue(s), m)
<1> DEFINE width(x) == x[2] + Len(s) - x[1]
           R == {xy \in Pairs(s) \X Pairs(s) : width(xy[1]) < width(xy[2])}
           Def(value, x) == ValueIn(s, value, x)
           f[x \in Pairs(s)] == Def(f, x)
<1>1. \A x \in Pairs(s) : /\ x = <<x[1], x[2]>> /\ x[1] \in 1..Len(s) /\ x[2] \in 0..Len(s)
                          /\ Len(s) \in Nat /\ width(x) \in Nat
  BY DEF Pairs
<1>2. \A x, y \in Pairs(s) : <<x, y>> \in R <=> width(x) < width(y)
  OBVIOUS
<1>3. IsWellFoundedOn(R, Pairs(s))
  <2> SUFFICES ASSUME NEW T \in SUBSET Pairs(s), T # {}
               PROVE  \E x \in T : \A y \in T : ~ (<<y, x>> \in R)
    BY MinWF
  <2> DEFINE W == {width(x) : x \in T}
  <2>1. W \in SUBSET Nat /\ W # {}
    BY <1>1
  <2>2. PICK w \in W : \A v \in W : w <= v
    BY <2>1, LeastNumber
  <2>3. PICK x \in T : w = width(x)
    BY <2>2
  <2>4. \A y \in T : ~ (width(y) < width(x))
    <3> TAKE y \in T
    <3>1. width(y) \in W /\ width(x) \in Nat /\ width(y) \in Nat
      BY <1>1
    <3>2. width(x) <= width(y)
      BY <2>2, <2>3, <3>1
    <3> QED
      BY ONLY <3>1, <3>2
  <2> QED
    BY <1>2, <2>3, <2>4
<1>4. WFDefOn(R, Pairs(s), Def)
  <2> SUFFICES ASSUME NEW g, NEW h, NEW x \in Pairs(s),
                      \A y \in SetLessThan(x, R, Pairs(s)) : g[y] = h[y]
               PROVE  Def(g, x) = Def(h, x)
    BY DEF WFDefOn
  <2>1. \A y \in Pairs(s) : width(y) < width(x) => g[y] = h[y]
    BY <1>2 DEF SetLessThan
  <2>2. ASSUME NEW members \in Cuts(s, x), x[1] < x[2], NEW n \in members
        PROVE  /\ n[2] >= n[1] + 2 => g[<<n[1] + 2, n[2]>>] = h[<<n[1] + 2, n[2]>>]
               /\ n[1] <= n[2] => g[<<n[1], n[2]>>] = h[<<n[1], n[2]>>]
    <3>1. /\ n[1] \in Nat /\ n[2] \in Nat /\ x[1] < n[1] /\ n[2] < x[2]
          /\ x[1] \in 1..Len(s) /\ x[2] \in 0..Len(s) /\ Len(s) \in Nat
      BY <1>1, <2>2, CutsAre
    <3>2. n[2] >= n[1] + 2 =>
              <<n[1] + 2, n[2]>> \in Pairs(s) /\ width(<<n[1] + 2, n[2]>>) < width(x)
      BY SMTT(60), <3>1 DEF Pairs
    <3>3. n[1] <= n[2] =>
              <<n[1], n[2]>> \in Pairs(s) /\ width(<<n[1], n[2]>>) < width(x)
      BY SMTT(60), <3>1 DEF Pairs
    <3> QED
      BY <2>1, <3>2, <3>3
  <2>3. ValueIn(s, g, x) <=> ValueIn(s, h, x)
    <3>1. ASSUME Encloses(s, x, "{", "}") \/ Encloses(s, x, "[", "]")
          PROVE  x[1] < x[2]
      BY <3>1 DEF Encloses
    <3>2. ASSUME NEW members \in Cuts(s, x), x[1] < x[2],
                 \A n \in members : n[2] >= n[1] + 2
          PROVE  (\A n \in members : g[<<n[1] + 2, n[2]>>])
                    <=> (\A n \in members : h[<<n[1] + 2, n[2]>>])
      BY <2>2, <3>2
    <3>3. ASSUME NEW members \in Cuts(s, x), x[1] < x[2],
                 \A n \in members : n[1] <= n[2]
          PROVE  (\A n \in members : g[<<n[1], n[2]>>])
                    <=> (\A n \in members : h[<<n[1], n[2]>>])
      BY <2>2, <3>3
    <3>4. CASE Encloses(s, x, "{", "}")
      BY <3>1, <3>2, <3>3, <3>4 DEF ValueIn
    <3>5. CASE ~Encloses(s, x, "{", "}")
      BY <3>1, <3>2, <3>3, <3>5 DEF ValueIn
    <3> QED
      BY <3>4, <3>5
  <2> QED
    BY <2>3 DEF ValueIn
<1>5. IsValue(s) = f
  BY DEF IsValue
<1>6. OpDefinesFcn(f, Pairs(s), Def)
  BY DEF OpDefinesFcn
<1> HIDE DEF f, R, Def
<1>7. WFInductiveDefines(f, Pairs(s), Def)
  BY <1>3, <1>4, <1>6, WFInductiveDef
<1>8. f = [x \in Pairs(s) |-> Def(f, x)]
  BY <1>7 DEF WFInductiveDefines
<1>9. f[m] = Def(f, m)
  BY <1>8
<1> QED
  BY <1>5, <1>9 DEF Def

\* What is a value stays one when the text goes on.
LEMMA ValueStays ==
    ASSUME NEW s \in Seq(Tokens), NEW t \in Tokens, NEW m \in Pairs(s), IsValue(s)[m]
    PROVE  m \in Pairs(Append(s, t)) /\ IsValue(Append(s, t))[m]
<1> DEFINE S == Append(s, t)
           width(x) == x[2] + Len(s) - x[1]
<1>1. /\ S \in Seq(Tokens) /\ Len(s) \in Nat /\ Len(S) = Len(s) + 1
      /\ \A k \in 1..Len(s) : S[k] = s[k]
  OBVIOUS
<1> HIDE DEF S
<1>2. \A x \in Pairs(s) : /\ x = <<x[1], x[2]>> /\ x[1] \in 1..Len(s) /\ x[2] \in 0..Len(s)
                          /\ width(x) \in Nat /\ x \in Pairs(S)
  BY <1>1 DEF Pairs
<1>3. SUFFICES ASSUME {x \in Pairs(s) : IsValue(s)[x] /\ ~IsValue(S)[x]} # {} PROVE FALSE
  BY <1>2 DEF S
<1> DEFINE W == {width(x) : x \in {x \in Pairs(s) : IsValue(s)[x] /\ ~IsValue(S)[x]}}
<1>4. PICK w \in W : \A v \in W : w <= v
  <2>1. W \in SUBSET Nat /\ W # {}
    BY <1>2, <1>3
  <2> QED
    BY <2>1, LeastNumber
<1>5. PICK x \in Pairs(s) : w = width(x) /\ IsValue(s)[x] /\ ~IsValue(S)[x]
  BY <1>4
<1>6. ASSUME NEW y \in Pairs(s), width(y) < width(x), IsValue(s)[y]
      PROVE  IsValue(S)[y]
  <2> SUFFICES ASSUME ~IsValue(S)[y] PROVE FALSE
    OBVIOUS
  <2>1. width(y) \in W
    BY <1>6
  <2>2. width(x) <= width(y) /\ width(x) \in Nat /\ width(y) \in Nat
    BY <1>2, <1>4, <1>5, <2>1
  <2> QED
    BY ONLY <1>6, <2>2
<1>7. /\ x[1] \in 1..Len(s) /\ x[2] \in 0..Len(s) /\ x \in Pairs(S)
      /\ x[1] < x[2] => x[2] \in 1..Len(s)
      /\ S[x[1]] = s[x[1]] /\ (x[1] < x[2] => S[x[2]] = s[x[2]])
  <2>1. x[1] < x[2] => x[2] \in 1..Len(s)
    BY SMTT(60), <1>1, <1>2
  <2> QED
    BY <1>1, <1>2, <2>1
<1> HIDE DEF W
<1>8. /\ IsScalar(s, x) => IsScalar(S, x)
      /\ \A o, c : Encloses(s, x, o, c) => x[1] < x[2] /\ Encloses(S, x, o, c)
  BY <1>7 DEF IsScalar, Encloses
<1>9. x[1] < x[2] => Cuts(s, x) = Cuts(S, x)
  <2> SUFFICES ASSUME x[1] < x[2]
               PROVE  CommasIn(s, x[1] + 1, x[2] - 1) = CommasIn(S, x[1] + 1, x[2] - 1)
    BY DEF Cuts
  <2>1. \A k \in (x[1] + 1)..(x[2] - 1) : k \in 1..Len(s)
    BY <1>1, <1>7
  <2>2. \A k \in (x[1] + 1)..(x[2] - 1) : s[k].is = "," <=> S[k].is = ","
    BY <1>1, <2>1
  <2>3. {k \in (x[1] + 1)..(x[2] - 1) : s[k].is = ","}
          = {k \in (x[1] + 1)..(x[2] - 1) : S[k].is = ","}
    BY <2>2
  <2> QED
    BY <2>3 DEF CommasIn
<1>10. ValueIn(s, IsValue(s), x)
  BY <1>5, ValueRecursion
<1>11. \A members \in Cuts(s, x) : x[1] < x[2] =>
         \A n \in members :
           /\ n[1] \in Nat /\ n[2] \in Nat /\ x[1] < n[1] /\ n[2] < x[2]
  BY CutsAre
<1>12. ASSUME NEW members \in Cuts(s, x), x[1] < x[2],
              \A n \in members : n[2] >= n[1] + 2
       PROVE  /\ Named(s, members) => Named(S, members)
              /\ (\A n \in members : IsValue(s)[<<n[1] + 2, n[2]>>])
                    => (\A n \in members : IsValue(S)[<<n[1] + 2, n[2]>>])
  <2>1. \A n \in members : n[1] \in 1..Len(s) /\ n[1] + 1 \in 1..Len(s)
    BY SMTT(60), <1>1, <1>7, <1>11, <1>12
  <2>2. \A n \in members : S[n[1]] = s[n[1]] /\ S[n[1] + 1] = s[n[1] + 1]
    BY <1>1, <2>1
  <2>3. Named(s, members) => Named(S, members)
    BY <2>2 DEF Named
  <2>4. \A n \in members : /\ <<n[1] + 2, n[2]>> \in Pairs(s)
                           /\ width(<<n[1] + 2, n[2]>>) < width(x)
    BY SMTT(60), <1>1, <1>7, <1>11, <1>12 DEF Pairs
  <2> QED
    BY <1>6, <2>3, <2>4
<1>13. ASSUME NEW members \in Cuts(s, x), x[1] < x[2],
              \A n \in members : n[1] <= n[2],
              \A n \in members : IsValue(s)[<<n[1], n[2]>>]
       PROVE  \A n \in members : IsValue(S)[<<n[1], n[2]>>]
  <2>1. \A n \in members : /\ <<n[1], n[2]>> \in Pairs(s)
                           /\ width(<<n[1], n[2]>>) < width(x)
    <3> TAKE n \in members
    <3>1. /\ n[1] \in Nat /\ n[2] \in Nat /\ x[1] < n[1] /\ n[2] < x[2] /\ n[1] <= n[2]
          /\ x[1] \in 1..Len(s) /\ x[2] \in 0..Len(s) /\ Len(s) \in Nat
      BY <1>1, <1>7, <1>11, <1>13
    <3> QED
      BY SMTT(60), <3>1 DEF Pairs
  <2> QED
    BY <1>6, <1>13, <2>1
<1>14. ValueIn(S, IsValue(S), x)
  <2>1. CASE IsScalar(s, x)
    BY <1>8, <2>1 DEF ValueIn
  <2>2. CASE /\ Encloses(s, x, "{", "}")
             /\ \/ x[2] = x[1] + 1
                \/ \E members \in Cuts(s, x) :
                      /\ \A n \in members : n[2] >= n[1] + 2
                      /\ Named(s, members)
                      /\ Cardinality(members) <= MaxMembers
                      /\ \A n \in members : IsValue(s)[<<n[1] + 2, n[2]>>]
    <3>1. CASE x[2] = x[1] + 1
      BY <1>8, <2>2, <3>1 DEF ValueIn
    <3>2. CASE x[2] # x[1] + 1
      <4>1. PICK members \in Cuts(s, x) :
               /\ \A n \in members : n[2] >= n[1] + 2
               /\ Named(s, members)
               /\ Cardinality(members) <= MaxMembers
               /\ \A n \in members : IsValue(s)[<<n[1] + 2, n[2]>>]
        BY <2>2, <3>2
      <4>2. x[1] < x[2] /\ Encloses(S, x, "{", "}")
        BY <1>8, <2>2
      <4>3. members \in Cuts(S, x) /\ Named(S, members)
            /\ \A n \in members : IsValue(S)[<<n[1] + 2, n[2]>>]
        BY <1>9, <1>12, <4>1, <4>2
      <4> QED
        BY <4>1, <4>2, <4>3 DEF ValueIn
    <3> QED
      BY <3>1, <3>2
  <2>3. CASE /\ Encloses(s, x, "[", "]")
             /\ \/ x[2] = x[1] + 1
                \/ \E elements \in Cuts(s, x) :
                      /\ \A n \in elements : n[1] <= n[2]
                      /\ Cardinality(elements) <= MaxElements
                      /\ \A n \in elements : IsValue(s)[<<n[1], n[2]>>]
    <3>1. CASE x[2] = x[1] + 1
      BY <1>8, <2>3, <3>1 DEF ValueIn
    <3>2. CASE x[2] # x[1] + 1
      <4>1. PICK elements \in Cuts(s, x) :
               /\ \A n \in elements : n[1] <= n[2]
               /\ Cardinality(elements) <= MaxElements
               /\ \A n \in elements : IsValue(s)[<<n[1], n[2]>>]
        BY <2>3, <3>2
      <4>2. x[1] < x[2] /\ Encloses(S, x, "[", "]")
        BY <1>8, <2>3
      <4>3. elements \in Cuts(S, x) /\ \A n \in elements : IsValue(S)[<<n[1], n[2]>>]
        BY <1>9, <1>13, <4>1, <4>2
      <4> QED
        BY <4>1, <4>2, <4>3 DEF ValueIn
    <3> QED
      BY <3>1, <3>2
  <2> QED
    BY <1>10, <2>1, <2>2, <2>3 DEF ValueIn
<1> QED
  BY <1>1, <1>5, <1>7, <1>14, ValueRecursion
-----------------------------------------------------------------------------
\* One more token.
LEMMA TextGrows ==
    ASSUME NEW s \in Seq(Tokens), NEW t \in Tokens
    PROVE  /\ Append(s, t) \in Seq(Tokens) /\ Len(s) \in Nat
           /\ Len(Append(s, t)) = Len(s) + 1
           /\ \A k \in 1..Len(s) : Append(s, t)[k] = s[k]
           /\ Append(s, t)[Len(s) + 1] = t
  OBVIOUS

\* A token is one container deeper, one less deep or as deep as the one before.
LEMMA DepthGrows ==
    ASSUME NEW s \in Seq(Tokens), NEW t \in Tokens
    PROVE  /\ \A k \in 0..Len(s) : Depth(s, k) \in Int /\ Depth(Append(s, t), k) = Depth(s, k)
           /\ t.is \in {"{", "["} =>
                Depth(Append(s, t), Len(s) + 1) = Depth(s, Len(s)) + 1
           /\ t.is \in {"}", "]"} =>
                Depth(Append(s, t), Len(s) + 1) = Depth(s, Len(s)) - 1
           /\ t.is \notin {"{", "[", "}", "]"} =>
                Depth(Append(s, t), Len(s) + 1) = Depth(s, Len(s))
<1> DEFINE S == Append(s, t)
           n == Len(s)
           Set(u, K, k) == {i \in 1..k : u[i].is \in K}
           O == {"{", "["}
           C == {"}", "]"}
<1>1. n \in Nat /\ (\A k \in 1..n : S[k] = s[k]) /\ S[n + 1] = t
  OBVIOUS
<1> HIDE DEF S
<1>2. \A K : \A k \in 0..n : Set(S, K, k) = Set(s, K, k)
  <2> TAKE K
  <2> TAKE k \in 0..n
  <2>1. \A i \in 1..k : i \in 1..n
    BY <1>1
  <2>2. \A i \in 1..k : S[i].is \in K <=> s[i].is \in K
    BY <1>1, <2>1
  <2> QED
    BY <2>2
<1>3. \A K, k : Set(s, K, k) \in SUBSET (1..k)
  OBVIOUS
<1>4. \A K : Set(S, K, n + 1) = IF t.is \in K THEN Set(s, K, n) \cup {n + 1} ELSE Set(s, K, n)
  <2> TAKE K
  <2>1. 1..(n + 1) = (1..n) \cup {n + 1}
    BY <1>1
  <2> QED
    BY <1>1, <2>1
<1>5. \A K : \A k \in Nat : IsFiniteSet(Set(s, K, k)) /\ Cardinality(Set(s, K, k)) \in Nat
  <2> TAKE K
  <2> TAKE k \in Nat
  <2>1. IsFiniteSet(1..k)
    BY FS_Interval
  <2>2. IsFiniteSet(Set(s, K, k))
    BY <1>3, <2>1, FS_Subset
  <2> QED
    BY <2>2, FS_CardinalityType
<1>6. \A K : Cardinality(Set(S, K, n + 1))
               = IF t.is \in K THEN Cardinality(Set(s, K, n)) + 1 ELSE Cardinality(Set(s, K, n))
  <2> TAKE K
  <2>1. n + 1 \notin Set(s, K, n) /\ IsFiniteSet(Set(s, K, n))
    <3>1. n + 1 \notin 1..n
      BY <1>1
    <3>2. Set(s, K, n) \in SUBSET (1..n) /\ IsFiniteSet(Set(s, K, n))
      BY <1>1, <1>3, <1>5
    <3> QED
      BY <3>1, <3>2
  <2>2. Cardinality(Set(s, K, n) \cup {n + 1}) = Cardinality(Set(s, K, n)) + 1
    BY <2>1, FS_AddElement
  <2> QED
    BY <1>4, <2>2
<1>7. \A u, k : Depth(u, k) = Cardinality(Set(u, O, k)) - Cardinality(Set(u, C, k))
  BY DEF Depth
<1> HIDE DEF Set
<1>8. \A k \in 0..n : Depth(s, k) \in Int /\ Depth(S, k) = Depth(s, k)
  <2> HIDE DEF O, C
  <2> TAKE k \in 0..n
  <2>1. k \in Nat
    BY <1>1
  <2>2. /\ Cardinality(Set(s, O, k)) \in Nat /\ Cardinality(Set(s, C, k)) \in Nat
        /\ Set(S, O, k) = Set(s, O, k) /\ Set(S, C, k) = Set(s, C, k)
    BY <1>2, <1>5, <2>1
  <2>3. /\ Depth(s, k) = Cardinality(Set(s, O, k)) - Cardinality(Set(s, C, k))
        /\ Depth(S, k) = Cardinality(Set(S, O, k)) - Cardinality(Set(S, C, k))
    BY <1>7
  <2> QED
    BY <2>2, <2>3
<1>9. /\ Cardinality(Set(s, O, n)) \in Nat /\ Cardinality(Set(s, C, n)) \in Nat
      /\ Depth(S, n + 1) = Cardinality(Set(S, O, n + 1)) - Cardinality(Set(S, C, n + 1))
      /\ Depth(s, n) = Cardinality(Set(s, O, n)) - Cardinality(Set(s, C, n))
  BY <1>1, <1>5, <1>7
<1>10. /\ Cardinality(Set(S, O, n + 1)) =
             IF t.is \in O THEN Cardinality(Set(s, O, n)) + 1 ELSE Cardinality(Set(s, O, n))
       /\ Cardinality(Set(S, C, n + 1)) =
             IF t.is \in C THEN Cardinality(Set(s, C, n)) + 1 ELSE Cardinality(Set(s, C, n))
  BY <1>6
<1>11. t.is \in O => t.is \notin C
  OBVIOUS
<1>12. /\ t.is \in O => Depth(S, n + 1) = Depth(s, n) + 1
       /\ t.is \in C => Depth(S, n + 1) = Depth(s, n) - 1
       /\ t.is \notin O /\ t.is \notin C => Depth(S, n + 1) = Depth(s, n)
  <2> HIDE DEF O, C
  <2> QED
    BY <1>9, <1>10, <1>11
<1> QED
  BY <1>8, <1>12 DEF S

-----------------------------------------------------------------------------
\* The commas of the container at depth l that was opened at p, where its parts
\* start, and those parts something has been read of.
Commas(s, l, p) == {k \in (p + 1)..Len(s) : s[k].is = "," /\ Depth(s, k) = l}
Starts(s, l, p) ==
    {b \in (p + 1)..(Len(s) + 1) : b = p + 1 \/ b - 1 \in Commas(s, l, p)}
Begun(s, l, p) == {b \in Starts(s, l, p) : b <= Len(s)}
\* The token is a comma of the container at depth l.
Separates(s, t, l) == t.is = "," /\ Depth(s, Len(s)) = l

\* A whole member or element, and the part b..e between two of the commas.
Member(s, kind, b, e) ==
    IF kind = "array" THEN b <= e /\ IsValue(s)[<<b, e>>]
    ELSE /\ b + 2 <= e /\ s[b].is = "string" /\ s[b + 1].is = ":"
         /\ IsValue(s)[<<b + 2, e>>]
\* b..e is a part that ends in front of a comma.
Closed(s, l, p, b, e) ==
    /\ b \in Starts(s, l, p) /\ e \in 0..Len(s) /\ b <= e + 1
    /\ e + 1 \in Commas(s, l, p)
    /\ \A k \in Commas(s, l, p) : k < b \/ k > e

\* Only a comma of the container is one more comma of it ...
LEMMA CommasGrow ==
    ASSUME NEW s \in Seq(Tokens), NEW t \in Tokens, NEW l, NEW p \in 1..Len(s)
    PROVE  /\ Separates(s, t, l) =>
                Commas(Append(s, t), l, p) = Commas(s, l, p) \cup {Len(s) + 1}
           /\ ~Separates(s, t, l) => Commas(Append(s, t), l, p) = Commas(s, l, p)
<1> DEFINE S == Append(s, t)
           n == Len(s)
<1>1. /\ n \in Nat /\ Len(S) = n + 1 /\ S[n + 1] = t
      /\ \A k \in 1..n : S[k] = s[k]
  BY TextGrows
<1>2. /\ \A k \in 0..n : Depth(S, k) = Depth(s, k)
      /\ t.is = "," => Depth(S, n + 1) = Depth(s, n)
  BY DepthGrows
<1> HIDE DEF S, n
<1>3. (p + 1)..Len(S) = ((p + 1)..n) \cup {n + 1} /\ \A k \in (p + 1)..n : k \in 1..n /\ k \in 0..n
  BY <1>1 DEF n
<1>4. \A k \in (p + 1)..n : S[k].is = "," /\ Depth(S, k) = l <=> s[k].is = "," /\ Depth(s, k) = l
  BY <1>1, <1>2, <1>3
<1>5. S[n + 1].is = "," /\ Depth(S, n + 1) = l <=> Separates(s, t, l)
  BY <1>1, <1>2 DEF Separates, n
<1>6. Commas(S, l, p) = {k \in ((p + 1)..n) \cup {n + 1} : S[k].is = "," /\ Depth(S, k) = l}
  BY <1>3 DEF Commas
<1>7. Commas(s, l, p) = {k \in (p + 1)..n : s[k].is = "," /\ Depth(s, k) = l}
  BY DEF Commas, n
<1> QED
  BY <1>4, <1>5, <1>6, <1>7 DEF S, n

\* ... and lets another part begin.
LEMMA StartsGrow ==
    ASSUME NEW s \in Seq(Tokens), NEW t \in Tokens, NEW l, NEW p \in 1..Len(s)
    PROVE  /\ Separates(s, t, l) =>
                Starts(Append(s, t), l, p) = Starts(s, l, p) \cup {Len(s) + 2}
           /\ ~Separates(s, t, l) => Starts(Append(s, t), l, p) = Starts(s, l, p)
<1> DEFINE S == Append(s, t)
           n == Len(s)
<1>1. n \in Nat /\ Len(S) = n + 1 /\ p \in 1..n
  BY TextGrows
<1>2. Commas(s, l, p) \subseteq (p + 1)..n
  BY DEF Commas
<1>3. /\ Separates(s, t, l) => Commas(S, l, p) = Commas(s, l, p) \cup {n + 1}
      /\ ~Separates(s, t, l) => Commas(S, l, p) = Commas(s, l, p)
  BY CommasGrow
<1>4. /\ Starts(s, l, p) = {b \in (p + 1)..(n + 1) : b = p + 1 \/ b - 1 \in Commas(s, l, p)}
      /\ Starts(S, l, p) = {b \in (p + 1)..(n + 2) : b = p + 1 \/ b - 1 \in Commas(S, l, p)}
  BY <1>1 DEF Starts
<1>5. (p + 1)..(n + 2) = ((p + 1)..(n + 1)) \cup {n + 2} /\ n + 2 # p + 1 /\ n + 2 - 1 = n + 1
  BY <1>1
<1>6. n + 1 \notin Commas(s, l, p) /\ \A b \in (p + 1)..(n + 1) : b - 1 # n + 1
  BY <1>1, <1>2
<1> HIDE DEF S, n
<1> QED
  BY <1>3, <1>4, <1>5, <1>6 DEF S, n

\* A container of kind frame.is at depth l, opened at p: its parts but the last
\* are whole, c is where the last one starts, and frame is what the reader
\* keeps of them.
Opening(kind) == IF kind = "array" THEN "[" ELSE "{"
\* How many parts a container may have.
Room(kind) == IF kind = "array" THEN MaxElements ELSE MaxMembers

\* The keys kept are those that begin the parts, each of them once.
KeysKept(s, begun, keys) ==
    /\ keys = {s[b].text : b \in begun}
    /\ \A a, b \in begun : s[a].text = s[b].text => a = b

Level(s, l, p, c, frame) ==
    /\ p \in 1..Len(s) /\ s[p].is = Opening(frame.is)
    /\ c \in Starts(s, l, p) /\ \A k \in Commas(s, l, p) : k < c
    /\ \A b, e : Closed(s, l, p, b, e) => Member(s, frame.is, b, e)
    /\ frame.is # "array" => KeysKept(s, Begun(s, l, p), frame.keys)
    /\ frame.count = Cardinality(Begun(s, l, p))
    /\ frame.is # "envelope" => frame.count <= Room(frame.is)

\* What is a whole member or element stays one when the text goes on.
LEMMA MemberStays ==
    ASSUME NEW s \in Seq(Tokens), NEW t \in Tokens, NEW kind,
           NEW b \in Nat \ {0}, NEW e \in 0..Len(s), Member(s, kind, b, e)
    PROVE  Member(Append(s, t), kind, b, e)
<1>1. /\ Len(s) \in Nat /\ \A k \in 1..Len(s) : Append(s, t)[k] = s[k]
  BY TextGrows
<1>2. CASE kind = "array"
  <2>1. b <= e /\ IsValue(s)[<<b, e>>]
    BY <1>2 DEF Member
  <2>2. <<b, e>> \in Pairs(s)
    BY <1>1, <2>1 DEF Pairs
  <2> QED
    BY <1>2, <2>1, <2>2, ValueStays DEF Member
<1>3. CASE kind # "array"
  <2>1. /\ b + 2 <= e /\ s[b].is = "string" /\ s[b + 1].is = ":"
        /\ IsValue(s)[<<b + 2, e>>]
    BY <1>3 DEF Member
  <2>2. <<b + 2, e>> \in Pairs(s) /\ b \in 1..Len(s) /\ b + 1 \in 1..Len(s)
    BY <1>1, <2>1 DEF Pairs
  <2>3. IsValue(Append(s, t))[<<b + 2, e>>]
    BY <2>1, <2>2, ValueStays
  <2> QED
    BY <1>1, <1>3, <2>1, <2>2, <2>3 DEF Member
<1> QED
  BY <1>2, <1>3

\* The parts of a container are finitely many, all behind its bracket.
LEMMA BegunFinite ==
    ASSUME NEW s \in Seq(Tokens), NEW l, NEW p \in Nat
    PROVE  /\ IsFiniteSet(Begun(s, l, p)) /\ Cardinality(Begun(s, l, p)) \in Nat
           /\ Begun(s, l, p) \subseteq (p + 1)..Len(s)
           /\ Commas(s, l, p) \subseteq (p + 1)..Len(s)
           /\ Starts(s, l, p) \subseteq (p + 1)..(Len(s) + 1)
<1>1. Len(s) \in Nat
  BY TextGrows
<1>2. /\ Commas(s, l, p) \subseteq (p + 1)..Len(s)
      /\ Starts(s, l, p) \subseteq (p + 1)..(Len(s) + 1)
  BY DEF Commas, Starts
<1>3. Begun(s, l, p) \subseteq (p + 1)..Len(s)
  BY <1>1, <1>2 DEF Begun
<1>4. IsFiniteSet((p + 1)..Len(s))
  BY <1>1, FS_Interval
<1>5. IsFiniteSet(Begun(s, l, p))
  BY <1>3, <1>4, FS_Subset
<1> QED
  BY <1>2, <1>3, <1>5, FS_CardinalityType

\* The parts that are whole stay whole, whatever comes next but a comma.
LEMMA ClosedStays ==
    ASSUME NEW s \in Seq(Tokens), NEW t \in Tokens, NEW l, NEW p, NEW c, NEW frame,
           Level(s, l, p, c, frame), ~Separates(s, t, l)
    PROVE  /\ p \in 1..Len(Append(s, t)) /\ Append(s, t)[p].is = Opening(frame.is)
           /\ c \in Starts(Append(s, t), l, p)
           /\ \A k \in Commas(Append(s, t), l, p) : k < c
           /\ \A b, e : Closed(Append(s, t), l, p, b, e) =>
                /\ Closed(s, l, p, b, e) /\ Member(s, frame.is, b, e)
                /\ Member(Append(s, t), frame.is, b, e)
           /\ \A b, e : Closed(s, l, p, b, e) => Closed(Append(s, t), l, p, b, e)
<1> DEFINE S == Append(s, t)
           n == Len(s)
<1>1. /\ n \in Nat /\ Len(S) = n + 1 /\ \A k \in 1..n : S[k] = s[k]
  BY TextGrows
<1>2. p \in 1..n /\ p \in Nat
  BY <1>1 DEF Level
<1>3. Commas(S, l, p) = Commas(s, l, p) /\ Starts(S, l, p) = Starts(s, l, p)
  BY <1>2, CommasGrow, StartsGrow
<1>4. /\ Commas(s, l, p) \subseteq (p + 1)..n
      /\ Starts(s, l, p) \subseteq (p + 1)..(n + 1)
  BY <1>2, BegunFinite
<1>5. ASSUME NEW b, NEW e
      PROVE  Closed(S, l, p, b, e) <=> Closed(s, l, p, b, e)
  <2>1. e \in 0..(n + 1) /\ e + 1 \in Commas(s, l, p) => e \in 0..n
    BY <1>1, <1>2, <1>4
  <2>2. e \in 0..n => e \in 0..(n + 1)
    BY <1>1
  <2> QED
    BY <1>1, <1>3, <2>1, <2>2 DEF Closed
<1>6. ASSUME NEW b, NEW e, Closed(s, l, p, b, e)
      PROVE  Member(s, frame.is, b, e) /\ Member(S, frame.is, b, e)
  <2>1. Member(s, frame.is, b, e)
    BY <1>6 DEF Level
  <2>2. b \in Nat \ {0} /\ e \in 0..n
    BY <1>1, <1>2, <1>4, <1>6 DEF Closed
  <2> QED
    BY <2>1, <2>2, MemberStays
<1> HIDE DEF S, n
<1>7. p \in 1..Len(S) /\ S[p].is = Opening(frame.is)
  BY <1>1, <1>2 DEF Level
<1>8. c \in Starts(S, l, p) /\ \A k \in Commas(S, l, p) : k < c
  BY <1>3 DEF Level
<1> QED
  BY <1>5, <1>6, <1>7, <1>8 DEF S, n

\* A part of which something has been read goes on.
LEMMA LevelKeeps ==
    ASSUME NEW s \in Seq(Tokens), NEW t \in Tokens, NEW l, NEW p, NEW c, NEW frame,
           Level(s, l, p, c, frame), ~Separates(s, t, l), c <= Len(s)
    PROVE  Level(Append(s, t), l, p, c, frame)
<1> DEFINE S == Append(s, t)
           n == Len(s)
<1>1. /\ n \in Nat /\ Len(S) = n + 1 /\ \A k \in 1..n : S[k] = s[k]
  BY TextGrows
<1>2. p \in 1..n /\ p \in Nat
  BY <1>1 DEF Level
<1>3. Starts(S, l, p) = Starts(s, l, p)
  BY <1>2, StartsGrow
<1>4. \A b \in Starts(s, l, p) : b # n + 1
  <2> SUFFICES ASSUME n + 1 \in Starts(s, l, p) PROVE FALSE
    OBVIOUS
  <2>1. n + 1 # p + 1 \/ c = n + 1
    <3>1. Starts(s, l, p) \subseteq (p + 1)..(n + 1)
      BY <1>2, BegunFinite
    <3>2. c \in (p + 1)..(n + 1)
      BY <3>1 DEF Level
    <3> QED
      BY <1>1, <1>2, <3>2
  <2>2. c # n + 1
    BY <1>1
  <2>3. n + 1 - 1 \in Commas(s, l, p)
    BY <2>1, <2>2 DEF Starts
  <2>4. n \in Commas(s, l, p)
    BY <1>1, <2>3
  <2>5. n < c /\ c \in Int
    <3>1. Starts(s, l, p) \subseteq (p + 1)..(n + 1)
      BY <1>2, BegunFinite
    <3> QED
      BY <2>4, <3>1 DEF Level
  <2> QED
    BY <1>1, <2>5
<1>5. Begun(S, l, p) = Begun(s, l, p)
  <2>1. Starts(s, l, p) \subseteq (p + 1)..(n + 1)
    BY <1>2, BegunFinite
  <2>2. \A b \in Starts(s, l, p) : b <= n + 1 <=> b <= n
    BY <1>1, <1>2, <1>4, <2>1
  <2> QED
    BY <1>1, <1>3, <2>2 DEF Begun
<1>6. Begun(s, l, p) \subseteq 1..n
  <2>1. Begun(s, l, p) \subseteq (p + 1)..n
    BY <1>2, BegunFinite
  <2> QED
    BY <1>1, <1>2, <2>1
<1>7. frame.is # "array" => KeysKept(S, Begun(S, l, p), frame.keys)
  <2>1. \A b \in Begun(s, l, p) : S[b] = s[b]
    BY <1>1, <1>6
  <2>2. {S[b].text : b \in Begun(s, l, p)} = {s[b].text : b \in Begun(s, l, p)}
    BY <2>1
  <2> QED
    BY <1>5, <2>1, <2>2 DEF Level, KeysKept
<1>8. /\ frame.count = Cardinality(Begun(S, l, p))
      /\ frame.is # "envelope" => frame.count <= Room(frame.is)
  BY <1>5 DEF Level
<1> QED
  BY ZenonT(60), <1>7, <1>8, ClosedStays DEF Level

\* A part begins: another one is counted, and its key kept.
LEMMA LevelCounts ==
    ASSUME NEW s \in Seq(Tokens), NEW t \in Tokens, NEW l, NEW p, NEW frame, NEW after,
           Level(s, l, p, Len(s) + 1, frame), ~Separates(s, t, l),
           after.is = frame.is, after.count = frame.count + 1,
           frame.is # "array" =>
              t.text \notin frame.keys /\ after.keys = frame.keys \cup {t.text},
           frame.is # "envelope" => frame.count < Room(frame.is),
           MaxElements \in Nat, MaxMembers \in Nat
    PROVE  Level(Append(s, t), l, p, Len(s) + 1, after)
<1> DEFINE S == Append(s, t)
           n == Len(s)
           old == Begun(s, l, p)
<1>1. /\ n \in Nat /\ Len(S) = n + 1 /\ (\A k \in 1..n : S[k] = s[k]) /\ S[n + 1] = t
  BY TextGrows
<1>2. p \in 1..n /\ p \in Nat
  BY <1>1 DEF Level
<1>3. Starts(S, l, p) = Starts(s, l, p) /\ n + 1 \in Starts(s, l, p)
  BY <1>2, StartsGrow DEF Level
<1>4. Begun(S, l, p) = old \cup {n + 1} /\ n + 1 \notin old
  <2>1. Starts(s, l, p) \subseteq (p + 1)..(n + 1)
    BY <1>2, BegunFinite
  <2>2. \A b \in Starts(s, l, p) : b <= n + 1 /\ (b <= n \/ b = n + 1)
    BY <1>1, <1>2, <2>1
  <2>3. ~(n + 1 <= n)
    BY <1>1
  <2> QED
    BY <1>1, <1>3, <2>2, <2>3 DEF Begun
<1>5. IsFiniteSet(old) /\ Cardinality(old) \in Nat /\ old \subseteq 1..n
  <2>1. /\ old \subseteq (p + 1)..n /\ IsFiniteSet(old) /\ Cardinality(old) \in Nat
    BY <1>2, BegunFinite
  <2>2. (p + 1)..n \subseteq 1..n
    BY <1>2
  <2> QED
    BY <2>1, <2>2
<1>6. Cardinality(Begun(S, l, p)) = Cardinality(old) + 1
  BY ZenonT(60), <1>4, <1>5, FS_AddElement
<1>7. /\ after.count = Cardinality(Begun(S, l, p))
      /\ after.is # "envelope" => after.count <= Room(after.is)
  <2>1. after.count = Cardinality(Begun(S, l, p)) /\ frame.count \in Nat
    BY <1>5, <1>6 DEF Level
  <2>2. Room(after.is) \in Nat
    BY DEF Room
  <2> QED
    BY <2>1, <2>2
<1> HIDE DEF S, n, old
<1>8. after.is # "array" => KeysKept(S, Begun(S, l, p), after.keys)
  <2> SUFFICES ASSUME frame.is # "array"
               PROVE  KeysKept(S, Begun(S, l, p), after.keys)
    OBVIOUS
  <2>1. KeysKept(s, old, frame.keys)
    BY DEF Level, old
  <2>2. \A b \in old : S[b] = s[b]
    BY <1>1, <1>5
  <2>3. {S[b].text : b \in old} = frame.keys
    BY <2>1, <2>2 DEF KeysKept
  <2>4. {S[b].text : b \in old \cup {n + 1}} = frame.keys \cup {t.text}
    BY <1>1, <2>3
  <2>5. \A b \in old : S[b].text # t.text
    BY <2>3
  <2>6. \A a, b \in old : S[a].text = S[b].text => a = b
    BY <2>1, <2>2 DEF KeysKept
  <2>7. \A a, b \in old \cup {n + 1} : S[a].text = S[b].text => a = b
    BY <1>1, <2>5, <2>6
  <2> QED
    BY <1>4, <2>4, <2>7 DEF KeysKept
<1>9. /\ p \in 1..Len(S) /\ S[p].is = Opening(after.is)
      /\ n + 1 \in Starts(S, l, p)
      /\ \A k \in Commas(S, l, p) : k < n + 1
      /\ \A b, e : Closed(S, l, p, b, e) => Member(S, after.is, b, e)
  BY ClosedStays DEF S, n
<1> QED
  BY <1>7, <1>8, <1>9 DEF Level, S, n

\* A part but the last has a comma behind it.
LEMMA LastStart ==
    ASSUME NEW s \in Seq(Tokens), NEW l, NEW p, NEW c, NEW frame,
           Level(s, l, p, c, frame)
    PROVE  \A b \in Starts(s, l, p) : b = c \/ \E k \in Commas(s, l, p) : b <= k
<1> DEFINE n == Len(s)
<1>1. n \in Nat /\ p \in 1..n /\ p \in Nat
  BY TextGrows DEF Level
<1>2. /\ Commas(s, l, p) \subseteq (p + 1)..n
      /\ Starts(s, l, p) \subseteq (p + 1)..(n + 1)
  BY <1>1, BegunFinite
<1>3. c \in Starts(s, l, p) /\ (\A k \in Commas(s, l, p) : k < c) /\ c \in (p + 1)..(n + 1)
  BY <1>2 DEF Level
<1> HIDE DEF n
<1> TAKE b \in Starts(s, l, p)
<1>4. CASE b = p + 1 /\ c # b
  <2>1. c - 1 \in Commas(s, l, p)
    BY <1>3, <1>4 DEF Starts
  <2>2. b <= c - 1
    BY <1>1, <1>3, <1>4
  <2> QED
    BY <2>1, <2>2
<1>5. CASE b # p + 1 /\ c = p + 1
  <2>1. b - 1 \in Commas(s, l, p)
    BY <1>5 DEF Starts
  <2>2. b - 1 < c /\ b \in (p + 1)..(n + 1) /\ b - 1 \in (p + 1)..n
    BY <1>2, <1>3, <2>1
  <2> QED
    BY <1>1, <1>1, <1>5, <2>2
<1>6. CASE b # p + 1 /\ c # p + 1 /\ b # c
  <2>1. b - 1 \in Commas(s, l, p) /\ c - 1 \in Commas(s, l, p)
    BY <1>3, <1>6 DEF Starts
  <2>2. b - 1 < c /\ b \in (p + 1)..(n + 1)
    BY <1>2, <1>3, <2>1
  <2>3. b <= c - 1
    BY <1>1, <1>1, <1>3, <1>6, <2>2
  <2> QED
    BY <2>1, <2>3
<1> QED
  BY <1>4, <1>5, <1>6

\* A comma behind a whole part.
LEMMA LevelSeparates ==
    ASSUME NEW s \in Seq(Tokens), NEW t \in Tokens, NEW l, NEW p, NEW c, NEW frame,
           Level(s, l, p, c, frame), Separates(s, t, l),
           Member(s, frame.is, c, Len(s))
    PROVE  /\ Level(Append(s, t), l, p, Len(s) + 2, frame)
           /\ \A b, e : Closed(Append(s, t), l, p, b, e) <=>
                          Closed(s, l, p, b, e) \/ (b = c /\ e = Len(s))
<1> DEFINE S == Append(s, t)
           n == Len(s)
<1>1. /\ n \in Nat /\ Len(S) = n + 1 /\ (\A k \in 1..n : S[k] = s[k]) /\ S[n + 1] = t
  BY TextGrows
<1>2. p \in 1..n /\ p \in Nat
  BY <1>1 DEF Level
<1>3. /\ Commas(S, l, p) = Commas(s, l, p) \cup {n + 1}
      /\ Starts(S, l, p) = Starts(s, l, p) \cup {n + 2}
  BY <1>2, CommasGrow, StartsGrow
<1>4. /\ Commas(s, l, p) \subseteq (p + 1)..n
      /\ Starts(s, l, p) \subseteq (p + 1)..(n + 1)
      /\ Begun(s, l, p) \subseteq (p + 1)..n
  BY <1>2, BegunFinite
<1>5. c \in Starts(s, l, p) /\ (\A k \in Commas(s, l, p) : k < c) /\ c \in (p + 1)..(n + 1)
  BY <1>4 DEF Level
<1>6. c <= n
  BY <1>1, <1>2, <1>5 DEF Member
<1> HIDE DEF S, n
<1>7. \A b \in Starts(s, l, p) : b = c \/ \E k \in Commas(s, l, p) : b <= k
  BY LastStart DEF n
<1>8. ASSUME NEW b, NEW e
      PROVE  Closed(S, l, p, b, e) <=> Closed(s, l, p, b, e) \/ (b = c /\ e = n)
  <2>1. ASSUME Closed(S, l, p, b, e), e + 1 = n + 1
        PROVE  b = c /\ e = n
    <3>1. e = n /\ b \in Starts(s, l, p) \cup {n + 2} /\ b <= e + 1
      BY <1>1, <1>3, <2>1 DEF Closed
    <3>2. b \in Starts(s, l, p)
      BY <1>1, <3>1
    <3>3. \A k \in Commas(s, l, p) : k < b \/ k > n
      BY <1>3, <2>1, <3>1 DEF Closed
    <3>4. \A k \in Commas(s, l, p) : ~(b <= k)
      BY <1>1, <1>2, <1>4, <3>2, <3>3
    <3> QED
      BY <1>7, <3>1, <3>2, <3>4
  <2>2. ASSUME Closed(S, l, p, b, e), e + 1 # n + 1
        PROVE  Closed(s, l, p, b, e)
    <3>1. /\ e + 1 \in Commas(s, l, p) /\ b <= e + 1
          /\ \A k \in Commas(s, l, p) : k < b \/ k > e
          /\ e \in 0..(n + 1) /\ b \in Starts(s, l, p) \cup {n + 2}
      BY <1>1, <1>3, <2>2 DEF Closed
    <3>2. e \in 0..n /\ b # n + 2
      BY <1>1, <1>2, <1>4, <3>1
    <3> QED
      BY <3>1, <3>2 DEF Closed, n
  <2>3. ASSUME Closed(s, l, p, b, e)
        PROVE  Closed(S, l, p, b, e)
    <3>1. /\ e + 1 \in Commas(s, l, p) /\ b <= e + 1 /\ b \in Starts(s, l, p)
          /\ \A k \in Commas(s, l, p) : k < b \/ k > e
          /\ e \in 0..n
      BY <2>3 DEF Closed, n
    <3>2. e \in 0..(n + 1) /\ n + 1 > e
      BY <1>1, <3>1
    <3> QED
      BY <1>1, <1>3, <3>1, <3>2 DEF Closed
  <2>4. ASSUME b = c, e = n
        PROVE  Closed(S, l, p, b, e)
    <3>1. n \in 0..(n + 1) /\ c <= n + 1 /\ n + 1 > n
      BY <1>1, <1>2, <1>5, <1>6
    <3> QED
      BY <1>1, <1>3, <1>5, <2>4, <3>1 DEF Closed
  <2> QED
    BY <2>1, <2>2, <2>3, <2>4
<1>9. ASSUME NEW b, NEW e, Closed(S, l, p, b, e)
      PROVE  Member(S, frame.is, b, e)
  <2>1. Member(s, frame.is, b, e)
    BY <1>8, <1>9 DEF Level, n
  <2>2. b \in Nat \ {0} /\ e \in 0..n
    <3>1. CASE Closed(s, l, p, b, e)
      BY <1>1, <1>2, <1>4, <3>1 DEF Closed, n
    <3>2. CASE b = c /\ e = n
      BY <1>1, <1>2, <1>5, <3>2
    <3> QED
      BY <1>8, <1>9, <3>1, <3>2
  <2> QED
    BY <2>1, <2>2, MemberStays DEF S, n
<1>10. Begun(S, l, p) = Begun(s, l, p)
  <2>1. n + 1 \notin Starts(s, l, p)
    <3> SUFFICES ASSUME n + 1 \in Starts(s, l, p) PROVE FALSE
      OBVIOUS
    <3>1. PICK k \in Commas(s, l, p) : n + 1 <= k
      BY <1>1, <1>5, <1>6, <1>7
    <3> QED
      BY <1>1, <1>2, <1>4, <3>1
  <2>2. \A b \in Starts(s, l, p) : b <= n + 1 <=> b <= n
    BY <1>1, <1>2, <1>4, <2>1
  <2>3. ~(n + 2 <= n + 1)
    BY <1>1
  <2> QED
    BY <1>1, <1>3, <2>2, <2>3 DEF Begun, n
<1>11. frame.is # "array" => KeysKept(S, Begun(S, l, p), frame.keys)
  <2>1. \A b \in Begun(s, l, p) : S[b] = s[b]
    BY <1>1, <1>2, <1>4
  <2>2. {S[b].text : b \in Begun(s, l, p)} = {s[b].text : b \in Begun(s, l, p)}
    BY <2>1
  <2> QED
    BY <1>10, <2>1, <2>2 DEF Level, KeysKept
<1>12. /\ p \in 1..Len(S) /\ S[p].is = Opening(frame.is)
       /\ n + 2 \in Starts(S, l, p)
       /\ \A k \in Commas(S, l, p) : k < n + 2
  BY <1>1, <1>2, <1>3, <1>4 DEF Level
<1>13. /\ frame.count = Cardinality(Begun(S, l, p))
       /\ frame.is # "envelope" => frame.count <= Room(frame.is)
  BY <1>10 DEF Level
<1>14. Level(S, l, p, n + 2, frame)
  BY <1>9, <1>11, <1>12, <1>13 DEF Level
<1> QED
  BY <1>8, <1>14 DEF S, n

\* The stretches between the commas of a container are its parts.
LEMMA PartsAre ==
    ASSUME NEW s \in Seq(Tokens), NEW l, NEW p, NEW c, NEW frame,
           Level(s, l, p, c, frame)
    PROVE  /\ \A m \in Stretches(p + 1, Len(s), Commas(s, l, p)) :
                /\ m = <<m[1], m[2]>> /\ m[1] \in Starts(s, l, p)
                /\ Closed(s, l, p, m[1], m[2]) \/ (m[1] = c /\ m[2] = Len(s))
           /\ \A b, e : Closed(s, l, p, b, e) \/ (b = c /\ e = Len(s)) =>
                  <<b, e>> \in Stretches(p + 1, Len(s), Commas(s, l, p))
           /\ \A m, o \in Stretches(p + 1, Len(s), Commas(s, l, p)) :
                  m[1] = o[1] => m = o
<1> DEFINE n == Len(s)
           i == p + 1
           C == Commas(s, l, p)
           members == Stretches(i, n, C)
<1>1. n \in Nat /\ p \in 1..n /\ p \in Nat
  BY TextGrows DEF Level
<1>2. /\ C \in SUBSET (i..n)
      /\ Starts(s, l, p) \subseteq i..(n + 1)
  BY <1>1, BegunFinite
<1>3. c \in Starts(s, l, p) /\ (\A k \in C : k < c) /\ c \in i..(n + 1)
  BY <1>2 DEF Level
<1>4. i \in Nat /\ i <= n + 1 /\ i - 1 = p
  BY <1>1
<1>5. \A b : b \in Starts(s, l, p) <=> b \in i..(n + 1) /\ (b = i \/ b - 1 \in C)
  BY DEF Starts
<1> HIDE DEF n, i, C, members
<1>6. /\ \A m \in members :
                /\ m = <<m[1], m[2]>> /\ m[1] \in i..(n + 1) /\ m[2] \in Int
                /\ i - 1 <= m[2] /\ m[2] <= n /\ m[1] <= m[2] + 1
                /\ m[1] = i \/ m[1] - 1 \in C
                /\ m[2] = n \/ m[2] + 1 \in C
                /\ \A k \in C : k < m[1] \/ k > m[2]
      /\ \A b, e \in Int :
                /\ b <= e + 1
                /\ b = i \/ b - 1 \in C
                /\ e = n \/ e + 1 \in C
                /\ \A k \in C : k < b \/ k > e
                => <<b, e>> \in members
  BY <1>1, <1>2, <1>4, StretchesAre DEF members
<1>7. ASSUME NEW m \in members
      PROVE  /\ m = <<m[1], m[2]>> /\ m[1] \in Starts(s, l, p)
             /\ Closed(s, l, p, m[1], m[2]) \/ (m[1] = c /\ m[2] = n)
  <2>1. m[1] \in Starts(s, l, p)
    BY <1>5, <1>6
  <2>2. CASE m[2] = n
    <3>1. \A k \in C : ~(m[1] <= k)
      BY <1>1, <1>2, <1>4, <1>6, <2>2
    <3>2. m[1] = c \/ \E k \in C : m[1] <= k
      BY <2>1, LastStart DEF C
    <3> QED
      BY <1>6, <2>1, <2>2, <3>1, <3>2
  <2>3. CASE m[2] # n
    <3>1. m[2] + 1 \in C /\ m[2] \in 0..n
      BY <1>1, <1>4, <1>6, <2>3
    <3> QED
      BY <1>6, <2>1, <3>1 DEF Closed, C, n
  <2> QED
    BY <1>6, <2>1, <2>2, <2>3
<1>8. ASSUME NEW b, NEW e, Closed(s, l, p, b, e)
      PROVE  <<b, e>> \in members
  <2>1. /\ b \in Starts(s, l, p) /\ e \in 0..n /\ b <= e + 1
        /\ e + 1 \in C /\ \A k \in C : k < b \/ k > e
    BY <1>8 DEF Closed, C, n
  <2>2. b \in Int /\ e \in Int /\ (b = i \/ b - 1 \in C)
    BY <1>1, <1>4, <1>5, <2>1
  <2> QED
    BY <1>6, <2>1, <2>2
<1>9. <<c, n>> \in members
  <2>1. c \in Int /\ n \in Int /\ c <= n + 1 /\ (c = i \/ c - 1 \in C)
    BY <1>1, <1>3, <1>4, <1>5
  <2> QED
    BY <1>3, <1>6, <2>1
<1>10. ASSUME NEW m \in members, NEW o \in members, m[1] = o[1]
       PROVE  m = o
  <2>1. /\ m[2] \in Int /\ o[2] \in Int /\ m[1] \in Int /\ m[2] <= n /\ o[2] <= n
        /\ m[1] <= m[2] + 1 /\ m[1] <= o[2] + 1
        /\ m[2] = n \/ m[2] + 1 \in C
        /\ o[2] = n \/ o[2] + 1 \in C
        /\ \A k \in C : k < m[1] \/ k > m[2]
        /\ \A k \in C : k < m[1] \/ k > o[2]
    BY <1>6, <1>10
  <2>2. ~(m[2] < o[2])
    BY <1>1, <2>1
  <2>3. ~(o[2] < m[2])
    BY <1>1, <2>1
  <2>4. m[2] = o[2]
    BY <2>1, <2>2, <2>3
  <2>5. m = <<m[1], m[2]>> /\ o = <<o[1], o[2]>>
    BY <1>6
  <2> QED
    BY <1>10, <2>4, <2>5
<1> QED
  BY <1>7, <1>8, <1>9, <1>10 DEF members, n, i, C

\* An opening bracket.
LEMMA LevelOpens ==
    ASSUME NEW s \in Seq(Tokens), NEW t \in Tokens, NEW l, NEW kind,
           t.is = Opening(kind), MaxElements \in Nat, MaxMembers \in Nat
    PROVE  /\ Level(Append(s, t), l, Len(s) + 1, Len(s) + 2, Frame(kind))
           /\ Starts(Append(s, t), l, Len(s) + 1) = {Len(s) + 2}
           /\ Commas(Append(s, t), l, Len(s) + 1) = {}
<1> DEFINE S == Append(s, t)
           n == Len(s)
<1>1. /\ n \in Nat /\ Len(S) = n + 1 /\ S[n + 1] = t
  BY TextGrows
<1> HIDE DEF S, n
<1>2. Commas(S, l, n + 1) = {}
  <2>1. (n + 1 + 1)..Len(S) = {}
    BY <1>1
  <2> QED
    BY <2>1 DEF Commas
<1>3. Starts(S, l, n + 1) = {n + 2}
  BY <1>1, <1>2 DEF Starts
<1>4. Begun(S, l, n + 1) = {}
  BY <1>1, <1>3 DEF Begun
<1>5. Frame(kind).is = kind /\ Frame(kind).keys = {} /\ Frame(kind).count = 0
  BY DEF Frame
<1>6. Cardinality(Begun(S, l, n + 1)) = 0 /\ 0 <= Room(kind)
  BY SMTT(60), <1>4, FS_EmptySet DEF Room
<1>7. KeysKept(S, Begun(S, l, n + 1), Frame(kind).keys)
  BY <1>4, <1>5 DEF KeysKept
<1>8. \A b, e : ~Closed(S, l, n + 1, b, e)
  BY <1>2 DEF Closed
<1>9. n + 1 \in 1..Len(S) /\ S[n + 1].is = Opening(kind)
  BY <1>1
<1> QED
  BY <1>2, <1>3, <1>5, <1>6, <1>7, <1>8, <1>9 DEF Level, S, n

\* A closing bracket behind a whole part, or behind the opening one.
LEMMA LevelCloses ==
    ASSUME NEW s \in Seq(Tokens), NEW t \in Tokens, NEW l, NEW p, NEW c, NEW frame,
           Level(s, l, p, c, frame), frame.is \in {"object", "array"},
           Member(s, frame.is, c, Len(s)) \/ p = Len(s),
           t.is = Closing(frame.is), MaxElements \in Nat, MaxMembers \in Nat
    PROVE  /\ <<p, Len(s) + 1>> \in Pairs(Append(s, t))
           /\ IsValue(Append(s, t))[<<p, Len(s) + 1>>]
<1> DEFINE S == Append(s, t)
           n == Len(s)
           m == <<p, n + 1>>
           C == Commas(s, l, p)
           members == Stretches(p + 1, n, C)
<1>1. /\ n \in Nat /\ Len(S) = n + 1 /\ (\A k \in 1..n : S[k] = s[k]) /\ S[n + 1] = t
      /\ S \in Seq(Tokens)
  BY TextGrows
<1>2. p \in 1..n /\ p \in Nat /\ s[p].is = Opening(frame.is)
  BY <1>1 DEF Level
<1>3. m \in Pairs(S) /\ m[1] = p /\ m[2] = n + 1 /\ p < n + 1 /\ S[p] = s[p]
  BY <1>1, <1>2 DEF Pairs
<1> HIDE DEF S, m
<1>4. Encloses(S, m, Opening(frame.is), Closing(frame.is))
  BY <1>1, <1>2, <1>3 DEF Encloses, n
<1>5. ASSUME Member(s, frame.is, c, n)
      PROVE  /\ members \in Cuts(S, m)
             /\ \A o \in members : Member(S, frame.is, o[1], o[2])
             /\ \A o \in members : o[1] \in Begun(s, l, p)
             /\ Cardinality(members) <= Room(frame.is)
  <2>1. C \subseteq (p + 1)..n /\ Starts(s, l, p) \subseteq (p + 1)..(n + 1)
    BY <1>2, BegunFinite
  <2>2. \A k \in C : S[k].is = ","
    <3>1. \A k \in C : k \in 1..n
      BY <1>1, <1>2, <2>1
    <3>2. \A k \in C : s[k].is = ","
      BY DEF Commas
    <3> QED
      BY <1>1, <3>1, <3>2
  <2>3. C \in CommasIn(S, p + 1, n)
    BY <2>1, <2>2 DEF CommasIn
  <2>4. members \in Cuts(S, m)
    <3>1. m[1] + 1 = p + 1 /\ m[2] - 1 = n
      BY <1>1, <1>2, <1>3
    <3> QED
      BY <2>3, <3>1 DEF Cuts
  <2>5. c \in Starts(s, l, p) /\ c \in (p + 1)..(n + 1)
    BY <2>1 DEF Level
  <2>6. \A o \in members :
           /\ o = <<o[1], o[2]>> /\ o[1] \in Starts(s, l, p)
           /\ Closed(s, l, p, o[1], o[2]) \/ (o[1] = c /\ o[2] = n)
    BY PartsAre DEF n
  <2>7. ASSUME NEW o \in members
        PROVE  /\ Member(s, frame.is, o[1], o[2]) /\ Member(S, frame.is, o[1], o[2])
               /\ o[1] \in Begun(s, l, p)
    <3>1. Member(s, frame.is, o[1], o[2])
      BY <1>5, <2>6 DEF Level
    <3>2. o[2] \in 0..n
      BY <1>1, <2>6 DEF Closed
    <3>3. o[1] \in Nat \ {0}
      BY <1>2, <2>1, <2>6
    <3>4. o[1] <= n
      BY <1>1, <3>1, <3>2, <3>3 DEF Member
    <3> QED
      BY <2>6, <3>1, <3>2, <3>3, <3>4, MemberStays DEF S, n, Begun
  <2>8. Cardinality(members) <= Cardinality(Begun(s, l, p))
    <3> DEFINE f == [o \in members |-> o[1]]
    <3>1. f \in [members -> Begun(s, l, p)]
      BY <2>7
    <3>2. \A o, q \in members : f[o] = f[q] => o = q
      BY PartsAre DEF n
    <3>3. f \in Injection(members, Begun(s, l, p))
      BY <3>1, <3>2 DEF Injection, IsInjective
    <3> QED
      BY <1>2, <3>3, BegunFinite, FS_Injection
  <2>9. Cardinality(Begun(s, l, p)) <= Room(frame.is)
    BY DEF Level
  <2>10. Cardinality(members) \in Nat /\ Cardinality(Begun(s, l, p)) \in Nat
         /\ Room(frame.is) \in Nat
    <3>1. IsFiniteSet(members)
      <4> DEFINE f == [o \in members |-> o[1]]
      <4>1. f \in [members -> Begun(s, l, p)]
        BY <2>7
      <4>2. \A o, q \in members : f[o] = f[q] => o = q
        BY PartsAre DEF n
      <4>3. f \in Injection(members, Begun(s, l, p))
        BY <4>1, <4>2 DEF Injection, IsInjective
      <4> QED
        BY <1>2, <4>3, BegunFinite, FS_Injection
    <3> QED
      BY <1>2, <3>1, BegunFinite, FS_CardinalityType DEF Room
  <2>11. Cardinality(members) <= Room(frame.is)
    BY <2>8, <2>9, <2>10
  <2> QED
    BY <2>4, <2>7, <2>11
<1>6. CASE p = n
  <2>1. m[2] = m[1] + 1
    BY <1>3, <1>6
  <2>2. ValueIn(S, IsValue(S), m)
    BY <1>4, <2>1 DEF ValueIn, Opening, Closing
  <2> QED
    BY <1>1, <1>3, <2>2, ValueRecursion DEF S, m, n
<1>7. CASE Member(s, frame.is, c, n) /\ frame.is = "array"
  <2>1. /\ \A o \in members : o[1] <= o[2]
        /\ \A o \in members : IsValue(S)[<<o[1], o[2]>>]
    BY <1>5, <1>7 DEF Member
  <2>2. Cardinality(members) <= MaxElements /\ members \in Cuts(S, m)
    BY <1>5, <1>7 DEF Room
  <2>3. Encloses(S, m, "[", "]")
    BY <1>4, <1>7 DEF Opening, Closing
  <2> HIDE DEF members
  <2>4. ValueIn(S, IsValue(S), m)
    BY <2>1, <2>2, <2>3 DEF ValueIn
  <2> QED
    BY <1>1, <1>3, <2>4, ValueRecursion DEF S, m, n
<1>8. CASE Member(s, frame.is, c, n) /\ frame.is = "object"
  <2>1. \A o \in members : /\ o[1] + 2 <= o[2] /\ S[o[1]].is = "string"
                           /\ S[o[1] + 1].is = ":" /\ IsValue(S)[<<o[1] + 2, o[2]>>]
    BY <1>5, <1>8 DEF Member
  <2>2. \A o \in members : o[1] \in Begun(s, l, p) /\ o[1] \in Nat /\ S[o[1]] = s[o[1]]
    <3>1. Begun(s, l, p) \subseteq (p + 1)..n
      BY <1>2, BegunFinite
    <3> QED
      BY <1>1, <1>2, <1>5, <1>8, <3>1
  <2>3. \A o \in members : o[2] >= o[1] + 2
    <3> TAKE o \in members
    <3>1. o[1] \in Nat /\ o[1] + 2 <= o[2]
      BY <2>1, <2>2
    <3> QED
      BY <3>1
  <2>4. \A o, q \in members : S[o[1]].text = S[q[1]].text => o = q
    <3> TAKE o, q \in members
    <3>1. \A a, b \in Begun(s, l, p) : s[a].text = s[b].text => a = b
      BY <1>8 DEF Level, KeysKept
    <3>2. S[o[1]].text = S[q[1]].text => o[1] = q[1]
      BY <2>2, <3>1
    <3> QED
      BY <3>2, PartsAre DEF n
  <2>5. Named(S, members)
    BY <2>1, <2>4 DEF Named
  <2>6. Cardinality(members) <= MaxMembers /\ members \in Cuts(S, m)
    BY <1>5, <1>8 DEF Room
  <2>7. Encloses(S, m, "{", "}")
    BY <1>4, <1>8 DEF Opening, Closing
  <2> HIDE DEF members
  <2>8. ValueIn(S, IsValue(S), m)
    BY <2>1, <2>3, <2>5, <2>6, <2>7 DEF ValueIn
  <2> QED
    BY <1>1, <1>3, <2>8, ValueRecursion DEF S, m, n
<1> QED
  BY <1>6, <1>7, <1>8 DEF n
-----------------------------------------------------------------------------
\* The open containers: where they were opened and where their last part starts.
Kinds == {"envelope", "object", "array"}
Frames == [is : Kinds, keys : SUBSET Texts, count : Nat]

\* The part that starts at c leads to the container opened at p: as an element
\* it is the container, as a member it has its key in front of it.
Leads(s, kind, c, p) ==
    IF kind = "array" THEN c = p
    ELSE c + 2 = p /\ s[c].is = "string" /\ s[c + 1].is = ":"

\* Each container but the first lies in the last part of the one below.
Nest(s, frames, open, start) ==
    /\ open \in [Nat -> Nat] /\ start \in [Nat -> Nat]
    /\ \A l \in 1..Len(frames) : Level(s, l, open[l], start[l], frames[l])
    /\ \A l \in 1..Len(frames) : frames[l].is = "envelope" <=> l = 1
    /\ \A l \in 1..(Len(frames) - 1) : Leads(s, frames[l].is, start[l], open[l + 1])
    /\ frames # <<>> => open[1] = 1

\* The length of a stack that is not empty.
LEMMA StackDepth ==
    ASSUME NEW frames \in Seq(Frames), frames # <<>>
    PROVE  Len(frames) \in Nat /\ Len(frames) >= 1
BY EmptySeq, LenProperties

\* The containers below the one on top.
LEMMA NestBelow ==
    ASSUME NEW s \in Seq(Tokens), NEW t \in Tokens, NEW frames, NEW open, NEW start,
           Nest(s, frames, open, start), Len(frames) \in Nat,
           Depth(s, Len(s)) = Len(frames),
           NEW l \in 1..(Len(frames) - 1)
    PROVE  /\ Level(Append(s, t), l, open[l], start[l], frames[l])
           /\ Leads(Append(s, t), frames[l].is, start[l], open[l + 1])
           /\ start[l] \in 1..Len(s)
<1> DEFINE S == Append(s, t)
           n == Len(s)
           L == Len(frames)
<1>1. /\ n \in Nat /\ Len(S) = n + 1 /\ (\A k \in 1..n : S[k] = s[k])
  BY TextGrows
<1>2. /\ L \in Nat /\ open \in [Nat -> Nat] /\ start \in [Nat -> Nat]
      /\ Depth(s, n) = L /\ l \in 1..(L - 1)
  BY DEF Nest
<1>3. /\ \A k \in 1..L : Level(s, k, open[k], start[k], frames[k])
      /\ \A k \in 1..(L - 1) : Leads(s, frames[k].is, start[k], open[k + 1])
  BY DEF Nest
<1> HIDE DEF S, n, L
<1>4. l \in 1..L /\ l + 1 \in 1..L /\ l # L /\ l \in Nat /\ l + 1 \in Nat
  BY <1>2
<1>5. /\ Level(s, l, open[l], start[l], frames[l])
      /\ Level(s, l + 1, open[l + 1], start[l + 1], frames[l + 1])
      /\ Leads(s, frames[l].is, start[l], open[l + 1])
  BY <1>2, <1>3, <1>4
<1>6. open[l + 1] \in 1..n /\ open[l] \in 1..n
  BY <1>5 DEF Level, n
<1>7. start[l] \in Nat /\ start[l] \in Starts(s, l, open[l])
  BY <1>2, <1>4, <1>5 DEF Level
<1>8. start[l] <= n /\ start[l] >= 1
  <2>1. start[l] <= n
    BY <1>1, <1>5, <1>6, <1>7 DEF Leads
  <2>2. Starts(s, l, open[l]) \subseteq (open[l] + 1)..(n + 1)
    BY <1>1, <1>6, BegunFinite DEF n
  <2> QED
    BY <1>1, <1>6, <1>7, <2>1, <2>2
<1>9. ~Separates(s, t, l)
  BY <1>2, <1>4 DEF Separates, n
<1>10. Level(S, l, open[l], start[l], frames[l])
  BY <1>5, <1>8, <1>9, LevelKeeps DEF S, n
<1>11. Leads(S, frames[l].is, start[l], open[l + 1])
  <2>1. CASE frames[l].is = "array"
    BY <1>5, <2>1 DEF Leads
  <2>2. CASE frames[l].is # "array"
    <3>1. /\ start[l] + 2 = open[l + 1] /\ s[start[l]].is = "string"
          /\ s[start[l] + 1].is = ":"
      BY <1>5, <2>2 DEF Leads
    <3>2. start[l] \in 1..n /\ start[l] + 1 \in 1..n
      <4>1. start[l] + 2 <= n
        BY <1>6, <3>1
      <4> QED
        BY <1>1, <1>7, <1>8, <4>1
    <3> QED
      BY <1>1, <2>2, <3>1, <3>2 DEF Leads
  <2> QED
    BY <2>1, <2>2
<1> QED
  BY <1>1, <1>7, <1>8, <1>10, <1>11 DEF S, n

\* Changing a function in one place.
LEMMA UpdateAt ==
    ASSUME NEW f \in [Nat -> Nat], NEW k \in Nat, NEW v \in Nat
    PROVE  /\ [f EXCEPT ![k] = v] \in [Nat -> Nat] /\ [f EXCEPT ![k] = v][k] = v
           /\ \A j \in Nat \ {k} : [f EXCEPT ![k] = v][j] = f[j]
  OBVIOUS

\* A token that leaves the stack as deep as it was.
LEMMA NestKeeps ==
    ASSUME NEW s \in Seq(Tokens), NEW t \in Tokens,
           NEW frames \in Seq(Frames), NEW after \in Seq(Frames),
           NEW open, NEW start, NEW c \in Nat,
           Nest(s, frames, open, start), frames # <<>>,
           Depth(s, Len(s)) = Len(frames),
           Len(after) = Len(frames),
           \A l \in 1..(Len(frames) - 1) : after[l] = frames[l],
           after[Len(frames)].is = frames[Len(frames)].is,
           Level(Append(s, t), Len(frames), open[Len(frames)], c, after[Len(frames)])
    PROVE  Nest(Append(s, t), after, open, [start EXCEPT ![Len(frames)] = c])
<1> DEFINE S == Append(s, t)
           L == Len(frames)
           begin == [start EXCEPT ![L] = c]
<1>1. L \in Nat /\ L >= 1 /\ open \in [Nat -> Nat] /\ start \in [Nat -> Nat]
  BY StackDepth DEF Nest
<1>2. \A l \in 1..(L - 1) : /\ Level(S, l, open[l], start[l], frames[l])
                            /\ Leads(S, frames[l].is, start[l], open[l + 1])
                            /\ after[l] = frames[l]
  BY <1>1, NestBelow
<1>3. /\ Level(S, L, open[L], c, after[L]) /\ after[L].is = frames[L].is
      /\ \A l \in 1..L : frames[l].is = "envelope" <=> l = 1
      /\ Len(after) = L /\ open[1] = 1
  BY DEF Nest
<1> HIDE DEF S, L
<1>4. begin \in [Nat -> Nat] /\ begin[L] = c
  BY <1>1
<1>5. \A l \in 1..(L - 1) : begin[l] = start[l] /\ l + 1 \in 1..L /\ l # L
  BY <1>1
<1> HIDE DEF begin
<1>6. ASSUME NEW l \in 1..L
      PROVE  /\ Level(S, l, open[l], begin[l], after[l])
             /\ after[l].is = "envelope" <=> l = 1
  <2>1. CASE l = L
    BY <1>1, <1>3, <1>4, <2>1
  <2>2. CASE l # L
    <3>1. l \in 1..(L - 1)
      BY <1>1, <2>2
    <3> QED
      BY <1>2, <1>3, <1>5, <3>1
  <2> QED
    BY <2>1, <2>2
<1>7. \A l \in 1..(L - 1) : Leads(S, after[l].is, begin[l], open[l + 1])
  BY <1>2, <1>5
<1> QED
  BY <1>1, <1>3, <1>4, <1>6, <1>7 DEF Nest, S, L, begin

\* A container is opened in the one that is on top.
LEMMA NestOpens ==
    ASSUME NEW s \in Seq(Tokens), NEW t \in Tokens, NEW kind \in {"object", "array"},
           NEW frames \in Seq(Frames), NEW open, NEW start,
           Nest(Append(s, t), frames, open, start), frames # <<>>,
           Leads(Append(s, t), frames[Len(frames)].is, start[Len(frames)], Len(s) + 1),
           t.is = Opening(kind), MaxElements \in Nat, MaxMembers \in Nat
    PROVE  Nest(Append(s, t), Append(frames, Frame(kind)),
                [open EXCEPT ![Len(frames) + 1] = Len(s) + 1],
                [start EXCEPT ![Len(frames) + 1] = Len(s) + 2])
<1> DEFINE S == Append(s, t)
           n == Len(s)
           L == Len(frames)
           after == Append(frames, Frame(kind))
           opened == [open EXCEPT ![L + 1] = n + 1]
           begin == [start EXCEPT ![L + 1] = n + 2]
<1>1. n \in Nat
  BY TextGrows
<1>2. L \in Nat /\ L >= 1 /\ open \in [Nat -> Nat] /\ start \in [Nat -> Nat]
  BY StackDepth DEF Nest
<1>3. /\ Len(after) = L + 1 /\ after[L + 1] = Frame(kind)
      /\ \A l \in 1..L : after[l] = frames[l]
  OBVIOUS
<1>4. Level(S, L + 1, n + 1, n + 2, Frame(kind)) /\ Frame(kind).is = kind
  BY LevelOpens DEF Frame
<1>5. /\ \A l \in 1..L : Level(S, l, open[l], start[l], frames[l])
      /\ \A l \in 1..L : frames[l].is = "envelope" <=> l = 1
      /\ \A l \in 1..(L - 1) : Leads(S, frames[l].is, start[l], open[l + 1])
      /\ open[1] = 1 /\ Leads(S, frames[L].is, start[L], n + 1)
  BY DEF Nest
<1> HIDE DEF S, n, L, after
<1>6. /\ begin \in [Nat -> Nat] /\ begin[L + 1] = n + 2
      /\ opened \in [Nat -> Nat] /\ opened[L + 1] = n + 1
  <2>1. L + 1 \in Nat /\ n + 1 \in Nat /\ n + 2 \in Nat
    BY ONLY <1>1, <1>2
  <2> QED
    BY ONLY ZenonT(60), <1>2, <2>1, UpdateAt
<1>7. \A l \in 1..L : begin[l] = start[l] /\ opened[l] = open[l]
  <2>1. /\ L + 1 \in Nat /\ n + 1 \in Nat /\ n + 2 \in Nat
        /\ \A l \in 1..L : l \in Nat \ {L + 1}
    BY ONLY <1>1, <1>2
  <2> QED
    BY ONLY <1>2, <2>1, UpdateAt
<1> HIDE DEF opened, begin
<1>8. ASSUME NEW l \in 1..(L + 1)
      PROVE  /\ Level(S, l, opened[l], begin[l], after[l])
             /\ after[l].is = "envelope" <=> l = 1
  <2>1. CASE l = L + 1
    <3>1. l # 1
      BY ONLY <1>2, <2>1
    <3>2. kind # "envelope"
      OBVIOUS
    <3> QED
      BY <1>3, <1>4, <1>6, <2>1, <3>1, <3>2
  <2>2. CASE l # L + 1
    <3>1. l \in 1..L
      BY <1>2, <2>2
    <3> QED
      BY <1>3, <1>5, <1>7, <3>1
  <2> QED
    BY <2>1, <2>2
<1>9. ASSUME NEW l \in 1..L
      PROVE  Leads(S, after[l].is, begin[l], opened[l + 1])
  <2>1. CASE l = L
    BY <1>3, <1>5, <1>6, <1>7, <2>1
  <2>2. CASE l # L
    <3>1. l \in 1..(L - 1) /\ l + 1 \in 1..L
      BY ONLY <1>2, <2>2
    <3> QED
      BY <1>3, <1>5, <1>7, <3>1
  <2> QED
    BY <2>1, <2>2
<1>10. opened[1] = 1 /\ L + 1 - 1 = L
  <2>1. 1 \in 1..L /\ L + 1 - 1 = L
    BY ONLY <1>2
  <2> QED
    BY <1>5, <1>7, <2>1
<1>11. Nest(S, after, opened, begin)
  <2>1. Len(after) = L + 1 /\ Len(after) - 1 = L
    <3>1. Len(after) = L + 1 /\ L \in Nat
      BY <1>2, <1>3
    <3> QED
      BY ONLY <3>1
  <2>2. /\ \A l \in 1..Len(after) : Level(S, l, opened[l], begin[l], after[l])
        /\ \A l \in 1..Len(after) : after[l].is = "envelope" <=> l = 1
    BY <1>8, <2>1
  <2>3. \A l \in 1..(Len(after) - 1) : Leads(S, after[l].is, begin[l], opened[l + 1])
    BY <1>9, <2>1
  <2> QED
    BY <1>6, <1>10, <2>2, <2>3 DEF Nest
<1> QED
  BY <1>11 DEF S, n, L, after, opened, begin

\* The container on top is complete, and so is the part of the one below.
LEMMA NestCloses ==
    ASSUME NEW s \in Seq(Tokens), NEW t \in Tokens,
           NEW frames \in Seq(Frames), NEW open, NEW start,
           Nest(s, frames, open, start), Len(frames) >= 2,
           Depth(s, Len(s)) = Len(frames),
           \/ Member(s, frames[Len(frames)].is, start[Len(frames)], Len(s))
           \/ open[Len(frames)] = Len(s),
           t.is = Closing(frames[Len(frames)].is),
           MaxElements \in Nat, MaxMembers \in Nat
    PROVE  /\ Nest(Append(s, t), SubSeq(frames, 1, Len(frames) - 1), open, start)
           /\ Member(Append(s, t), frames[Len(frames) - 1].is,
                     start[Len(frames) - 1], Len(s) + 1)
<1> DEFINE S == Append(s, t)
           n == Len(s)
           L == Len(frames)
           after == SubSeq(frames, 1, L - 1)
<1>1. n \in Nat
  BY TextGrows
<1>2. L \in Nat /\ L >= 2 /\ open \in [Nat -> Nat] /\ start \in [Nat -> Nat]
  BY LenProperties DEF Nest
<1>3. /\ Len(after) = L - 1 /\ \A l \in 1..(L - 1) : after[l] = frames[l]
  BY <1>2, SubSeqProperties
<1>4. \A l \in 1..(L - 1) : /\ Level(S, l, open[l], start[l], frames[l])
                            /\ Leads(S, frames[l].is, start[l], open[l + 1])
                            /\ start[l] \in 1..n
  BY <1>2, NestBelow
<1>5. /\ \A l \in 1..L : Level(s, l, open[l], start[l], frames[l])
      /\ \A l \in 1..L : frames[l].is = "envelope" <=> l = 1
      /\ frames # <<>> => open[1] = 1
      /\ Member(s, frames[L].is, start[L], n) \/ open[L] = n
      /\ t.is = Closing(frames[L].is)
  BY DEF Nest
<1>13. \A l \in 1..L : frames[l].is \in Kinds
  <2>1. \A l \in 1..L : frames[l] \in Frames
    BY ElementOfSeq
  <2> QED
    BY <2>1 DEF Frames
<1>6. open[1] = 1
  BY <1>2, <1>5
<1> HIDE DEF S, n, L, after
<1>7. L \in 1..L /\ L # 1 /\ L - 1 \in 1..(L - 1) /\ L - 1 + 1 = L
  BY <1>2
<1>8. IsValue(S)[<<open[L], n + 1>>] /\ open[L] \in 1..n
  <2>1. Level(s, L, open[L], start[L], frames[L]) /\ frames[L].is \in {"object", "array"}
    BY <1>5, <1>7, <1>13 DEF Kinds
  <2>2. IsValue(S)[<<open[L], n + 1>>]
    BY <1>5, <2>1, LevelCloses DEF S, n
  <2> QED
    BY <2>1, <2>2 DEF Level, n
<1>9. Member(S, frames[L - 1].is, start[L - 1], n + 1)
  <2>1. Leads(S, frames[L - 1].is, start[L - 1], open[L])
    BY <1>4, <1>7
  <2>2. start[L - 1] \in 1..n
    BY <1>4, <1>7
  <2>3. open[L] <= n + 1
    BY <1>1, <1>8
  <2> QED
    BY <1>8, <2>1, <2>2, <2>3 DEF Leads, Member
<1>10. \A l \in 1..(L - 1) : l \in 1..L
  BY <1>2
<1>11. \A l \in 1..(L - 1 - 1) : l \in 1..(L - 1)
  BY <1>2
<1>12. Nest(S, after, open, start)
  BY <1>2, <1>3, <1>4, <1>5, <1>6, <1>10, <1>11 DEF Nest
<1> QED
  BY <1>9, <1>12 DEF S, n, L, after
-----------------------------------------------------------------------------
\* The fields of the builder are the parts of the envelope that are whole; the
\* last one is when done says so.
Filled(s, b, e, kept) == s[b].text \in DOMAIN kept /\ kept[s[b].text] = SubSeq(s, b + 2, e)
\* The whole parts of the envelope, the last one when done says so.
Part(s, c, done, b, e) == Closed(s, 1, 1, b, e) \/ (done /\ b = c /\ e = Len(s))
\* These, and only these, have been kept, each under its own name.
Fills(s, c, done, kept) ==
    /\ \A b, e : Part(s, c, done, b, e) => Filled(s, b, e, kept)
    /\ \A f \in DOMAIN kept : \E b, e : Part(s, c, done, b, e) /\ s[b].text = f

\* What is kept of a member stays what it says when the text goes on.
LEMMA FilledStays ==
    ASSUME NEW s \in Seq(Tokens), NEW t \in Tokens, NEW kept, NEW kind,
           NEW b \in Nat \ {0}, NEW e \in 0..Len(s), kind # "array",
           Member(s, kind, b, e)
    PROVE  /\ Filled(s, b, e, kept) => Filled(Append(s, t), b, e, kept)
           /\ Append(s, t)[b] = s[b]
<1> DEFINE S == Append(s, t)
           n == Len(s)
<1>1. /\ n \in Nat /\ Len(S) = n + 1 /\ (\A k \in 1..n : S[k] = s[k]) /\ S \in Seq(Tokens)
  BY TextGrows
<1>2. b + 2 <= e
  BY DEF Member
<1> HIDE DEF S
<1>3. b \in 1..n /\ b + 2 \in 1..n /\ e \in 1..n
  BY <1>1, <1>2
<1>4. \A k \in (b + 2)..e : S[k] = s[k]
  <2>1. \A k \in (b + 2)..e : k \in 1..n
    BY <1>1, <1>3
  <2> QED
    BY <1>1, <2>1
<1>5. SubSeq(S, b + 2, e) = SubSeq(s, b + 2, e)
  <2>1. \A i \in 1..(e + 1 - (b + 2)) : b + 2 + i - 1 \in (b + 2)..e
    BY <1>1, <1>3
  <2>2. \A i \in 1..(e + 1 - (b + 2)) : S[b + 2 + i - 1] = s[b + 2 + i - 1]
    BY <1>4, <2>1
  <2> QED
    BY <1>1, <1>3, <2>2
<1> QED
  BY <1>1, <1>3, <1>5 DEF S, Filled

\* A part in front of a comma is whole, and in front of the last one.
LEMMA ClosedRange ==
    ASSUME NEW s \in Seq(Tokens), NEW l, NEW p, NEW c, NEW frame,
           Level(s, l, p, c, frame), NEW b, NEW e, Closed(s, l, p, b, e)
    PROVE  /\ b \in Nat \ {0} /\ e \in 0..Len(s) /\ Len(s) \in Nat
           /\ b < c /\ e + 1 < c /\ c \in 1..(Len(s) + 1)
           /\ Member(s, frame.is, b, e)
<1>1. Len(s) \in Nat /\ p \in 1..Len(s) /\ p \in Nat
  BY TextGrows DEF Level
<1>2. /\ Commas(s, l, p) \subseteq (p + 1)..Len(s)
      /\ Starts(s, l, p) \subseteq (p + 1)..(Len(s) + 1)
  BY <1>1, BegunFinite
<1>3. /\ b \in Starts(s, l, p) /\ e \in 0..Len(s) /\ b <= e + 1 /\ e + 1 \in Commas(s, l, p)
  BY DEF Closed
<1>4. c \in Starts(s, l, p) /\ e + 1 < c /\ Member(s, frame.is, b, e)
  BY <1>3 DEF Level
<1>5. b \in (p + 1)..(Len(s) + 1) /\ c \in (p + 1)..(Len(s) + 1)
  BY <1>2, <1>3, <1>4
<1> QED
  BY <1>1, <1>3, <1>4, <1>5

\* A token inside a member changes nothing of what is kept.
LEMMA FillsKeep ==
    ASSUME NEW s \in Seq(Tokens), NEW t \in Tokens, NEW c, NEW frame, NEW kept, NEW d,
           Level(s, 1, 1, c, frame), frame.is # "array", ~Separates(s, t, 1),
           Fills(s, c, FALSE, kept)
    PROVE  Fills(Append(s, t), d, FALSE, kept)
<1> DEFINE S == Append(s, t)
<1>1. \A b, e : Closed(S, 1, 1, b, e) <=> Closed(s, 1, 1, b, e)
  BY ClosedStays
<1>2. ASSUME NEW b, NEW e, Closed(s, 1, 1, b, e)
      PROVE  Filled(S, b, e, kept) /\ S[b].text = s[b].text
  <2>1. Filled(s, b, e, kept)
    BY <1>2 DEF Fills, Part
  <2>2. b \in Nat \ {0} /\ e \in 0..Len(s) /\ Member(s, frame.is, b, e)
    BY <1>2, ClosedRange
  <2>3. (Filled(s, b, e, kept) => Filled(S, b, e, kept)) /\ S[b] = s[b]
    BY <2>2, FilledStays
  <2> QED
    BY <2>1, <2>3
<1> HIDE DEF S
<1>3. \A b, e : Part(S, d, FALSE, b, e) <=> Part(s, c, FALSE, b, e)
  BY <1>1 DEF Part
<1>4. ASSUME NEW f \in DOMAIN kept
      PROVE  \E b, e : Part(S, d, FALSE, b, e) /\ S[b].text = f
  <2>1. PICK b, e : Part(s, c, FALSE, b, e) /\ s[b].text = f
    BY DEF Fills
  <2>2. S[b].text = s[b].text
    BY <1>2, <2>1 DEF Part
  <2> QED
    BY <1>3, <2>1, <2>2
<1>5. \A b, e : Part(S, d, FALSE, b, e) => Filled(S, b, e, kept)
  BY <1>2, <1>3 DEF Part
<1> QED
  BY <1>4, <1>5 DEF Fills, S

\* The fields with the one whose value the token ends.
Ended(s, t, name, at, kept) ==
    [f \in DOMAIN kept \cup {name} |->
       IF f = name THEN SubSeq(Append(s, t), at, Len(s) + 1) ELSE kept[f]]

\* The token that completes a member completes its field.
LEMMA FillsEnd ==
    ASSUME NEW s \in Seq(Tokens), NEW t \in Tokens, NEW c, NEW frame, NEW kept,
           Level(s, 1, 1, c, frame), frame.is # "array", ~Separates(s, t, 1),
           c <= Len(s), Fills(s, c, FALSE, kept)
    PROVE  Fills(Append(s, t), c, TRUE, Ended(s, t, s[c].text, c + 2, kept))
<1> DEFINE S == Append(s, t)
           n == Len(s)
           name == s[c].text
           after == Ended(s, t, name, c + 2, kept)
<1>1. /\ n \in Nat /\ Len(S) = n + 1 /\ (\A k \in 1..n : S[k] = s[k])
  BY TextGrows
<1>2. c \in Begun(s, 1, 1) /\ c \in 1..n
  <2>1. c \in Starts(s, 1, 1)
    BY DEF Level
  <2>2. Begun(s, 1, 1) \subseteq (1 + 1)..n
    BY BegunFinite
  <2> QED
    BY <1>1, <2>1, <2>2 DEF Begun
<1>3. \A b, e : Closed(S, 1, 1, b, e) <=> Closed(s, 1, 1, b, e)
  BY ClosedStays
<1>4. ASSUME NEW b, NEW e, Closed(s, 1, 1, b, e)
      PROVE  Filled(S, b, e, kept) /\ S[b].text = s[b].text /\ s[b].text # name
  <2>1. Filled(s, b, e, kept)
    BY <1>4 DEF Fills, Part
  <2>2. /\ b \in Nat \ {0} /\ e \in 0..n /\ Member(s, frame.is, b, e) /\ b < c
    BY <1>4, ClosedRange
  <2>3. b \in Begun(s, 1, 1)
    BY <1>1, <1>2, <1>4, <2>2 DEF Closed, Begun
  <2>4. s[b].text # name
    <3>1. \A a, d \in Begun(s, 1, 1) : s[a].text = s[d].text => a = d
      BY DEF Level, KeysKept
    <3>2. b # c
      BY <1>2, <2>2
    <3> QED
      BY <1>2, <2>3, <3>1, <3>2
  <2>5. (Filled(s, b, e, kept) => Filled(S, b, e, kept)) /\ S[b] = s[b]
    BY <2>2, FilledStays
  <2> QED
    BY <2>1, <2>4, <2>5
<1>5. S[c].text = name
  BY <1>1, <1>2
<1> HIDE DEF S, n, name
<1>6. DOMAIN after = DOMAIN kept \cup {name} /\ after[name] = SubSeq(S, c + 2, n + 1)
      /\ \A f \in DOMAIN kept : f # name => after[f] = kept[f]
  BY DEF Ended, S, n
<1> HIDE DEF after
<1>7. ASSUME NEW b, NEW e, Part(S, c, TRUE, b, e)
      PROVE  Filled(S, b, e, after)
  <2>1. CASE Closed(s, 1, 1, b, e)
    BY <1>4, <1>6, <2>1 DEF Filled, S, n, name
  <2>2. CASE b = c /\ e = n + 1
    BY <1>5, <1>6, <2>2 DEF Filled
  <2> QED
    BY <1>1, <1>3, <1>7, <2>1, <2>2 DEF Part
<1>8. ASSUME NEW f \in DOMAIN after
      PROVE  \E b, e : Part(S, c, TRUE, b, e) /\ S[b].text = f
  <2>1. CASE f = name
    BY <1>1, <1>5, <2>1 DEF Part
  <2>2. CASE f # name
    <3>1. PICK b, e : Part(s, c, FALSE, b, e) /\ s[b].text = f
      BY <1>6, <2>2 DEF Fills
    <3>2. Closed(s, 1, 1, b, e)
      BY <3>1 DEF Part
    <3> QED
      BY <1>3, <1>4, <3>1, <3>2 DEF Part
  <2> QED
    BY <2>1, <2>2
<1>9. Fills(S, c, TRUE, after)
  BY <1>7, <1>8 DEF Fills
<1> QED
  BY <1>9 DEF S, n, name, after

\* Behind a comma the next member begins, and the last one stays kept.
LEMMA FillsSeparate ==
    ASSUME NEW s \in Seq(Tokens), NEW t \in Tokens, NEW c, NEW frame, NEW kept, NEW d,
           Level(s, 1, 1, c, frame), frame.is # "array", Separates(s, t, 1),
           Member(s, frame.is, c, Len(s)), Fills(s, c, TRUE, kept)
    PROVE  Fills(Append(s, t), d, FALSE, kept)
<1> DEFINE S == Append(s, t)
           n == Len(s)
<1>1. \A b, e : Closed(S, 1, 1, b, e) <=> Part(s, c, TRUE, b, e)
  BY LevelSeparates DEF Part
<1>2. n \in Nat /\ c \in Nat \ {0}
  <2>1. c \in Starts(s, 1, 1) /\ n \in Nat
    BY TextGrows DEF Level
  <2>2. Starts(s, 1, 1) \subseteq (1 + 1)..(n + 1)
    BY BegunFinite
  <2> QED
    BY <2>1, <2>2
<1>3. ASSUME NEW b, NEW e, Part(s, c, TRUE, b, e)
      PROVE  Filled(S, b, e, kept) /\ S[b].text = s[b].text
  <2>1. Filled(s, b, e, kept)
    BY <1>3 DEF Fills
  <2>2. b \in Nat \ {0} /\ e \in 0..n /\ Member(s, frame.is, b, e)
    <3>1. CASE Closed(s, 1, 1, b, e)
      BY <3>1, ClosedRange
    <3>2. CASE b = c /\ e = n
      BY <1>2, <3>2
    <3> QED
      BY <1>3, <3>1, <3>2 DEF Part
  <2>3. (Filled(s, b, e, kept) => Filled(S, b, e, kept)) /\ S[b] = s[b]
    BY <2>2, FilledStays
  <2> QED
    BY <2>1, <2>3
<1> HIDE DEF S, n
<1>4. \A b, e : Part(S, d, FALSE, b, e) <=> Part(s, c, TRUE, b, e)
  BY <1>1 DEF Part
<1>5. ASSUME NEW f \in DOMAIN kept
      PROVE  \E b, e : Part(S, d, FALSE, b, e) /\ S[b].text = f
  <2>1. PICK b, e : Part(s, c, TRUE, b, e) /\ s[b].text = f
    BY DEF Fills
  <2> QED
    BY <1>3, <1>4, <2>1
<1>6. \A b, e : Part(S, d, FALSE, b, e) => Filled(S, b, e, kept)
  BY <1>3, <1>4
<1> QED
  BY <1>5, <1>6 DEF Fills, S

\* The envelope is closed: its members are the fields kept.
Whole(s, kept) ==
    /\ s[1].is = Opening("envelope") /\ s[Len(s)].is = Closing("envelope")
    /\ Named(s, OuterMembers(s))
    /\ \A m \in OuterMembers(s) :
          /\ m[1] \in Nat /\ m[2] \in Nat /\ m[1] + 2 <= m[2] /\ m[2] < Len(s)
          /\ IsValue(s)[<<m[1] + 2, m[2]>>]
          /\ Filled(s, m[1], m[2], kept)
    /\ \A f \in DOMAIN kept : \E m \in OuterMembers(s) : s[m[1]].text = f

\* A bracket is no comma.
LEMMA BracketsAre ==
    ASSUME NEW kind
    PROVE  Opening(kind) # "," /\ Closing(kind) # ","
BY Zenon DEF Opening, Closing

\* When the envelope is closed, its members are what has been kept.
LEMMA FillsWhole ==
    ASSUME NEW s \in Seq(Tokens), NEW t \in Tokens, NEW c, NEW frame, NEW kept,
           Level(s, 1, 1, c, frame), frame.is = "envelope", t.is = Closing(frame.is),
           Member(s, frame.is, c, Len(s)), Fills(s, c, TRUE, kept)
    PROVE  Whole(Append(s, t), kept)
<1> DEFINE S == Append(s, t)
           n == Len(s)
           C == Commas(s, 1, 1)
<1>1. /\ n \in Nat /\ Len(S) = n + 1 /\ (\A k \in 1..n : S[k] = s[k]) /\ S[n + 1] = t
      /\ S \in Seq(Tokens) /\ 1 \in 1..n /\ s[1].is = Opening(frame.is)
  BY TextGrows DEF Level
<1>2. OuterMembers(S) = Stretches(2, n, C)
  <2>1. \A k \in 0..n : Depth(S, k) = Depth(s, k)
    BY DepthGrows
  <2>2. DOMAIN S = 1..(n + 1)
    BY <1>1
  <2>3. C = {k \in 2..n : s[k].is = "," /\ Depth(s, k) = 1}
    <3>1. 1 + 1 = 2
      OBVIOUS
    <3> QED
      BY <3>1 DEF Commas
  <2> HIDE DEF S, n, C
  <2>4. \A k \in 1..(n + 1) : k = 1 \/ k = n + 1 \/ (k \in 2..n /\ k \in 1..n /\ k \in 0..n)
    BY <1>1
  <2>5. S[1].is # "," /\ S[n + 1].is # ","
    BY <1>1, BracketsAre
  <2>6. \A k \in 2..n : k \in 1..(n + 1) /\ k \in 1..n /\ k \in 0..n
    BY <1>1
  <2>7. {k \in DOMAIN S : S[k].is = "," /\ Depth(S, k) = 1} = C
    BY <1>1, <2>1, <2>2, <2>3, <2>4, <2>5, <2>6
  <2>8. Len(S) - 1 = n
    BY <1>1
  <2> QED
    BY <2>7, <2>8 DEF OuterMembers
<1>3. /\ \A m \in OuterMembers(S) :
                /\ m = <<m[1], m[2]>>
                /\ Part(s, c, TRUE, m[1], m[2])
      /\ \A b, e : Part(s, c, TRUE, b, e) => <<b, e>> \in OuterMembers(S)
      /\ \A m, o \in OuterMembers(S) : m[1] = o[1] => m = o
  <2>1. 1 + 1 = 2
    OBVIOUS
  <2>2. OuterMembers(S) = Stretches(1 + 1, Len(s), Commas(s, 1, 1))
    BY <1>2, <2>1
  <2> HIDE DEF S, n, C
  <2>3. /\ \A m \in Stretches(1 + 1, Len(s), Commas(s, 1, 1)) :
                /\ m = <<m[1], m[2]>> /\ m[1] \in Starts(s, 1, 1)
                /\ Closed(s, 1, 1, m[1], m[2]) \/ (m[1] = c /\ m[2] = Len(s))
        /\ \A b, e : Closed(s, 1, 1, b, e) \/ (b = c /\ e = Len(s)) =>
                  <<b, e>> \in Stretches(1 + 1, Len(s), Commas(s, 1, 1))
        /\ \A m, o \in Stretches(1 + 1, Len(s), Commas(s, 1, 1)) :
                  m[1] = o[1] => m = o
    BY PartsAre
  <2> QED
    BY <2>2, <2>3 DEF Part
<1>4. c \in Nat \ {0} /\ c \in Starts(s, 1, 1)
  <2>1. c \in Starts(s, 1, 1) /\ n \in Nat
    BY TextGrows DEF Level
  <2>2. Starts(s, 1, 1) \subseteq (1 + 1)..(n + 1)
    BY BegunFinite
  <2> QED
    BY <2>1, <2>2
<1>5. ASSUME NEW b, NEW e, Part(s, c, TRUE, b, e)
      PROVE  /\ b \in Nat \ {0} /\ e \in 0..n /\ b + 2 <= e
             /\ b \in Begun(s, 1, 1)
             /\ Member(S, frame.is, b, e)
             /\ Filled(S, b, e, kept) /\ S[b] = s[b]
  <2>1. Filled(s, b, e, kept)
    BY <1>5 DEF Fills
  <2>2. b \in Nat \ {0} /\ e \in 0..n /\ Member(s, frame.is, b, e) /\ b \in Starts(s, 1, 1)
    <3>1. CASE Closed(s, 1, 1, b, e)
      <4>1. b \in Nat \ {0} /\ e \in 0..n /\ Member(s, frame.is, b, e)
        BY <3>1, ClosedRange
      <4>2. b \in Starts(s, 1, 1)
        BY <3>1 DEF Closed
      <4> QED
        BY <4>1, <4>2
    <3>2. CASE b = c /\ e = n
      BY <1>1, <1>4, <3>2
    <3> QED
      BY <1>5, <3>1, <3>2 DEF Part
  <2>3. b + 2 <= e
    BY <2>2 DEF Member
  <2>4. b \in Begun(s, 1, 1)
    BY <1>1, <2>2, <2>3 DEF Begun
  <2>5. (Filled(s, b, e, kept) => Filled(S, b, e, kept)) /\ S[b] = s[b]
    BY <2>2, FilledStays
  <2>6. Member(S, frame.is, b, e)
    BY <2>2, MemberStays
  <2> QED
    BY <2>1, <2>2, <2>3, <2>4, <2>5, <2>6
<1> HIDE DEF S, n, C
<1>6. Named(S, OuterMembers(S))
  <2>1. \A a, b \in Begun(s, 1, 1) : s[a].text = s[b].text => a = b
    BY DEF Level, KeysKept
  <2>2. \A m \in OuterMembers(S) : /\ m[1] \in Begun(s, 1, 1) /\ S[m[1]] = s[m[1]]
                                   /\ Member(S, frame.is, m[1], m[2])
    BY <1>3, <1>5
  <2>3. \A m, o \in OuterMembers(S) : S[m[1]].text = S[o[1]].text => m[1] = o[1]
    BY <2>1, <2>2
  <2>4. \A m \in OuterMembers(S) : S[m[1]].is = "string" /\ S[m[1] + 1].is = ":"
    BY <2>2 DEF Member
  <2>5. \A m, o \in OuterMembers(S) : S[m[1]].text = S[o[1]].text => m = o
    BY <1>3, <2>3
  <2> QED
    BY <2>4, <2>5 DEF Named
<1>7. ASSUME NEW m \in OuterMembers(S)
      PROVE  /\ m[1] \in Nat /\ m[2] \in Nat /\ m[1] + 2 <= m[2] /\ m[2] < Len(S)
             /\ IsValue(S)[<<m[1] + 2, m[2]>>]
             /\ Filled(S, m[1], m[2], kept)
  <2>1. Part(s, c, TRUE, m[1], m[2])
    BY <1>3
  <2>2. /\ m[1] \in Nat \ {0} /\ m[2] \in 0..n /\ m[1] + 2 <= m[2]
        /\ Member(S, frame.is, m[1], m[2]) /\ Filled(S, m[1], m[2], kept)
    BY <1>5, <2>1
  <2>3. IsValue(S)[<<m[1] + 2, m[2]>>]
    BY <2>2 DEF Member
  <2> QED
    BY <1>1, <2>2, <2>3
<1>8. ASSUME NEW f \in DOMAIN kept
      PROVE  \E m \in OuterMembers(S) : S[m[1]].text = f
  <2>1. PICK b, e : Part(s, c, TRUE, b, e) /\ s[b].text = f
    BY DEF Fills
  <2>2. <<b, e>> \in OuterMembers(S) /\ S[b].text = f
    BY <1>3, <1>5, <2>1
  <2>3. <<b, e>>[1] = b
    OBVIOUS
  <2> QED
    BY <2>2, <2>3
<1>9. S[1].is = Opening("envelope") /\ S[Len(S)].is = Closing("envelope")
  BY <1>1
<1> QED
  BY <1>6, <1>7, <1>8, <1>9 DEF Whole, S
-----------------------------------------------------------------------------
\* What the reader is in the middle of: where it is in the container on top,
\* which field it reads, and how long the strings of tool_input are so far.
Progress(s, e, kind, p, c) ==
    /\ e = "first" => p = Len(s) /\ c = Len(s) + 1
    /\ e = "key" => kind # "array" /\ c = Len(s) + 1
    /\ e = "colon" => kind # "array" /\ c = Len(s) /\ s[c].is = "string"
    /\ e = "value" => Leads(s, kind, c, Len(s) + 1)
    /\ e = "more" => Member(s, kind, c, Len(s))

\* No string from i on is too long for tool_input.
Short(s, i) == \A k \in i..Len(s) : s[k].is = "string" => Size[s[k].text] <= MaxString

\* The field is the key of the last member, from where its value starts; inside
\* tool_input no string is too long and nothing too deep.
Naming(s, L, e, name, at, c) ==
    /\ L > 1 \/ e \in {"colon", "value"} => name = s[c].text
    /\ L > 1 \/ e = "value" => name \in Fields /\ at = c + 2
    /\ L > 1 => name = "tool_input" /\ at <= Len(s) /\ Short(s, at) /\ L <= MaxDepth

\* The reader inside the envelope: its open containers, where it is in the one
\* on top, and what the fields have been filled with.
Inside(s, e, frames, name, at, kept, open, start) ==
    /\ frames \in Seq(Frames) /\ frames # <<>> /\ Depth(s, Len(s)) = Len(frames)
    /\ Nest(s, frames, open, start)
    /\ Progress(s, e, frames[Len(frames)].is, open[Len(frames)], start[Len(frames)])
    /\ Fills(s, start[1], e = "more" /\ Len(frames) = 1, kept)
    /\ Naming(s, Len(frames), e, name, at, start[1])

\* The tokens that close a container, and those that separate its parts.
Closes(t) == t.is \in {"}", "]"}
Comma(t) == t.is = ","

\* A token is of one of these classes.
LEMMA TokenClasses ==
    ASSUME NEW t
    PROVE  /\ t.is \in {"string", "atom", "null", "broken", "junk", ":"} =>
                ~Opens(t) /\ ~Closes(t) /\ ~Comma(t)
           /\ Opens(t) => ~Closes(t) /\ ~Comma(t) /\ t.is # "string"
           /\ Closes(t) => ~Comma(t) /\ t.is # "string"
           /\ Comma(t) => ~Opens(t) /\ ~Closes(t) /\ t.is # "string"
           /\ \A kind : t.is = Opening(kind) => Opens(t)
           /\ \A kind : t.is = Closing(kind) => Closes(t)
BY Zenon DEF Opens, Closes, Comma, Opening, Closing

\* Brackets change the depth, other tokens do not.
LEMMA DepthMoves ==
    ASSUME NEW s \in Seq(Tokens), NEW t \in Tokens
    PROVE  /\ \A k \in 0..Len(s) : Depth(s, k) \in Int /\ Depth(Append(s, t), k) = Depth(s, k)
           /\ Opens(t) => Depth(Append(s, t), Len(Append(s, t))) = Depth(s, Len(s)) + 1
           /\ Closes(t) => Depth(Append(s, t), Len(Append(s, t))) = Depth(s, Len(s)) - 1
           /\ ~Opens(t) /\ ~Closes(t) =>
                Depth(Append(s, t), Len(Append(s, t))) = Depth(s, Len(s))
<1>1. Len(Append(s, t)) = Len(s) + 1
  BY TextGrows
<1>2. t.is \notin {"{", "[", "}", "]"} <=> ~Opens(t) /\ ~Closes(t)
  BY Zenon DEF Opens, Closes
<1>3. Opens(t) <=> t.is \in {"{", "["}
  BY Zenon DEF Opens
<1>4. Closes(t) <=> t.is \in {"}", "]"}
  BY Zenon DEF Closes
<1> QED
  BY Zenon, <1>1, <1>2, <1>3, <1>4, DepthGrows

\* What a reader inside the envelope knows of its stack.
LEMMA InsideTop ==
    ASSUME NEW s \in Seq(Tokens), NEW e, NEW frames, NEW name, NEW at, NEW kept,
           NEW open, NEW start, Inside(s, e, frames, name, at, kept, open, start)
    PROVE  /\ Len(s) \in Nat /\ Len(frames) \in Nat /\ Len(frames) >= 1
           /\ Len(frames) = 1 <=> ~(Len(frames) > 1)
           /\ open \in [Nat -> Nat] /\ start \in [Nat -> Nat]
           /\ Level(s, Len(frames), open[Len(frames)], start[Len(frames)], frames[Len(frames)])
           /\ open[Len(frames)] \in Nat /\ start[Len(frames)] \in Nat \ {0}
           /\ start[Len(frames)] <= Len(s) + 1
           /\ frames[Len(frames)] \in Frames
           /\ frames[Len(frames)].is = "envelope" <=> Len(frames) = 1
           /\ Level(s, 1, 1, start[1], frames[1])
           /\ frames[1].is = "envelope" /\ start[1] \in Nat \ {0}
           /\ Len(frames) > 1 => start[1] <= Len(s)
<1> DEFINE L == Len(frames)
           n == Len(s)
<1>1. /\ n \in Nat /\ L \in Nat /\ L >= 1 /\ L \in 1..L /\ 1 \in 1..L
      /\ open \in [Nat -> Nat] /\ start \in [Nat -> Nat]
  <2>1. L \in Nat /\ L >= 1
    BY StackDepth DEF Inside
  <2>2. Nest(s, frames, open, start)
    BY DEF Inside
  <2>3. open \in [Nat -> Nat] /\ start \in [Nat -> Nat]
    BY <2>2 DEF Nest
  <2>4. n \in Nat
    OBVIOUS
  <2>5. L \in 1..L /\ 1 \in 1..L
    BY ONLY <2>1
  <2> QED
    BY <2>1, <2>3, <2>4, <2>5
<1>2. /\ \A l \in 1..L : Level(s, l, open[l], start[l], frames[l])
      /\ \A l \in 1..L : frames[l].is = "envelope" <=> l = 1
      /\ open[1] = 1
  BY DEF Inside, Nest
<1>3. frames[L] \in Frames
  BY <1>1, ElementOfSeq DEF Inside
<1> HIDE DEF L, n
<1>4. ASSUME NEW l \in 1..L
      PROVE  start[l] \in Nat \ {0} /\ open[l] \in Nat /\ start[l] <= n + 1
  <2>1. l \in Nat /\ start[l] \in Nat /\ open[l] \in Nat
    <3>1. l \in Nat
      BY ONLY <1>1, l \in 1..L
    <3> QED
      BY ONLY <1>1, <3>1
  <2>2. start[l] \in Starts(s, l, open[l])
    BY <1>2 DEF Level
  <2>3. Starts(s, l, open[l]) \subseteq (open[l] + 1)..(n + 1)
    BY <2>1, BegunFinite DEF n
  <2> QED
    BY <1>1, <2>1, <2>2, <2>3
<1>5. L > 1 => start[1] <= n
  <2> SUFFICES ASSUME L > 1 PROVE start[1] <= n
    OBVIOUS
  <2>1. 1 \in 1..(Len(frames) - 1) /\ Depth(s, Len(s)) = Len(frames) /\ Len(frames) \in Nat
    BY <1>1 DEF L, Inside
  <2>2. PICK t \in Tokens : TRUE
    <3>1. [is |-> "junk", text |-> NoText] \in Tokens
      BY Zenon DEF Tokens, Marks
    <3> QED
      BY <3>1
  <2>3. start[1] \in 1..Len(s)
    BY <2>1, <2>2, NestBelow DEF Inside
  <2> QED
    BY <1>1, <2>3 DEF n
<1>6. Level(s, 1, 1, start[1], frames[1]) /\ frames[1].is = "envelope"
  BY <1>1, <1>2
<1>7. L = 1 <=> ~(L > 1)
  <2>1. L \in Nat /\ L >= 1
    BY <1>1
  <2> QED
    BY ONLY <2>1
<1> QED
  BY <1>1, <1>2, <1>3, <1>4, <1>5, <1>6, <1>7 DEF L, n
-----------------------------------------------------------------------------
\* The stack with another frame on top.
LEMMA TopReplaced ==
    ASSUME NEW frames \in Seq(Frames), frames # <<>>, NEW f \in Frames
    PROVE  /\ [frames EXCEPT ![Len(frames)] = f] \in Seq(Frames)
           /\ [frames EXCEPT ![Len(frames)] = f] # <<>>
           /\ Len([frames EXCEPT ![Len(frames)] = f]) = Len(frames)
           /\ [frames EXCEPT ![Len(frames)] = f][Len(frames)] = f
           /\ \A l \in 1..(Len(frames) - 1) :
                 [frames EXCEPT ![Len(frames)] = f][l] = frames[l]
<1>1. Len(frames) \in Nat /\ Len(frames) >= 1
  BY StackDepth
<1>2. Len(frames) \in 1..Len(frames)
  BY <1>1
<1>3. /\ [frames EXCEPT ![Len(frames)] = f] \in Seq(Frames)
      /\ Len([frames EXCEPT ![Len(frames)] = f]) = Len(frames)
      /\ [frames EXCEPT ![Len(frames)] = f][Len(frames)] = f
  BY <1>2, ExceptSeq
<1>4. \A l \in 1..(Len(frames) - 1) :
          /\ l \in 1..Len(frames) /\ l # Len(frames)
          /\ [frames EXCEPT ![Len(frames)] = f][l] = frames[l]
  <2>1. \A l \in 1..(Len(frames) - 1) : l \in 1..Len(frames) /\ l # Len(frames)
    BY ONLY <1>1
  <2> QED
    BY <1>2, <2>1, ExceptSeq
<1>5. [frames EXCEPT ![Len(frames)] = f] # <<>>
  BY <1>1, <1>3
<1> QED
  BY ZenonT(60), <1>3, <1>4, <1>5

\* A token that leaves the stack as deep as it was, f on top of it now.
LEMMA GoesOn ==
    ASSUME NEW s \in Seq(Tokens), NEW t \in Tokens, NEW e, NEW frames, NEW name, NEW at,
           NEW kept, NEW open, NEW start,
           Inside(s, e, frames, name, at, kept, open, start),
           NEW ee, NEW f \in Frames, NEW c \in Nat, NEW nname, NEW aat, NEW kkept,
           f.is = frames[Len(frames)].is, ~Opens(t), ~Closes(t),
           Level(Append(s, t), Len(frames), open[Len(frames)], c, f),
           Progress(Append(s, t), ee, f.is, open[Len(frames)], c),
           Fills(Append(s, t), IF Len(frames) = 1 THEN c ELSE start[1],
                 ee = "more" /\ Len(frames) = 1, kkept),
           Naming(Append(s, t), Len(frames), ee, nname, aat,
                  IF Len(frames) = 1 THEN c ELSE start[1])
    PROVE  Inside(Append(s, t), ee, [frames EXCEPT ![Len(frames)] = f], nname, aat, kkept,
                  open, [start EXCEPT ![Len(frames)] = c])
<1> DEFINE S == Append(s, t)
           L == Len(frames)
           after == [frames EXCEPT ![L] = f]
           begin == [start EXCEPT ![L] = c]
<1>1. /\ frames \in Seq(Frames) /\ frames # <<>> /\ Depth(s, Len(s)) = L
      /\ Nest(s, frames, open, start)
  BY DEF Inside
<1>2. /\ after \in Seq(Frames) /\ after # <<>> /\ Len(after) = L /\ after[L] = f
      /\ \A l \in 1..(L - 1) : after[l] = frames[l]
  BY <1>1, TopReplaced
<1>3. L \in Nat /\ L >= 1 /\ start \in [Nat -> Nat]
  BY InsideTop
<1>4. Depth(S, Len(S)) = L
  BY <1>1, DepthMoves
<1>5. begin[L] = c /\ begin[1] = IF L = 1 THEN c ELSE start[1]
  BY <1>3
<1> HIDE DEF after
<1>6. Nest(S, after, open, begin)
  BY <1>1, <1>2, NestKeeps
<1> HIDE DEF S, L, begin
<1>7. /\ Progress(S, ee, f.is, open[L], c)
      /\ Fills(S, IF L = 1 THEN c ELSE start[1], ee = "more" /\ L = 1, kkept)
      /\ Naming(S, L, ee, nname, aat, IF L = 1 THEN c ELSE start[1])
  BY DEF S, L
<1>8. Inside(S, ee, after, nname, aat, kkept, open, begin)
  BY <1>2, <1>4, <1>5, <1>6, <1>7 DEF Inside
<1> QED
  BY <1>8 DEF S, L, after, begin

\* What is read in tool_input belongs to it.
LEMMA NamingStays ==
    ASSUME NEW s \in Seq(Tokens), NEW t \in Tokens, NEW L \in Nat, NEW e, NEW ee,
           NEW name, NEW at, NEW c \in Nat \ {0}, c <= Len(s), L > 1,
           Naming(s, L, e, name, at, c),
           t.is = "string" => Size[t.text] <= MaxString
    PROVE  Naming(Append(s, t), L, ee, name, at, c)
<1> DEFINE S == Append(s, t)
           n == Len(s)
<1>1. /\ n \in Nat /\ Len(S) = n + 1 /\ (\A k \in 1..n : S[k] = s[k]) /\ S[n + 1] = t
  BY TextGrows
<1>2. /\ name = s[c].text /\ name \in Fields /\ at = c + 2 /\ name = "tool_input"
      /\ at <= n /\ Short(s, at) /\ L <= MaxDepth
  BY DEF Naming
<1> HIDE DEF S, n
<1>3. Short(S, at)
  <2> SUFFICES ASSUME NEW k \in at..Len(S), S[k].is = "string"
               PROVE  Size[S[k].text] <= MaxString
    BY DEF Short
  <2>1. k = n + 1 \/ (k \in at..n /\ k \in 1..n)
    BY <1>1, <1>2
  <2>2. CASE k = n + 1
    BY <1>1, <2>2
  <2>3. CASE k \in at..n /\ k \in 1..n
    <3>1. S[k] = s[k]
      BY <1>1, <2>3
    <3>2. s[k].is = "string" => Size[s[k].text] <= MaxString
      BY <1>2, <2>3 DEF Short, n
    <3> QED
      BY <3>1, <3>2
  <2> QED
    BY <2>1, <2>2, <2>3
<1>4. S[c].text = name /\ at <= Len(S)
  <2>1. c \in 1..n
    BY <1>1 DEF n
  <2>2. S[c] = s[c]
    BY <1>1, <2>1
  <2>3. at <= Len(S)
    BY <1>1, <1>2
  <2> QED
    BY <1>2, <2>2, <2>3
<1> QED
  BY <1>2, <1>3, <1>4 DEF Naming, S

\* What is kept does not change when nothing of the envelope is complete.
LEMMA KeptStays ==
    ASSUME NEW s \in Seq(Tokens), NEW t \in Tokens, NEW e, NEW frames, NEW name, NEW at,
           NEW kept, NEW open, NEW start, NEW d,
           Inside(s, e, frames, name, at, kept, open, start),
           e # "more" \/ Len(frames) > 1, ~Comma(t) \/ Len(frames) > 1
    PROVE  Fills(Append(s, t), d, FALSE, kept)
<1>1. Len(frames) \in Nat /\ Depth(s, Len(s)) = Len(frames)
  BY InsideTop DEF Inside
<1>2. ~Separates(s, t, 1)
  <2>1. Len(frames) > 1 => Depth(s, Len(s)) # 1
    BY <1>1
  <2> QED
    BY Zenon, <2>1 DEF Separates, Comma
<1>3. Fills(s, start[1], e = "more" /\ Len(frames) = 1, kept)
  BY DEF Inside
<1>4. (e = "more" /\ Len(frames) = 1) = FALSE
  BY <1>1
<1>5. Fills(s, start[1], FALSE, kept)
  BY Zenon, <1>3, <1>4
<1>6. Level(s, 1, 1, start[1], frames[1]) /\ frames[1].is # "array"
  BY InsideTop
<1> QED
  BY <1>2, <1>5, <1>6, FillsKeep
-----------------------------------------------------------------------------
\* One lemma per kind of token the reader goes on with.
LEMMA KeyTaken ==
    ASSUME NEW s \in Seq(Tokens), NEW t \in Tokens, NEW e \in {"first", "key"},
           NEW frames, NEW name, NEW at, NEW kept, NEW open, NEW start,
           Inside(s, e, frames, name, at, kept, open, start),
           NEW f \in Frames, f.is = frames[Len(frames)].is, f.is # "array",
           f.count = frames[Len(frames)].count + 1,
           f.keys = frames[Len(frames)].keys \cup {t.text},
           t.is = "string", t.text \notin frames[Len(frames)].keys,
           Len(frames) > 1 => frames[Len(frames)].count < MaxMembers,
           Len(frames) > 1 => Size[t.text] <= MaxString,
           MaxElements \in Nat, MaxMembers \in Nat
    PROVE  Inside(Append(s, t), "colon", [frames EXCEPT ![Len(frames)] = f],
                  IF Len(frames) = 1 THEN t.text ELSE name, at, kept,
                  open, [start EXCEPT ![Len(frames)] = Len(s) + 1])
<1> DEFINE S == Append(s, t)
           n == Len(s)
           L == Len(frames)
<1>1. /\ n \in Nat /\ L \in Nat /\ L >= 1 /\ (L = 1 <=> ~(L > 1))
      /\ Level(s, L, open[L], start[L], frames[L])
      /\ frames[L] \in Frames /\ (frames[L].is = "envelope" <=> L = 1)
      /\ start[1] \in Nat \ {0} /\ (L > 1 => start[1] <= n)
  BY InsideTop
<1>2. ~Opens(t) /\ ~Closes(t) /\ ~Comma(t)
  BY TokenClasses
<1>3. start[L] = n + 1
  BY DEF Inside, Progress
<1>4. ~Separates(s, t, L)
  BY Zenon, <1>2 DEF Separates, Comma
<1>5. Level(S, L, open[L], n + 1, f)
  <2>1. f.is # "envelope" => frames[L].count < Room(f.is)
    <3>1. Room(f.is) = MaxMembers
      BY DEF Room
    <3>2. f.is # "envelope" => L > 1
      <4>1. L # 1 => L > 1
        BY <1>1
      <4> QED
        BY <1>1, <4>1
    <3> QED
      BY <3>1, <3>2
  <2> QED
    BY <1>1, <1>3, <1>4, <2>1, LevelCounts
<1>6. Len(S) = n + 1 /\ S[n + 1] = t /\ \A k \in 1..n : S[k] = s[k]
  BY TextGrows
<1>7. Progress(S, "colon", f.is, open[L], n + 1)
  BY <1>6 DEF Progress
<1>8. Fills(S, IF L = 1 THEN n + 1 ELSE start[1], FALSE, kept)
  BY <1>2, KeptStays
<1>9. Naming(S, L, "colon", IF L = 1 THEN t.text ELSE name, at,
             IF L = 1 THEN n + 1 ELSE start[1])
  <2>1. CASE L = 1
    <3>1. S[n + 1].text = t.text
      BY <1>6
    <3> QED
      BY <2>1, <3>1 DEF Naming
  <2>2. CASE L > 1
    <3>1. Naming(s, L, e, name, at, start[1])
      BY DEF Inside
    <3>2. Naming(S, L, "colon", name, at, start[1])
      BY <1>1, <2>2, <3>1, NamingStays
    <3> QED
      BY <1>1, <2>2, <3>2
  <2>3. L = 1 \/ L > 1
    BY <1>1
  <2> QED
    BY ONLY <2>1, <2>2, <2>3
<1>10. ("colon" = "more" /\ L = 1) = FALSE
  OBVIOUS
<1>11. Fills(S, IF L = 1 THEN n + 1 ELSE start[1], "colon" = "more" /\ L = 1, kept)
  BY Zenon, <1>8, <1>10
<1>12. n + 1 \in Nat
  BY <1>1
<1> HIDE DEF S, n, L
<1> QED
  BY <1>2, <1>5, <1>7, <1>9, <1>11, <1>12, GoesOn DEF S, n, L

\* A colon behind the key: the value starts at the next token.
LEMMA ColonTaken ==
    ASSUME NEW s \in Seq(Tokens), NEW t \in Tokens,
           NEW frames, NEW name, NEW at, NEW aat, NEW kept, NEW open, NEW start,
           Inside(s, "colon", frames, name, at, kept, open, start), t.is = ":",
           Len(frames) = 1 => name \in Fields,
           aat = IF Len(frames) = 1 THEN Len(s) + 2 ELSE at
    PROVE  Inside(Append(s, t), "value", [frames EXCEPT ![Len(frames)] = frames[Len(frames)]],
                  name, aat, kept,
                  open, [start EXCEPT ![Len(frames)] = start[Len(frames)]])
<1> DEFINE S == Append(s, t)
           n == Len(s)
           L == Len(frames)
           c == start[L]
<1>1. /\ n \in Nat /\ L \in Nat /\ L >= 1 /\ (L = 1 <=> ~(L > 1))
      /\ Level(s, L, open[L], c, frames[L])
      /\ frames[L] \in Frames /\ c \in Nat \ {0}
      /\ start[1] \in Nat \ {0} /\ (L > 1 => start[1] <= n)
  BY InsideTop
<1>2. ~Opens(t) /\ ~Closes(t) /\ ~Comma(t) /\ t.is # "string"
  <2>1. t.is # "string"
    BY Zenon
  <2> QED
    BY <2>1, TokenClasses
<1>3. c = n /\ frames[L].is # "array" /\ s[c].is = "string"
  BY DEF Inside, Progress
<1>4. ~Separates(s, t, L)
  BY Zenon, <1>2 DEF Separates, Comma
<1>5. Level(S, L, open[L], c, frames[L])
  <2>1. c <= n
    BY <1>1, <1>3
  <2> QED
    BY <1>1, <1>4, <2>1, LevelKeeps
<1>6. Len(S) = n + 1 /\ S[n + 1] = t /\ (\A k \in 1..n : S[k] = s[k]) /\ c \in 1..n
  BY <1>1, <1>3, TextGrows
<1>7. Progress(S, "value", frames[L].is, open[L], c)
  <2>1. c + 2 = Len(S) + 1 /\ S[c].is = "string" /\ S[c + 1].is = ":"
    BY <1>1, <1>3, <1>6
  <2> QED
    BY <1>3, <2>1 DEF Progress, Leads
<1>8. Fills(S, IF L = 1 THEN c ELSE start[1], FALSE, kept)
  BY <1>2, KeptStays
<1>9. Naming(S, L, "value", name, aat, IF L = 1 THEN c ELSE start[1])
  <2>0. Naming(s, L, "colon", name, at, start[1])
    BY DEF Inside
  <2>1. CASE L = 1
    <3>1. name = s[c].text
      BY <2>0, <2>1 DEF Naming
    <3>2. S[c].text = name /\ aat = c + 2
      BY <1>3, <1>6, <2>1, <3>1
    <3>3. ~(L > 1) /\ (IF L = 1 THEN c ELSE start[1]) = c
      BY <2>1
    <3>4. name \in Fields
      BY <2>1
    <3> HIDE DEF S, L, c
    <3> QED
      BY Zenon, <3>2, <3>3, <3>4 DEF Naming
  <2>2. CASE L > 1
    <3>2. Naming(S, L, "value", name, at, start[1])
      BY <1>1, <1>2, <2>0, <2>2, NamingStays
    <3> QED
      BY <1>1, <2>2, <3>2
  <2>3. L = 1 \/ L > 1
    BY <1>1
  <2> QED
    BY ONLY <2>1, <2>2, <2>3
<1>10. ("value" = "more" /\ L = 1) = FALSE
  OBVIOUS
<1>11. Fills(S, IF L = 1 THEN c ELSE start[1], "value" = "more" /\ L = 1, kept)
  BY Zenon, <1>8, <1>10
<1>12. c \in Nat
  BY <1>1
<1> HIDE DEF S, n, L, c
<1> QED
  BY <1>1, <1>2, <1>5, <1>7, <1>9, <1>11, <1>12, GoesOn DEF S, L, c

\* A value begins: as an element it is counted, behind a key it is not.
LEMMA ValueBegins ==
    ASSUME NEW s \in Seq(Tokens), NEW t \in Tokens, NEW e, NEW frames, NEW name, NEW at,
           NEW kept, NEW open, NEW start,
           Inside(s, e, frames, name, at, kept, open, start),
           \/ e = "value"
           \/ e = "first" /\ frames[Len(frames)].is = "array",
           ~Comma(t), NEW f, f.is = frames[Len(frames)].is,
           f.is = "array" => /\ f.count = frames[Len(frames)].count + 1
                             /\ frames[Len(frames)].count < MaxElements,
           f.is # "array" => f = frames[Len(frames)],
           MaxElements \in Nat, MaxMembers \in Nat
    PROVE  /\ Level(Append(s, t), Len(frames), open[Len(frames)], start[Len(frames)], f)
           /\ Leads(Append(s, t), f.is, start[Len(frames)], Len(s) + 1)
           /\ f.is # "array" => start[Len(frames)] + 2 = Len(s) + 1
<1> DEFINE S == Append(s, t)
           n == Len(s)
           L == Len(frames)
           c == start[L]
<1>1. /\ n \in Nat /\ Level(s, L, open[L], c, frames[L])
      /\ frames[L] \in Frames /\ (frames[L].is = "envelope" <=> L = 1) /\ c \in Nat \ {0}
  BY InsideTop
<1>2. ~Separates(s, t, L)
  BY Zenon DEF Separates, Comma
<1>3. \A k \in 1..n : S[k] = s[k]
  BY TextGrows
<1>4. Leads(s, f.is, c, n + 1)
  <2>1. Progress(s, e, f.is, open[L], c)
    BY DEF Inside
  <2>2. CASE e = "value"
    BY <2>1, <2>2 DEF Progress
  <2>3. CASE e = "first" /\ f.is = "array"
    BY <2>1, <2>3 DEF Progress, Leads
  <2> QED
    BY <2>2, <2>3
<1> HIDE DEF S, n, L, c
<1>5. CASE f.is = "array"
  <2>1. c = n + 1
    BY <1>4, <1>5 DEF Leads
  <2>2. f.is # "envelope" => frames[L].count < Room(f.is)
    BY <1>5 DEF Room, L
  <2>3. Level(s, L, open[L], Len(s) + 1, frames[L])
    BY <1>1, <2>1 DEF n
  <2>4. /\ f.is = frames[L].is /\ f.count = frames[L].count + 1
        /\ frames[L].is = "array"
    BY <1>5 DEF L
  <2>5. Level(S, L, open[L], Len(s) + 1, f)
    BY <1>2, <2>2, <2>3, <2>4, LevelCounts DEF S
  <2>6. Leads(S, f.is, c, n + 1)
    BY <1>5, <2>1 DEF Leads
  <2> QED
    BY <1>5, <2>1, <2>5, <2>6 DEF S, n, L, c
<1>6. CASE f.is # "array"
  <2>1. c + 2 = n + 1 /\ s[c].is = "string" /\ s[c + 1].is = ":"
    BY <1>4, <1>6 DEF Leads
  <2>2. c <= n /\ c \in 1..n /\ c + 1 \in 1..n
    BY <1>1, <2>1
  <2>3. f = frames[L] /\ c <= Len(s)
    BY <1>6, <2>2 DEF L, n
  <2>4. Level(S, L, open[L], c, f)
    BY <1>1, <1>2, <2>3, LevelKeeps DEF S
  <2>5. Leads(S, f.is, c, n + 1)
    BY <1>3, <1>6, <2>1, <2>2 DEF Leads
  <2> QED
    BY <2>1, <2>4, <2>5 DEF S, n, L, c
<1> QED
  BY <1>5, <1>6

\* One token that is no punctuation is a value.
LEMMA ScalarIsValue ==
    ASSUME NEW s \in Seq(Tokens), NEW t \in Tokens, t.is \in {"string", "atom", "null"}
    PROVE  IsValue(Append(s, t))[<<Len(s) + 1, Len(s) + 1>>]
<1> DEFINE S == Append(s, t)
           m == <<Len(s) + 1, Len(s) + 1>>
<1>1. S \in Seq(Tokens) /\ Len(S) = Len(s) + 1 /\ S[Len(s) + 1] = t /\ Len(s) \in Nat
  BY TextGrows
<1>2. m \in Pairs(S)
  BY <1>1 DEF Pairs
<1>3. IsScalar(S, m)
  BY <1>1 DEF IsScalar
<1> HIDE DEF S, m
<1>4. IsValue(S)[m]
  BY <1>1, <1>2, <1>3, ValueRecursion DEF ValueIn
<1> QED
  BY <1>4 DEF S, m

\* A scalar, which is a value and completes a part.
LEMMA ScalarTaken ==
    ASSUME NEW s \in Seq(Tokens), NEW t \in Tokens, NEW e, NEW frames, NEW name, NEW at,
           NEW kept, NEW open, NEW start,
           Inside(s, e, frames, name, at, kept, open, start),
           \/ e = "value"
           \/ e = "first" /\ frames[Len(frames)].is = "array",
           t.is \in {"string", "atom", "null"},
           Len(frames) > 1 /\ t.is = "string" => Size[t.text] <= MaxString,
           NEW f \in Frames, f.is = frames[Len(frames)].is,
           f.is = "array" => /\ f.count = frames[Len(frames)].count + 1
                             /\ frames[Len(frames)].count < MaxElements,
           f.is # "array" => f = frames[Len(frames)],
           MaxElements \in Nat, MaxMembers \in Nat
    PROVE  Inside(Append(s, t), "more", [frames EXCEPT ![Len(frames)] = f], name, at,
                  IF Len(frames) = 1 THEN Ended(s, t, name, at, kept) ELSE kept,
                  open, [start EXCEPT ![Len(frames)] = start[Len(frames)]])
<1> DEFINE S == Append(s, t)
           n == Len(s)
           L == Len(frames)
           c == start[L]
           kkept == IF L = 1 THEN Ended(s, t, name, at, kept) ELSE kept
<1>1. /\ n \in Nat /\ L \in Nat /\ L >= 1 /\ (L = 1 <=> ~(L > 1))
      /\ frames[L].is = "envelope" <=> L = 1
      /\ c \in Nat \ {0} /\ c <= n + 1
      /\ Level(s, 1, 1, start[1], frames[1]) /\ frames[1].is = "envelope"
      /\ start[1] \in Nat \ {0} /\ (L > 1 => start[1] <= n)
  BY InsideTop
<1>2. ~Opens(t) /\ ~Closes(t) /\ ~Comma(t)
  BY TokenClasses
<1>3. /\ Level(S, L, open[L], c, f) /\ Leads(S, f.is, c, n + 1)
      /\ f.is # "array" => c + 2 = n + 1
  BY <1>2, ValueBegins
<1>4. IsValue(S)[<<n + 1, n + 1>>] /\ Len(S) = n + 1
  BY ScalarIsValue, TextGrows
<1> HIDE DEF S
<1>5. Progress(S, "more", f.is, open[L], c)
  <2> HIDE DEF n, L, c
  <2>1. CASE f.is = "array"
    <3>1. c = n + 1
      BY <1>3, <2>1 DEF Leads
    <3> QED
      BY <1>1, <1>4, <2>1, <3>1 DEF Progress, Member
  <2>2. CASE f.is # "array"
    <3>1. c + 2 = n + 1 /\ S[c].is = "string" /\ S[c + 1].is = ":" /\ n + 1 <= n + 1
      BY <1>1, <1>3, <2>2 DEF Leads
    <3> QED
      BY <1>4, <2>2, <3>1 DEF Progress, Member
  <2> QED
    BY <2>1, <2>2
<1>6. Fills(S, IF L = 1 THEN c ELSE start[1], "more" = "more" /\ L = 1, kkept)
  <2>1. CASE L = 1
    <3>1. e = "value"
      BY <1>1, <2>1
    <3>2. Fills(s, start[1], FALSE, kept)
      <4>1. Fills(s, start[1], e = "more" /\ L = 1, kept)
        BY DEF Inside
      <4>2. (e = "more" /\ L = 1) = FALSE
        BY <3>1
      <4> QED
        BY Zenon, <4>1, <4>2
    <3>3. ~Separates(s, t, 1)
      BY Zenon, <1>2 DEF Separates, Comma
    <3>4. name = s[c].text /\ at = c + 2
      <4>1. Naming(s, L, e, name, at, start[1])
        BY DEF Inside
      <4> QED
        BY <2>1, <3>1, <4>1 DEF Naming
    <3>5. c <= n /\ c = start[1]
      <4>1. c + 2 = n + 1
        BY <1>1, <1>3, <2>1
      <4> QED
        BY <1>1, <2>1, <4>1
    <3>6. Fills(S, c, TRUE, Ended(s, t, s[c].text, c + 2, kept))
      <4>1. /\ Level(s, 1, 1, c, frames[1]) /\ frames[1].is # "array"
            /\ c <= Len(s) /\ Fills(s, c, FALSE, kept)
        BY <1>1, <3>2, <3>5
      <4> QED
        BY <3>3, <4>1, FillsEnd DEF S
    <3>7. Fills(S, c, TRUE, kkept)
      BY <2>1, <3>4, <3>6
    <3>8. ("more" = "more" /\ L = 1) = TRUE
      BY <2>1
    <3> QED
      BY Zenon, <2>1, <3>7, <3>8
  <2>2. CASE L > 1
    <3>1. Fills(S, start[1], FALSE, kept)
      BY <1>2, <2>2, KeptStays DEF S
    <3>2. ("more" = "more" /\ L = 1) = FALSE
      BY <1>1, <2>2
    <3> QED
      BY Zenon, <1>1, <2>2, <3>1, <3>2
  <2> QED
    BY <1>1, <2>1, <2>2
<1>7. Naming(S, L, "more", name, at, IF L = 1 THEN c ELSE start[1])
  <2>1. CASE L = 1
    <3>1. ~(L > 1)
      BY <1>1, <2>1
    <3> HIDE DEF L, c
    <3> QED
      BY <3>1 DEF Naming
  <2>2. CASE L > 1
    <3>1. Naming(s, L, e, name, at, start[1])
      BY DEF Inside
    <3>2. Naming(S, L, "more", name, at, start[1])
      BY <1>1, <2>2, <3>1, NamingStays DEF S
    <3> QED
      BY <1>1, <2>2, <3>2
  <2> QED
    BY <1>1, <2>1, <2>2
<1> HIDE DEF n, L, c, kkept
<1>8. c \in Nat
  BY <1>1
<1> QED
  BY <1>2, <1>3, <1>5, <1>6, <1>7, <1>8, GoesOn DEF S, n, L, c, kkept

\* A container, opened in tool_input or below it.
LEMMA ContainerTaken ==
    ASSUME NEW s \in Seq(Tokens), NEW t \in Tokens, NEW e, NEW frames, NEW name, NEW at,
           NEW kept, NEW open, NEW start,
           Inside(s, e, frames, name, at, kept, open, start),
           \/ e = "value"
           \/ e = "first" /\ frames[Len(frames)].is = "array",
           NEW kind \in {"object", "array"}, t.is = Opening(kind),
           Len(frames) = 1 => name = "tool_input",
           Len(frames) + 1 <= MaxDepth,
           NEW f \in Frames, f.is = frames[Len(frames)].is,
           f.is = "array" => /\ f.count = frames[Len(frames)].count + 1
                             /\ frames[Len(frames)].count < MaxElements,
           f.is # "array" => f = frames[Len(frames)],
           MaxElements \in Nat, MaxMembers \in Nat
    PROVE  Inside(Append(s, t), "first",
                  Append([frames EXCEPT ![Len(frames)] = f], Frame(kind)), name, at, kept,
                  [open EXCEPT ![Len(frames) + 1] = Len(s) + 1],
                  [[start EXCEPT ![Len(frames)] = start[Len(frames)]]
                      EXCEPT ![Len(frames) + 1] = Len(s) + 2])
<1> DEFINE S == Append(s, t)
           n == Len(s)
           L == Len(frames)
           c == start[L]
           after == [frames EXCEPT ![L] = f]
           begin == [start EXCEPT ![L] = c]
           opened == [open EXCEPT ![L + 1] = n + 1]
           begun == [begin EXCEPT ![L + 1] = n + 2]
           deeper == Append(after, Frame(kind))
<1>1. /\ n \in Nat /\ L \in Nat /\ L >= 1 /\ (L = 1 <=> ~(L > 1))
      /\ frames[L].is = "envelope" <=> L = 1
      /\ c \in Nat \ {0} /\ c <= n + 1 /\ start \in [Nat -> Nat] /\ open \in [Nat -> Nat]
      /\ start[1] \in Nat \ {0} /\ (L > 1 => start[1] <= n)
  BY InsideTop
<1>2. Opens(t) /\ ~Closes(t) /\ ~Comma(t) /\ t.is # "string"
  BY TokenClasses
<1>3. /\ Level(S, L, open[L], c, f) /\ Leads(S, f.is, c, n + 1)
      /\ f.is # "array" => c + 2 = n + 1
  BY <1>2, ValueBegins
<1>4. /\ frames \in Seq(Frames) /\ frames # <<>> /\ Depth(s, n) = L
      /\ Nest(s, frames, open, start)
  BY DEF Inside
<1>5. /\ after \in Seq(Frames) /\ after # <<>> /\ Len(after) = L /\ after[L] = f
      /\ \A l \in 1..(L - 1) : after[l] = frames[l]
  BY <1>4, TopReplaced
<1>6. Depth(S, Len(S)) = L + 1 /\ Len(S) = n + 1
  BY <1>2, <1>4, DepthMoves, TextGrows
<1> HIDE DEF after
<1>7. Nest(S, after, open, begin)
  BY <1>1, <1>3, <1>4, <1>5, NestKeeps
<1>8. begin \in [Nat -> Nat] /\ begin[L] = c /\ begin[1] = start[1]
  BY <1>1
<1> HIDE DEF S, L, c, begin
<1>9. Nest(S, deeper, opened, begun)
  <2>1. Leads(S, after[Len(after)].is, begin[Len(after)], Len(s) + 1)
    BY <1>3, <1>5, <1>8
  <2> HIDE DEF after, begin
  <2>2. Nest(Append(s, t), Append(after, Frame(kind)),
             [open EXCEPT ![Len(after) + 1] = Len(s) + 1],
             [begin EXCEPT ![Len(after) + 1] = Len(s) + 2])
    BY <1>5, <1>7, <2>1, NestOpens DEF S
  <2> QED
    BY <1>5, <2>2 DEF S
<1>10. Frame(kind) \in Frames /\ Frame(kind).is = kind
  BY DEF Frame, Frames, Kinds
<1>11. /\ deeper \in Seq(Frames) /\ deeper # <<>> /\ Len(deeper) = L + 1
       /\ deeper[L + 1] = Frame(kind)
  <2> HIDE DEF after
  <2>1. /\ deeper \in Seq(Frames) /\ Len(deeper) = Len(after) + 1
        /\ deeper[Len(after) + 1] = Frame(kind)
    BY <1>5, <1>10, AppendProperties
  <2>2. deeper # <<>>
    BY <1>5, <1>10, AppendProperties
  <2> QED
    BY <1>5, <2>1, <2>2
<1>12. opened[L + 1] = n + 1 /\ begun[L + 1] = n + 2 /\ begun[1] = start[1]
  <2>1. L + 1 \in Nat /\ n + 1 \in Nat /\ n + 2 \in Nat /\ 1 \in Nat \ {L + 1}
    <3>1. L \in Nat /\ L >= 1 /\ n \in Nat
      BY <1>1
    <3> HIDE DEF n
    <3> QED
      BY ONLY <3>1
  <2> QED
    BY <1>1, <1>8, <2>1, UpdateAt
<1> HIDE DEF opened, begun, deeper, n
<1>13. Progress(S, "first", kind, opened[L + 1], begun[L + 1])
  BY <1>1, <1>6, <1>12 DEF Progress
<1>14. Fills(S, start[1], "first" = "more" /\ L + 1 = 1, kept)
  <2>1. Fills(S, start[1], FALSE, kept)
    BY <1>2, KeptStays DEF S
  <2>2. ("first" = "more" /\ L + 1 = 1) = FALSE
    OBVIOUS
  <2> QED
    BY Zenon, <2>1, <2>2
<1>15. Naming(S, L + 1, "first", name, at, start[1])
  <2>1. CASE L > 1
    <3>1. Naming(s, L, e, name, at, start[1])
      BY DEF Inside, L
    <3>2. Naming(S, L, "first", name, at, start[1])
      BY <1>1, <1>2, <2>1, <3>1, NamingStays DEF S, n
    <3>3. L + 1 > 1 /\ L + 1 <= MaxDepth
      BY <1>1 DEF L
    <3> QED
      BY <2>1, <3>2, <3>3 DEF Naming
  <2>2. CASE L = 1
    <3>1. e = "value" /\ f.is # "array"
      BY <1>1, <2>2 DEF L
    <3>2. name = s[c].text /\ name \in Fields /\ at = c + 2
      <4>1. Naming(s, L, e, name, at, start[1])
        BY DEF Inside, L
      <4> QED
        BY <2>2, <3>1, <4>1 DEF Naming, c
    <3>3. at = n + 1 /\ c = start[1] /\ c \in 1..n
      <4>1. c + 2 = n + 1 /\ c = start[1] /\ c \in Nat \ {0} /\ n \in Nat
        BY <1>1, <1>3, <2>2, <3>1 DEF c
      <4>2. c \in 1..n
        BY ONLY <4>1
      <4> QED
        BY <3>2, <4>1, <4>2
    <3>4. S[c] = s[c] /\ S[n + 1] = t
      BY <3>3, TextGrows DEF S, n
    <3>5. Short(S, at)
      <4> SUFFICES ASSUME NEW k \in at..Len(S) PROVE S[k].is # "string"
        BY DEF Short
      <4>1. k = n + 1
        BY <1>1, <1>6, <3>3
      <4> QED
        BY <1>2, <3>4, <4>1
    <3>6. at <= Len(S)
      BY <1>1, <1>6, <3>3
    <3>7. name = "tool_input" /\ L + 1 <= MaxDepth /\ S[start[1]].text = name
      BY <2>2, <3>2, <3>3, <3>4 DEF L
    <3> QED
      BY <3>2, <3>3, <3>5, <3>6, <3>7 DEF Naming
  <2> QED
    BY <1>1, <2>1, <2>2
<1>16. Inside(S, "first", deeper, name, at, kept, opened, begun)
  <2>1. Progress(S, "first", deeper[L + 1].is, opened[L + 1], begun[L + 1])
    BY <1>10, <1>11, <1>13
  <2> QED
    BY <1>6, <1>9, <1>11, <1>12, <1>14, <1>15, <2>1 DEF Inside
<1> QED
  BY <1>16 DEF S, n, L, c, after, begin, opened, begun, deeper

\* A comma: the next part starts behind it.
LEMMA CommaTaken ==
    ASSUME NEW s \in Seq(Tokens), NEW t \in Tokens, NEW frames, NEW name, NEW at,
           NEW kept, NEW open, NEW start,
           Inside(s, "more", frames, name, at, kept, open, start), Comma(t)
    PROVE  Inside(Append(s, t), IF frames[Len(frames)].is = "array" THEN "value" ELSE "key",
                  [frames EXCEPT ![Len(frames)] = frames[Len(frames)]], name, at, kept,
                  open, [start EXCEPT ![Len(frames)] = Len(s) + 2])
<1> DEFINE S == Append(s, t)
           n == Len(s)
           L == Len(frames)
           c == start[L]
           kind == frames[L].is
           ee == IF kind = "array" THEN "value" ELSE "key"
<1>1. /\ n \in Nat /\ L \in Nat /\ L >= 1 /\ (L = 1 <=> ~(L > 1))
      /\ Level(s, L, open[L], c, frames[L]) /\ frames[L] \in Frames
      /\ kind = "envelope" <=> L = 1
      /\ Level(s, 1, 1, start[1], frames[1]) /\ frames[1].is = "envelope"
      /\ start[1] \in Nat \ {0} /\ (L > 1 => start[1] <= n)
  BY InsideTop
<1>2. ~Opens(t) /\ ~Closes(t) /\ t.is # "string"
  BY TokenClasses
<1>3. Depth(s, n) = L /\ Member(s, kind, c, n) /\ Fills(s, start[1], "more" = "more" /\ L = 1, kept)
  BY DEF Inside, Progress
<1>4. Separates(s, t, L)
  BY Zenon, <1>3 DEF Separates, Comma
<1>5. Level(S, L, open[L], n + 2, frames[L])
  BY <1>1, <1>3, <1>4, LevelSeparates
<1>6. Len(S) = n + 1
  BY TextGrows
<1> HIDE DEF S, n, L, c, kind
<1>7. Progress(S, ee, kind, open[L], n + 2)
  <2>1. n + 2 = Len(S) + 1
    BY <1>1, <1>6
  <2> QED
    BY <2>1 DEF Progress, Leads
<1>8. Fills(S, IF L = 1 THEN n + 2 ELSE start[1], FALSE, kept)
  <2>1. CASE L = 1
    <3>1. ("more" = "more" /\ L = 1) = TRUE
      BY <2>1
    <3>2. Fills(s, c, TRUE, kept)
      <4>1. c = start[1]
        BY <2>1 DEF c
      <4> QED
        BY Zenon, <1>3, <3>1, <4>1
    <3>3. /\ Level(s, 1, 1, c, frames[1]) /\ frames[1].is # "array"
          /\ Member(s, frames[1].is, c, Len(s)) /\ Separates(s, t, 1)
      BY <1>1, <1>3, <1>4, <2>1 DEF c, kind, n
    <3>4. Fills(S, n + 2, FALSE, kept)
      BY <3>2, <3>3, FillsSeparate DEF S
    <3> QED
      BY <2>1, <3>4
  <2>2. CASE L > 1
    <3>1. Fills(S, start[1], FALSE, kept)
      BY <2>2, KeptStays DEF S, L
    <3> QED
      BY <1>1, <2>2, <3>1
  <2> QED
    BY <1>1, <2>1, <2>2
<1>9. Naming(S, L, ee, name, at, IF L = 1 THEN n + 2 ELSE start[1])
  <2>1. CASE L = 1
    <3>1. ~(L > 1) /\ ee = "key"
      BY <1>1, <2>1
    <3> HIDE DEF ee
    <3> QED
      BY <3>1 DEF Naming
  <2>2. CASE L > 1
    <3>1. Naming(s, L, "more", name, at, start[1])
      BY DEF Inside, L
    <3>2. Naming(S, L, ee, name, at, start[1])
      BY <1>1, <1>2, <2>2, <3>1, NamingStays DEF S, n
    <3> QED
      BY <1>1, <2>2, <3>2
  <2> QED
    BY <1>1, <2>1, <2>2
<1>10. Fills(S, IF L = 1 THEN n + 2 ELSE start[1], ee = "more" /\ L = 1, kept)
  <2>1. (ee = "more" /\ L = 1) = FALSE
    OBVIOUS
  <2> QED
    BY Zenon, <1>8, <2>1
<1>11. n + 2 \in Nat
  BY <1>1
<1> HIDE DEF ee
<1>12. Inside(S, ee, [frames EXCEPT ![L] = frames[L]], name, at, kept, open,
              [start EXCEPT ![L] = n + 2])
  BY <1>1, <1>2, <1>5, <1>7, <1>9, <1>10, <1>11, GoesOn DEF S, L, kind
<1> QED
  BY <1>12 DEF S, n, L, kind, ee

\* A container in the envelope is closed.
LEMMA InnerClosed ==
    ASSUME NEW s \in Seq(Tokens), NEW t \in Tokens, NEW e \in {"first", "more"}, NEW frames,
           NEW name, NEW at, NEW kept, NEW open, NEW start,
           Inside(s, e, frames, name, at, kept, open, start),
           Len(frames) > 1, t.is = Closing(frames[Len(frames)].is),
           MaxElements \in Nat, MaxMembers \in Nat, MaxDepth \in Nat
    PROVE  Inside(Append(s, t), "more", SubSeq(frames, 1, Len(frames) - 1), name, at,
                  IF Len(frames) = 2 THEN Ended(s, t, name, at, kept) ELSE kept, open, start)
<1> DEFINE S == Append(s, t)
           n == Len(s)
           L == Len(frames)
           after == SubSeq(frames, 1, L - 1)
           kkept == IF L = 2 THEN Ended(s, t, name, at, kept) ELSE kept
<1>1. /\ n \in Nat /\ L \in Nat
      /\ Level(s, 1, 1, start[1], frames[1]) /\ frames[1].is = "envelope"
      /\ start[1] \in Nat \ {0} /\ start[1] <= n
  BY InsideTop
<1>2. ~Opens(t) /\ Closes(t) /\ ~Comma(t) /\ t.is # "string"
  BY TokenClasses
<1>3. /\ frames \in Seq(Frames) /\ frames # <<>> /\ Depth(s, n) = L
      /\ Nest(s, frames, open, start)
      /\ Member(s, frames[L].is, start[L], n) \/ open[L] = n
      /\ Naming(s, L, e, name, at, start[1])
      /\ Fills(s, start[1], e = "more" /\ L = 1, kept)
  BY DEF Inside, Progress
<1>4. L >= 2
  <2> HIDE DEF L
  <2>1. L \in Nat /\ L > 1
    BY <1>1 DEF L
  <2> QED
    BY ONLY <2>1
<1>5. Nest(S, after, open, start) /\ Member(S, frames[L - 1].is, start[L - 1], n + 1)
  BY <1>3, <1>4, NestCloses
<1>6. Depth(S, Len(S)) = L - 1 /\ Len(S) = n + 1
  BY <1>2, <1>3, DepthMoves, TextGrows
<1>7. /\ after \in Seq(Frames) /\ Len(after) = L - 1 /\ after # <<>>
      /\ after[L - 1] = frames[L - 1]
  <2>1. 1 \in 1..L /\ L - 1 \in 0..L /\ L - 1 \in 1..L /\ L - 1 \in 1..(L - 1)
    <3>1. L \in Nat /\ L >= 2
      BY <1>1, <1>4
    <3> HIDE DEF L
    <3> QED
      BY ONLY <3>1
  <2>2. /\ Len(after) = (IF 1 <= L - 1 THEN L - 1 - 1 + 1 ELSE 0)
        /\ \A i \in 1..(L - 1 - 1 + 1) : after[i] = frames[1 + i - 1]
        /\ after \in Seq(Frames)
    BY <1>3, <2>1, SubSeqProperties
  <2>3. (IF 1 <= L - 1 THEN L - 1 - 1 + 1 ELSE 0) = L - 1 /\ L - 1 - 1 + 1 = L - 1
        /\ 1 + (L - 1) - 1 = L - 1 /\ L - 1 # 0
    <3>1. L \in Nat /\ L >= 2
      BY <1>1, <1>4
    <3> HIDE DEF L
    <3> QED
      BY ONLY <3>1
  <2> QED
    BY <2>1, <2>2, <2>3
<1> HIDE DEF S, L, n, after
<1>8. Progress(S, "more", after[L - 1].is, open[L - 1], start[L - 1])
  BY <1>5, <1>6, <1>7 DEF Progress
<1>9. Fills(S, start[1], "more" = "more" /\ L - 1 = 1, kkept)
  <2>1. CASE L = 2
    <3>1. Fills(s, start[1], FALSE, kept)
      <4>1. (e = "more" /\ L = 1) = FALSE
        BY <2>1
      <4> QED
        BY Zenon, <1>3, <4>1
    <3>2. ~Separates(s, t, 1)
      BY Zenon, <1>2 DEF Separates, Comma
    <3>3. name = s[start[1]].text /\ at = start[1] + 2
      BY <1>1, <1>3, <2>1 DEF Naming
    <3>4. /\ Level(s, 1, 1, start[1], frames[1]) /\ frames[1].is # "array"
          /\ start[1] <= Len(s)
      BY <1>1 DEF n
    <3>5. Fills(S, start[1], TRUE, Ended(s, t, s[start[1]].text, start[1] + 2, kept))
      BY <3>1, <3>2, <3>4, FillsEnd DEF S
    <3>6. Fills(S, start[1], TRUE, kkept)
      BY <2>1, <3>3, <3>5
    <3>7. ("more" = "more" /\ L - 1 = 1) = TRUE
      BY <2>1
    <3> QED
      BY Zenon, <3>6, <3>7
  <2>2. CASE L # 2
    <3>1. Fills(S, start[1], FALSE, kept)
      BY <1>2, KeptStays DEF S, L
    <3>2. ("more" = "more" /\ L - 1 = 1) = FALSE
      BY <1>1, <2>2
    <3> QED
      BY Zenon, <2>2, <3>1, <3>2
  <2> QED
    BY <2>1, <2>2
<1>10. Naming(S, L - 1, "more", name, at, start[1])
  <2>1. L > 1
    BY DEF L
  <2>2. Naming(S, L, "more", name, at, start[1])
    BY <1>1, <1>2, <1>3, <2>1, NamingStays DEF S, n
  <2>3. CASE L - 1 > 1
    <3>1. L <= MaxDepth
      BY <2>1, <2>2 DEF Naming
    <3>2. L - 1 <= MaxDepth
      BY <1>1, <3>1
    <3> QED
      BY <2>1, <2>2, <2>3, <3>2 DEF Naming
  <2>4. CASE ~(L - 1 > 1)
    BY <2>4 DEF Naming
  <2> QED
    BY <2>3, <2>4
<1>11. Inside(S, "more", after, name, at, kkept, open, start)
  BY <1>5, <1>6, <1>7, <1>8, <1>9, <1>10 DEF Inside
<1> QED
  BY <1>11 DEF S, L, after, kkept

\* The envelope itself is closed.
LEMMA EnvelopeClosed ==
    ASSUME NEW s \in Seq(Tokens), NEW t \in Tokens, NEW frames,
           NEW name, NEW at, NEW kept, NEW open, NEW start,
           Inside(s, "more", frames, name, at, kept, open, start),
           Len(frames) = 1, t.is = Closing(frames[Len(frames)].is)
    PROVE  Whole(Append(s, t), kept)
<1>1. Level(s, 1, 1, start[1], frames[1]) /\ frames[1].is = "envelope"
  BY InsideTop
<1>2. Member(s, frames[1].is, start[1], Len(s))
  BY DEF Inside, Progress
<1>3. Fills(s, start[1], TRUE, kept)
  <2>1. Fills(s, start[1], "more" = "more" /\ Len(frames) = 1, kept)
    BY DEF Inside
  <2>2. ("more" = "more" /\ Len(frames) = 1) = TRUE
    OBVIOUS
  <2> QED
    BY Zenon, <2>1, <2>2
<1>4. t.is = Closing(frames[1].is)
  OBVIOUS
<1> QED
  BY <1>1, <1>2, <1>3, <1>4, FillsWhole

\* The envelope is opened.
LEMMA EnvelopeOpened ==
    ASSUME NEW t \in Tokens, t.is = Opening("envelope"), NEW name, NEW at, NEW kept,
           DOMAIN kept = {}, MaxElements \in Nat, MaxMembers \in Nat
    PROVE  \E open, start :
             Inside(Append(<<>>, t), "first", <<Frame("envelope")>>, name, at, kept, open, start)
<1> DEFINE S == Append(<<>>, t)
           open == [l \in Nat |-> 1]
           start == [l \in Nat |-> 2]
           frames == <<Frame("envelope")>>
<1>1. <<>> \in Seq(Tokens) /\ Len(<<>>) = 0
  OBVIOUS
<1>2. Level(S, 1, 1, 2, Frame("envelope")) /\ Commas(S, 1, 1) = {}
  <2>1. Level(S, 1, Len(<<>>) + 1, Len(<<>>) + 2, Frame("envelope"))
    BY <1>1, LevelOpens
  <2>2. Commas(S, 1, Len(<<>>) + 1) = {}
    BY <1>1, LevelOpens
  <2>3. Len(<<>>) + 1 = 1 /\ Len(<<>>) + 2 = 2
    BY ONLY <1>1
  <2> QED
    BY <2>1, <2>2, <2>3
<1>3. /\ frames \in Seq(Frames) /\ frames # <<>> /\ Len(frames) = 1 /\ frames[1] = Frame("envelope")
      /\ frames[1].is = "envelope"
  <2>1. Frame("envelope") \in Frames /\ Frame("envelope").is = "envelope"
    BY DEF Frame, Frames, Kinds
  <2> QED
    BY <2>1
<1>4. Depth(S, Len(S)) = 1 /\ Len(S) = 1
  <2>1. Opens(t)
    BY TokenClasses
  <2>2. Depth(S, Len(S)) = Depth(<<>>, Len(<<>>)) + 1
    BY <1>1, <2>1, DepthMoves
  <2>3. Depth(<<>>, 0) = 0
    <3>1. 1..0 = {}
      OBVIOUS
    <3> QED
      BY <3>1, FS_EmptySet DEF Depth
  <2> QED
    BY <1>1, <2>2, <2>3
<1>5. open \in [Nat -> Nat] /\ start \in [Nat -> Nat] /\ open[1] = 1 /\ start[1] = 2
  OBVIOUS
<1> HIDE DEF S, open, start, frames
<1>6. Nest(S, frames, open, start)
  <2>1. \A l \in 1..Len(frames) : l = 1
    BY <1>3
  <2>2. 1..(Len(frames) - 1) = {}
    BY <1>3
  <2> QED
    BY <1>2, <1>3, <1>5, <2>1, <2>2 DEF Nest
<1>7. Progress(S, "first", frames[1].is, open[1], start[1])
  BY <1>4, <1>5 DEF Progress
<1>8. Fills(S, start[1], "first" = "more" /\ Len(frames) = 1, kept)
  <2>1. ("first" = "more" /\ Len(frames) = 1) = FALSE
    OBVIOUS
  <2>2. \A b, e : ~Part(S, start[1], FALSE, b, e)
    BY <1>2 DEF Part, Closed
  <2>3. Fills(S, start[1], FALSE, kept)
    BY <2>2 DEF Fills
  <2> QED
    BY Zenon, <2>1, <2>3
<1>9. Naming(S, Len(frames), "first", name, at, start[1])
  <2>1. ~(Len(frames) > 1)
    BY <1>3
  <2> QED
    BY <2>1 DEF Naming
<1>10. Inside(S, "first", frames, name, at, kept, open, start)
  BY <1>3, <1>4, <1>6, <1>7, <1>8, <1>9 DEF Inside
<1> QED
  BY <1>10 DEF S, frames
-----------------------------------------------------------------------------
\* The inductive invariant: as long as nothing was refused, the reader is
\* inside the envelope, before it or behind it, and what it keeps fits.
Longest(f) ==
    IF f \in Paths THEN MaxPath
    ELSE IF f = "tool_input" THEN MaxString
    ELSE MaxIdentifier
OneString(f, raw) ==
    /\ Len(raw) = 1
    /\ raw[1].is \in {"string"} \cup (IF f \in Nullable THEN {"null"} ELSE {})
    /\ raw[1].is = "string" => raw[1].text # NoText
FieldsFit(kept) ==
    \A f \in DOMAIN kept :
        /\ StringsFit(kept[f], Longest(f))
        /\ f # "tool_input" => OneString(f, kept[f])

\* What is expected inside the envelope.
Within == {"first", "key", "colon", "value", "more"}
\* Nothing is nested deeper than it may be.
Shallow(s) == \A k \in DOMAIN s : Depth(s, k) <= MaxDepth

\* What has been read when nothing was refused.
Accepted(s, e, frames, name, at, kept) ==
    /\ FieldsFit(kept) /\ Shallow(s)
    /\ e \in {"start", "end"} \cup Within
    /\ e = "start" => s = <<>> /\ DOMAIN kept = {}
    /\ e \in Within =>
         \E open, start : Inside(s, e, frames, name, at, kept, open, start)
    /\ e = "end" => Whole(s, kept)

\* The reader's state follows from the tokens it has taken.
EnvelopeInv ==
    /\ text \in Seq(Tokens) /\ DOMAIN fields \subseteq Fields
    /\ parsed \in {"Reading", "Parsed"} =>
          Accepted(text, expect, stack, field, from, fields)
    /\ parsed = "Parsed" => /\ expect = "end" /\ DOMAIN fields = Fields
                            /\ fields["tool_input"][1].is = Opening("object")
                            /\ fields["hook_event_name"][1].text = "PreToolUse"
                            /\ fields["tool_name"][1].text \in SupportedTools

\* What the parameters are.
LEMMA Bounds ==
    /\ MaxElements \in Nat /\ MaxMembers \in Nat /\ MaxDepth \in Nat /\ MaxDepth > 0
    /\ MaxString \in Nat /\ MaxName \in Nat
BY FieldsAssumption

\* A token leads deeper by at most the depth the reader checked.
LEMMA StaysShallow ==
    ASSUME NEW s \in Seq(Tokens), NEW t \in Tokens, Shallow(s),
           Depth(Append(s, t), Len(Append(s, t))) <= MaxDepth
    PROVE  Shallow(Append(s, t))
<1> DEFINE S == Append(s, t)
<1>1. Len(S) = Len(s) + 1 /\ Len(s) \in Nat /\ DOMAIN S = 1..(Len(s) + 1) /\ DOMAIN s = 1..Len(s)
  OBVIOUS
<1> SUFFICES ASSUME NEW k \in DOMAIN S PROVE Depth(S, k) <= MaxDepth
  BY DEF Shallow
<1> HIDE DEF S
<1>2. k = Len(S) \/ (k \in DOMAIN s /\ k \in 0..Len(s))
  BY <1>1
<1>3. CASE k \in DOMAIN s /\ k \in 0..Len(s)
  <2>1. Depth(S, k) = Depth(s, k)
    BY <1>3, DepthMoves DEF S
  <2> QED
    BY <1>3, <2>1 DEF Shallow
<1> QED
  BY <1>2, <1>3 DEF S

\* A reader inside the envelope is no deeper than it may be.
LEMMA InsideShallow ==
    ASSUME NEW s \in Seq(Tokens), NEW e, NEW frames, NEW name, NEW at,
           NEW kept, NEW open, NEW start,
           Inside(s, e, frames, name, at, kept, open, start)
    PROVE  Depth(s, Len(s)) <= MaxDepth
<1>1. Depth(s, Len(s)) = Len(frames) /\ (Len(frames) = 1 <=> ~(Len(frames) > 1))
  BY InsideTop DEF Inside
<1>2. Len(frames) > 1 => Len(frames) <= MaxDepth
  BY DEF Inside, Naming
<1>3. 1 <= MaxDepth
  BY Bounds
<1> QED
  BY <1>1, <1>2, <1>3

\* A refusal is final, and of what was read nothing is claimed.
LEMMA RefusedKeeps ==
    ASSUME EnvelopeInv, NEW code, code \notin {"Reading", "Parsed"}, parsed' = code,
           UNCHANGED <<text, fields>>
    PROVE  EnvelopeInv'
BY DEF EnvelopeInv

\* A token that leaves the reader inside the envelope.
LEMMA InsideKeeps ==
    ASSUME EnvelopeInv, parsed = "Reading", parsed' = "Reading",
           NEW t \in Tokens, text' = Append(text, t),
           expect' \in Within, DOMAIN fields' \subseteq Fields, FieldsFit(fields'),
           \E open, start : Inside(text', expect', stack', field', from', fields', open, start)
    PROVE  EnvelopeInv'
<1>1. text \in Seq(Tokens) /\ Shallow(text)
  BY DEF EnvelopeInv, Accepted
<1>2. text' \in Seq(Tokens)
  BY <1>1, TextGrows
<1>3. Depth(text', Len(text')) <= MaxDepth
  BY <1>2, InsideShallow
<1>4. Shallow(text')
  BY <1>1, <1>3, StaysShallow
<1>5. expect' # "start" /\ expect' # "end"
  BY DEF Within
<1>6. Accepted(text', expect', stack', field', from', fields')
  BY <1>4, <1>5 DEF Accepted
<1> QED
  BY <1>2, <1>6 DEF EnvelopeInv

\* The state of a reader inside the envelope.
LEMMA ReaderInside ==
    ASSUME EnvelopeInv, parsed = "Reading", expect \in Within
    PROVE  /\ text \in Seq(Tokens) /\ DOMAIN fields \subseteq Fields /\ FieldsFit(fields)
           /\ \E open, start : Inside(text, expect, stack, field, from, fields, open, start)
           /\ stack \in Seq(Frames) /\ stack # <<>> /\ Top \in Frames
           /\ Len(stack) \in Nat /\ (InEnvelope <=> ~(Len(stack) > 1))
           /\ Top.is = "envelope" <=> InEnvelope
<1>1. /\ text \in Seq(Tokens) /\ DOMAIN fields \subseteq Fields /\ FieldsFit(fields)
      /\ \E open, start : Inside(text, expect, stack, field, from, fields, open, start)
  BY DEF EnvelopeInv, Accepted
<1>2. PICK open, start : Inside(text, expect, stack, field, from, fields, open, start)
  BY <1>1
<1>3. /\ Len(stack) \in Nat /\ (Len(stack) = 1 <=> ~(Len(stack) > 1))
      /\ stack[Len(stack)] \in Frames
      /\ stack[Len(stack)].is = "envelope" <=> Len(stack) = 1
  BY <1>1, <1>2, InsideTop
<1>4. stack \in Seq(Frames) /\ stack # <<>>
  BY <1>2 DEF Inside
<1> QED
  BY <1>1, <1>3, <1>4 DEF Top, InEnvelope

\* A frame with one more part counted ...
LEMMA CountedFrame ==
    ASSUME NEW f \in Frames, NEW n \in Nat
    PROVE  /\ Counted(f, n) \in Frames /\ Counted(f, n).is = f.is
           /\ Counted(f, n).keys = f.keys /\ Counted(f, n).count = f.count + n
           /\ n = 0 => Counted(f, n) = f
BY DEF Frames, Counted

\* ... and with one more key kept.
LEMMA KeyedFrame ==
    ASSUME NEW f \in Frames, NEW name \in Texts
    PROVE  /\ [f EXCEPT !.keys = @ \cup {name}] \in Frames
           /\ [f EXCEPT !.keys = @ \cup {name}].is = f.is
           /\ [f EXCEPT !.keys = @ \cup {name}].keys = f.keys \cup {name}
           /\ [f EXCEPT !.keys = @ \cup {name}].count = f.count
BY DEF Frames

\* The actions of the reader, one lemma each: a key ...
LEMMA KeyKeeps ==
    ASSUME EnvelopeInv, parsed = "Reading", parsed' = "Reading",
           NEW t \in Tokens, Key(t), text' = Append(text, t)
    PROVE  EnvelopeInv'
<1>1. expect \in {"first", "key"} /\ expect \in Within /\ Top.is # "array"
  BY DEF Key, Within
<1>2. /\ ~Full /\ t.is = "string" /\ ~(Size[t.text] > (IF InEnvelope THEN MaxName ELSE MaxString))
      /\ t.text \notin Top.keys
      /\ stack' = WithTop(AddKey(t)) /\ expect' = "colon"
      /\ field' = (IF InEnvelope THEN t.text ELSE field)
      /\ from' = from /\ fields' = fields
  BY DEF Key, Error
<1>3. /\ text \in Seq(Tokens) /\ DOMAIN fields \subseteq Fields /\ FieldsFit(fields)
      /\ Top \in Frames /\ (InEnvelope <=> ~(Len(stack) > 1))
  BY <1>1, ReaderInside
<1>4. PICK open, start : Inside(text, expect, stack, field, from, fields, open, start)
  BY <1>1, ReaderInside
<1> DEFINE f == AddKey(t)
<1>5. f \in Frames /\ f.is = Top.is /\ f.count = Top.count + 1 /\ f.keys = Top.keys \cup {t.text}
  <2>1. t.text \in Texts
    BY <1>2 DEF Tokens, Marks
  <2>2. /\ Counted(Top, 1) \in Frames /\ Counted(Top, 1).is = Top.is
        /\ Counted(Top, 1).keys = Top.keys /\ Counted(Top, 1).count = Top.count + 1
    BY <1>3, CountedFrame
  <2> QED
    BY <2>1, <2>2, KeyedFrame DEF AddKey
<1> HIDE DEF f
<1>6. Len(stack) > 1 => Top.count < MaxMembers
  <2>1. Len(stack) > 1 => ~(Top.count >= MaxMembers)
    BY <1>2, <1>3 DEF Full
  <2>2. Top.count \in Nat /\ MaxMembers \in Nat
    BY <1>3, Bounds DEF Frames
  <2> HIDE DEF Top
  <2> QED
    BY <2>1, <2>2
<1>7. Len(stack) > 1 => Size[t.text] <= MaxString
  <2>1. Size[t.text] \in Nat /\ MaxString \in Nat
    <3>1. t.text \in Texts
      BY <1>2 DEF Tokens, Marks
    <3> QED
      BY <3>1, Bounds, FieldsAssumption
  <2> QED
    BY <1>2, <1>3, <2>1
<1>8. Inside(text', "colon", [stack EXCEPT ![Len(stack)] = f],
             IF Len(stack) = 1 THEN t.text ELSE field, from, fields,
             open, [start EXCEPT ![Len(stack)] = Len(text) + 1])
  BY <1>1, <1>2, <1>3, <1>4, <1>5, <1>6, <1>7, Bounds, KeyTaken DEF Top
<1>9. Inside(text', expect', stack', field', from', fields', open,
             [start EXCEPT ![Len(stack)] = Len(text) + 1])
  BY <1>2, <1>8 DEF WithTop, InEnvelope, f
<1>10. expect' \in Within /\ DOMAIN fields' \subseteq Fields /\ FieldsFit(fields')
  BY <1>2, <1>3 DEF Within
<1> QED
  BY <1>9, <1>10, InsideKeeps

\* ... a colon ...
LEMMA ColonKeeps ==
    ASSUME EnvelopeInv, parsed = "Reading", parsed' = "Reading",
           NEW t \in Tokens, Colon(t), text' = Append(text, t)
    PROVE  EnvelopeInv'
<1>1. expect = "colon" /\ expect \in Within
  BY DEF Colon, Within
<1>2. /\ t.is = ":" /\ (InEnvelope => field \in Fields) /\ expect' = "value"
      /\ from' = (IF InEnvelope THEN Len(text) + 2 ELSE from)
      /\ stack' = stack /\ field' = field /\ fields' = fields
  BY DEF Colon, Error
<1>3. /\ text \in Seq(Tokens) /\ DOMAIN fields \subseteq Fields /\ FieldsFit(fields)
      /\ stack \in Seq(Frames) /\ stack # <<>> /\ Len(stack) \in Nat
  BY <1>1, ReaderInside
<1>4. PICK open, start : Inside(text, expect, stack, field, from, fields, open, start)
  BY <1>1, ReaderInside
<1>5. [stack EXCEPT ![Len(stack)] = stack[Len(stack)]] = stack
  BY <1>3
<1>6. Inside(text', "value", [stack EXCEPT ![Len(stack)] = stack[Len(stack)]], field, from',
             fields, open, [start EXCEPT ![Len(stack)] = start[Len(stack)]])
  BY <1>1, <1>2, <1>3, <1>4, ColonTaken DEF InEnvelope
<1>7. Inside(text', expect', stack', field', from', fields', open,
             [start EXCEPT ![Len(stack)] = start[Len(stack)]])
  BY <1>2, <1>5, <1>6
<1>8. expect' \in Within /\ DOMAIN fields' \subseteq Fields /\ FieldsFit(fields')
  BY <1>2, <1>3 DEF Within
<1> QED
  BY <1>7, <1>8, InsideKeeps

\* The field that a token completes fits its limits.
LEMMA EndedFits ==
    ASSUME NEW s \in Seq(Tokens), NEW t \in Tokens, NEW kept, NEW name \in Fields,
           NEW at \in Nat \ {0}, at <= Len(s) + 1,
           FieldsFit(kept), DOMAIN kept \subseteq Fields,
           name = "tool_input" => Short(Append(s, t), at),
           name # "tool_input" =>
               /\ at = Len(s) + 1
               /\ t.is \in {"string"} \cup (IF name \in Nullable THEN {"null"} ELSE {})
               /\ t.is = "string" => t.text # NoText /\ Size[t.text] <= Longest(name)
    PROVE  /\ FieldsFit(Ended(s, t, name, at, kept))
           /\ DOMAIN Ended(s, t, name, at, kept) \subseteq Fields
<1> DEFINE S == Append(s, t)
           n == Len(s)
           raw == SubSeq(S, at, n + 1)
           after == Ended(s, t, name, at, kept)
<1>1. n \in Nat /\ Len(S) = n + 1 /\ S[n + 1] = t
  BY TextGrows
<1>2. /\ DOMAIN after = DOMAIN kept \cup {name} /\ after[name] = raw
      /\ \A f \in DOMAIN kept : f # name => after[f] = kept[f]
  BY DEF Ended
<1>3. /\ DOMAIN raw = 1..(n + 1 - at + 1) /\ Len(raw) = n + 1 - at + 1
      /\ \A k \in 1..(n + 1 - at + 1) : raw[k] = S[at + k - 1]
  BY <1>1
<1> HIDE DEF S, n, raw, after
<1>4. ASSUME name = "tool_input" PROVE StringsFit(raw, Longest(name))
  <2>1. Longest(name) = MaxString
    BY <1>4, FieldsAssumption DEF Longest
  <2>2. ASSUME NEW k \in DOMAIN raw, raw[k].is = "string"
        PROVE  Size[raw[k].text] <= MaxString
    <3>1. at + k - 1 \in at..Len(S) /\ raw[k] = S[at + k - 1]
      BY <1>1, <1>3, <2>2 DEF n
    <3>2. Short(S, at)
      BY <1>4 DEF S
    <3> QED
      BY <2>2, <3>1, <3>2 DEF Short
  <2> QED
    BY <2>1, <2>2 DEF StringsFit
<1>5. ASSUME name # "tool_input"
      PROVE  OneString(name, raw) /\ StringsFit(raw, Longest(name))
  <2>1. at = n + 1
    BY <1>5 DEF n
  <2>2. Len(raw) = 1 /\ raw[1] = S[n + 1] /\ DOMAIN raw = {1}
    BY <1>1, <1>3, <2>1
  <2>3. /\ t.is \in {"string"} \cup (IF name \in Nullable THEN {"null"} ELSE {})
        /\ t.is = "string" => t.text # NoText /\ Size[t.text] <= Longest(name)
    BY <1>5
  <2>4. raw[1] = t
    BY <1>1, <2>2
  <2>5. OneString(name, raw)
    BY <2>2, <2>3, <2>4 DEF OneString
  <2>6. StringsFit(raw, Longest(name))
    BY <2>2, <2>3, <2>4 DEF StringsFit
  <2> QED
    BY <2>5, <2>6
<1>6. ASSUME NEW f \in DOMAIN after
      PROVE  /\ StringsFit(after[f], Longest(f))
             /\ f # "tool_input" => OneString(f, after[f])
  <2>1. CASE f = name
    BY <1>2, <1>4, <1>5, <2>1
  <2>2. CASE f # name
    <3>1. f \in DOMAIN kept /\ after[f] = kept[f]
      BY <1>2, <1>6, <2>2
    <3> QED
      BY <3>1 DEF FieldsFit
  <2> QED
    BY <2>1, <2>2
<1>7. FieldsFit(after)
  BY <1>6 DEF FieldsFit
<1>8. DOMAIN after \subseteq Fields
  BY <1>2
<1> QED
  BY <1>7, <1>8 DEF after

\* The value of a field of the envelope starts here.
LEMMA FieldBegins ==
    ASSUME EnvelopeInv, parsed = "Reading", expect = "value", InEnvelope
    PROVE  field \in Fields /\ from = Len(text) + 1 /\ Len(text) \in Nat
<1>1. expect \in Within
  BY DEF Within
<1>2. /\ text \in Seq(Tokens) /\ Top \in Frames /\ (Top.is = "envelope" <=> InEnvelope)
      /\ Len(stack) = 1
  BY <1>1, ReaderInside DEF InEnvelope
<1>3. PICK open, start : Inside(text, expect, stack, field, from, fields, open, start)
  BY <1>1, ReaderInside
<1>4. Progress(text, expect, Top.is, open[1], start[1])
  BY <1>2, <1>3 DEF Inside, Top
<1>5. start[1] + 2 = Len(text) + 1
  <2>1. Top.is # "array"
    BY <1>2
  <2> QED
    BY <1>4, <2>1 DEF Progress, Leads
<1>6. field \in Fields /\ from = start[1] + 2
  BY <1>2, <1>3 DEF Inside, Naming
<1>7. Len(text) \in Nat
  BY <1>2
<1> QED
  BY <1>5, <1>6, <1>7

\* A value of one token, of the envelope or below it.
LEMMA ScalarKeeps ==
    ASSUME EnvelopeInv, parsed = "Reading", parsed' = "Reading",
           NEW t \in Tokens, text' = Append(text, t),
           \/ expect = "value"
           \/ expect = "first" /\ Top.is = "array",
           t.is \in {"string", "atom", "null"},
           (~InEnvelope \/ field = "tool_input") /\ t.is = "string" =>
               Size[t.text] <= MaxString,
           InEnvelope /\ field # "tool_input" =>
               /\ t.is \in {"string"} \cup (IF field \in Nullable THEN {"null"} ELSE {})
               /\ t.is = "string" => t.text # NoText /\ Size[t.text] <= Longest(field),
           NEW f \in Frames, f.is = Top.is,
           f.is = "array" => f.count = Top.count + 1 /\ Top.count < MaxElements,
           f.is # "array" => f = Top,
           expect' = "more", stack' = WithTop(f), field' = field, from' = from,
           fields' = IF InEnvelope THEN Ended(text, t, field, from, fields) ELSE fields
    PROVE  EnvelopeInv'
<1>1. expect \in Within /\ expect' \in Within
  BY DEF Within
<1>2. /\ text \in Seq(Tokens) /\ DOMAIN fields \subseteq Fields /\ FieldsFit(fields)
      /\ (InEnvelope <=> ~(Len(stack) > 1)) /\ (Top.is = "envelope" <=> InEnvelope)
  BY <1>1, ReaderInside
<1>3. PICK open, start : Inside(text, expect, stack, field, from, fields, open, start)
  BY <1>1, ReaderInside
<1>4. Inside(text', "more", [stack EXCEPT ![Len(stack)] = f], field, from,
             IF Len(stack) = 1 THEN Ended(text, t, field, from, fields) ELSE fields,
             open, [start EXCEPT ![Len(stack)] = start[Len(stack)]])
  BY <1>2, <1>3, Bounds, ScalarTaken DEF Top
<1>5. Inside(text', expect', stack', field', from', fields', open,
             [start EXCEPT ![Len(stack)] = start[Len(stack)]])
  BY <1>4 DEF WithTop, InEnvelope
<1>6. DOMAIN fields' \subseteq Fields /\ FieldsFit(fields')
  <2>1. CASE InEnvelope
    <3>1. expect = "value"
      BY <1>2, <2>1
    <3>2. field \in Fields /\ from = Len(text) + 1 /\ Len(text) \in Nat
      BY <2>1, <3>1, FieldBegins
    <3>3. from \in Nat \ {0} /\ from <= Len(text) + 1
      BY <3>2
    <3>4. field = "tool_input" => Short(Append(text, t), from)
      <4> SUFFICES ASSUME field = "tool_input", NEW k \in from..Len(Append(text, t)),
                          Append(text, t)[k].is = "string"
                   PROVE  Size[Append(text, t)[k].text] <= MaxString
        BY DEF Short
      <4>1. Len(Append(text, t)) = Len(text) + 1 /\ Append(text, t)[Len(text) + 1] = t
        BY <1>2, TextGrows
      <4>2. k = Len(text) + 1
        BY <3>2, <4>1
      <4> QED
        BY <2>1, <4>1, <4>2
    <3> QED
      BY <1>2, <2>1, <3>2, <3>3, <3>4, EndedFits
  <2>2. CASE ~InEnvelope
    BY <1>2, <2>2
  <2> QED
    BY <2>1, <2>2
<1> QED
  BY <1>1, <1>5, <1>6, InsideKeeps

\* A string, or null, as the value of a field.
LEMMA FieldValueKeeps ==
    ASSUME EnvelopeInv, parsed = "Reading", parsed' = "Reading",
           NEW t \in Tokens, FieldValue(t), text' = Append(text, t)
    PROVE  EnvelopeInv'
<1>1. /\ expect = "value" /\ InEnvelope /\ field # "tool_input"
      /\ t.is = "string" \/ (t.is = "null" /\ field \in Nullable)
      /\ t.is = "string" => t.text # NoText /\ ~(Size[t.text] > Limit)
      /\ expect' = "more" /\ ValueEnds(t)
      /\ stack' = stack /\ field' = field /\ from' = from
  BY DEF FieldValue, Error
<1>2. expect \in Within
  BY <1>1 DEF Within
<1>3. /\ Top \in Frames /\ (Top.is = "envelope" <=> InEnvelope)
      /\ stack \in Seq(Frames) /\ stack # <<>> /\ Len(stack) \in Nat
  BY <1>2, ReaderInside
<1>4. fields' = Ended(text, t, field, from, fields)
  BY <1>1 DEF ValueEnds, Ended
<1>5. stack' = WithTop(Top)
  BY <1>1, <1>3 DEF WithTop, Top
<1>6. /\ Top.is # "array" /\ t.is \in {"string", "atom", "null"}
      /\ t.is \in {"string"} \cup (IF field \in Nullable THEN {"null"} ELSE {})
  BY <1>1, <1>3
<1>7. t.is = "string" => Size[t.text] <= Longest(field)
  <2> SUFFICES ASSUME t.is = "string" PROVE Size[t.text] <= Longest(field)
    OBVIOUS
  <2>1. t.text \in Texts
    BY DEF Tokens, Marks
  <2>2. Size[t.text] \in Nat /\ Longest(field) \in Nat
    BY <2>1, FieldsAssumption DEF Longest
  <2>3. Longest(field) = Limit
    BY <1>1 DEF Longest, Limit
  <2>4. ~(Size[t.text] > Longest(field))
    BY <1>1, <2>3
  <2> QED
    BY <2>2, <2>4
<1> QED
  BY <1>1, <1>3, <1>4, <1>5, <1>6, <1>7, ScalarKeeps

\* Only an array counts the values in it.
LEMMA ElementFrame ==
    ASSUME Top \in Frames
    PROVE  \E f \in Frames :
             /\ Element = WithTop(f) /\ f.is = Top.is
             /\ f.is = "array" => f.count = Top.count + 1
             /\ f.is # "array" => f = Top
<1>1. CASE InArray
  <2> DEFINE f == Counted(Top, 1)
  <2>1. f \in Frames /\ f.is = Top.is /\ f.count = Top.count + 1
    BY CountedFrame
  <2>2. Element = WithTop(f)
    BY <1>1 DEF Element
  <2> QED
    BY <1>1, <2>1, <2>2 DEF InArray
<1>2. CASE ~InArray
  <2>1. Counted(Top, 0) = Top
    BY CountedFrame
  <2>2. Element = WithTop(Top)
    BY <1>2, <2>1 DEF Element
  <2> QED
    BY <1>2, <2>2 DEF InArray
<1> QED
  BY <1>1, <1>2

\* A value: of a field, of a member in tool_input or of an element.
LEMMA ValueKeeps ==
    ASSUME EnvelopeInv, parsed = "Reading", parsed' = "Reading",
           NEW t \in Tokens, Value(t), text' = Append(text, t)
    PROVE  EnvelopeInv'
<1>1. /\ expect = "value" \/ (expect = "first" /\ Top.is = "array")
      /\ ~InEnvelope \/ field = "tool_input" \/ expect = "first"
      /\ ~(InArray /\ Top.count >= MaxElements)
      /\ \/ Opens(t) /\ ~(Len(stack) >= MaxDepth) /\ Container(t)
         \/ /\ ~(t.is = "string" /\ Size[t.text] > MaxString)
            /\ t.is \in {"string", "atom", "null"} /\ Scalar(t)
  BY DEF Value, Error, InArray
<1>2. expect \in Within
  BY <1>1 DEF Within
<1>3. /\ text \in Seq(Tokens) /\ DOMAIN fields \subseteq Fields /\ FieldsFit(fields)
      /\ Top \in Frames /\ (Top.is = "envelope" <=> InEnvelope)
      /\ stack \in Seq(Frames) /\ stack # <<>> /\ Len(stack) \in Nat
      /\ (InEnvelope <=> ~(Len(stack) > 1))
  BY <1>2, ReaderInside
<1>4. PICK f \in Frames : /\ Element = WithTop(f) /\ f.is = Top.is
                          /\ f.is = "array" => f.count = Top.count + 1
                          /\ f.is # "array" => f = Top
  BY <1>3, ElementFrame
<1>5. f.is = "array" => Top.count < MaxElements
  <2>1. Top.count \in Nat /\ MaxElements \in Nat
    BY <1>3, Bounds DEF Frames
  <2>2. f.is = "array" => ~(Top.count >= MaxElements)
    BY <1>1, <1>4 DEF InArray
  <2> HIDE DEF Top
  <2> QED
    BY <2>1, <2>2
<1>6. InEnvelope => field = "tool_input"
  BY <1>1, <1>3
<1>7. CASE t.is \in {"string", "atom", "null"} /\ Scalar(t)
  <2>1. /\ stack' = WithTop(f) /\ expect' = "more" /\ field' = field /\ from' = from
        /\ IF InEnvelope THEN ValueEnds(t) ELSE fields' = fields
    BY <1>4, <1>7 DEF Scalar
  <2>2. fields' = IF InEnvelope THEN Ended(text, t, field, from, fields) ELSE fields
    BY <2>1 DEF ValueEnds, Ended
  <2>3. t.is = "string" => Size[t.text] <= MaxString
    <3> SUFFICES ASSUME t.is = "string" PROVE Size[t.text] <= MaxString
      OBVIOUS
    <3>1. t.text \in Texts
      BY DEF Tokens, Marks
    <3>2. Size[t.text] \in Nat /\ MaxString \in Nat
      BY <3>1, Bounds, FieldsAssumption
    <3>3. ~Opens(t)
      BY TokenClasses
    <3>4. ~(Size[t.text] > MaxString)
      BY <1>1, <3>3
    <3> QED
      BY <3>2, <3>4
  <2> QED
    BY <1>1, <1>4, <1>5, <1>6, <1>7, <2>1, <2>2, <2>3, ScalarKeeps
<1>8. CASE Opens(t) /\ ~(Len(stack) >= MaxDepth) /\ Container(t)
  <2> DEFINE kind == IF t.is = "{" THEN "object" ELSE "array"
  <2>1. kind \in {"object", "array"} /\ t.is = Opening(kind)
    BY Zenon, <1>8 DEF Opens, Opening
  <2>2. /\ stack' = Append(WithTop(f), Frame(kind)) /\ expect' = "first"
        /\ field' = field /\ from' = from /\ fields' = fields
    BY Zenon, <1>4, <1>8 DEF Container
  <2> HIDE DEF kind
  <2>3. PICK open, start : Inside(text, expect, stack, field, from, fields, open, start)
    BY <1>2, ReaderInside
  <2>4. Len(stack) + 1 <= MaxDepth
    BY <1>3, <1>8, Bounds
  <2>5. Inside(text', "first",
                  Append([stack EXCEPT ![Len(stack)] = f], Frame(kind)), field, from, fields,
                  [open EXCEPT ![Len(stack) + 1] = Len(text) + 1],
                  [[start EXCEPT ![Len(stack)] = start[Len(stack)]]
                      EXCEPT ![Len(stack) + 1] = Len(text) + 2])
    BY <1>1, <1>3, <1>4, <1>5, <1>6, <2>1, <2>3, <2>4, Bounds, ContainerTaken
    DEF Top, InEnvelope
  <2>6. \E oo, ss : Inside(text', expect', stack', field', from', fields', oo, ss)
    BY <2>2, <2>5 DEF WithTop
  <2>7. expect' \in Within /\ DOMAIN fields' \subseteq Fields /\ FieldsFit(fields')
    BY <1>3, <2>2 DEF Within
  <2> QED
    BY <2>6, <2>7, InsideKeeps
<1> QED
  BY <1>1, <1>7, <1>8

\* The closing bracket of the container on top.
LEMMA CloseKeeps ==
    ASSUME EnvelopeInv, parsed = "Reading", parsed' = "Reading",
           expect = "more" \/ (expect = "first" /\ ~InEnvelope),
           NEW t \in Tokens, t.is = Closing(Top.is), Close(t), text' = Append(text, t)
    PROVE  EnvelopeInv'
<1>1. /\ stack' = SubSeq(stack, 1, Len(stack) - 1)
      /\ expect' = (IF Len(stack) = 1 THEN "end" ELSE "more")
      /\ IF Len(stack) = 2 THEN ValueEnds(t) ELSE fields' = fields
      /\ field' = field /\ from' = from
  BY DEF Close
<1>2. expect \in Within /\ expect \in {"first", "more"}
  BY DEF Within
<1>3. /\ text \in Seq(Tokens) /\ DOMAIN fields \subseteq Fields /\ FieldsFit(fields)
      /\ Len(stack) \in Nat /\ (InEnvelope <=> ~(Len(stack) > 1))
  BY <1>2, ReaderInside
<1>4. PICK open, start : Inside(text, expect, stack, field, from, fields, open, start)
  BY <1>2, ReaderInside
<1>5. CASE Len(stack) = 1
  <2>1. expect = "more" /\ expect' = "end" /\ fields' = fields
    BY <1>1, <1>5 DEF InEnvelope
  <2>2. Whole(text', fields')
    BY <1>3, <1>4, <1>5, <2>1, EnvelopeClosed DEF Top
  <2>3. Closes(t) /\ ~Opens(t)
    BY TokenClasses
  <2>4. Depth(text', Len(text')) <= MaxDepth
    <3>1. Depth(text, Len(text)) = 1
      BY <1>4, <1>5 DEF Inside
    <3>2. Depth(text', Len(text')) = 1 - 1
      BY <1>3, <2>3, <3>1, DepthMoves
    <3> QED
      BY <3>2, Bounds
  <2>5. text' \in Seq(Tokens) /\ Shallow(text')
    <3>1. Shallow(text)
      BY DEF EnvelopeInv, Accepted
    <3> QED
      BY <1>3, <2>4, <3>1, StaysShallow, TextGrows
  <2>6. Accepted(text', expect', stack', field', from', fields')
    BY <1>3, <2>1, <2>2, <2>5 DEF Accepted, Within
  <2> QED
    BY <1>3, <2>1, <2>5, <2>6 DEF EnvelopeInv
<1>6. CASE Len(stack) > 1
  <2>1. expect' = "more" /\ expect' \in Within
    BY <1>1, <1>3, <1>6 DEF Within, InEnvelope
  <2>2. fields' = IF Len(stack) = 2 THEN Ended(text, t, field, from, fields) ELSE fields
    BY <1>1 DEF ValueEnds, Ended
  <2>3. Inside(text', "more", SubSeq(stack, 1, Len(stack) - 1), field, from,
               IF Len(stack) = 2 THEN Ended(text, t, field, from, fields) ELSE fields,
               open, start)
    BY <1>2, <1>3, <1>4, <1>6, Bounds, InnerClosed DEF Top
  <2>4. Inside(text', expect', stack', field', from', fields', open, start)
    BY <1>1, <2>1, <2>2, <2>3
  <2>5. DOMAIN fields' \subseteq Fields /\ FieldsFit(fields')
    <3>1. /\ start[1] \in Nat \ {0} /\ start[1] <= Len(text) /\ Len(text) \in Nat
      BY <1>3, <1>4, <1>6, InsideTop
    <3>2. /\ field \in Fields /\ from = start[1] + 2 /\ field = "tool_input"
          /\ from <= Len(text) /\ Naming(text, Len(stack), expect, field, from, start[1])
      BY <1>4, <1>6 DEF Inside, Naming
    <3>3. t.is # "string"
      BY TokenClasses
    <3>4. Naming(Append(text, t), Len(stack), "more", field, from, start[1])
      BY <1>3, <1>6, <3>1, <3>2, <3>3, NamingStays
    <3>5. Short(Append(text, t), from)
      BY <1>6, <3>4 DEF Naming
    <3>6. from \in Nat \ {0} /\ from <= Len(text) + 1
      BY <3>1, <3>2
    <3> QED
      BY <1>3, <2>2, <3>2, <3>5, <3>6, EndedFits
  <2> QED
    BY <2>1, <2>4, <2>5, InsideKeeps
<1> QED
  BY <1>3, <1>5, <1>6 DEF InEnvelope

\* A comma between two parts.
LEMMA CommaKeeps ==
    ASSUME EnvelopeInv, parsed = "Reading", parsed' = "Reading", expect = "more",
           NEW t \in Tokens, Comma(t), text' = Append(text, t),
           expect' = (IF InArray THEN "value" ELSE "key"),
           UNCHANGED <<stack, field, from, fields>>
    PROVE  EnvelopeInv'
<1>1. expect \in Within /\ expect' \in Within
  BY DEF Within
<1>2. /\ text \in Seq(Tokens) /\ DOMAIN fields \subseteq Fields /\ FieldsFit(fields)
      /\ stack \in Seq(Frames) /\ stack # <<>> /\ Len(stack) \in Nat
  BY <1>1, ReaderInside
<1>3. PICK open, start : Inside(text, expect, stack, field, from, fields, open, start)
  BY <1>1, ReaderInside
<1>4. [stack EXCEPT ![Len(stack)] = stack[Len(stack)]] = stack
  BY <1>2
<1>5. Inside(text', IF stack[Len(stack)].is = "array" THEN "value" ELSE "key",
             [stack EXCEPT ![Len(stack)] = stack[Len(stack)]], field, from, fields, open,
             [start EXCEPT ![Len(stack)] = Len(text) + 2])
  BY <1>2, <1>3, CommaTaken
<1>6. Inside(text', expect', stack', field', from', fields', open,
             [start EXCEPT ![Len(stack)] = Len(text) + 2])
  BY <1>4, <1>5 DEF InArray, Top
<1> QED
  BY <1>1, <1>2, <1>6, InsideKeeps

\* A comma or a closing bracket behind a part.
LEMMA MoreKeeps ==
    ASSUME EnvelopeInv, parsed = "Reading", parsed' = "Reading",
           NEW t \in Tokens, More(t), text' = Append(text, t)
    PROVE  EnvelopeInv'
<1>1. /\ expect = "more"
      /\ \/ /\ Comma(t) /\ expect' = (IF InArray THEN "value" ELSE "key")
            /\ UNCHANGED <<stack, field, from, fields>>
         \/ t.is = Closing(Top.is) /\ Close(t)
  <2>1. ~Error("InvalidJson")
    BY DEF Error
  <2> QED
    BY Zenon, <2>1 DEF More, Comma
<1> QED
  BY <1>1, CommaKeeps, CloseKeeps

\* A closing bracket behind the opening one.
LEMMA CloseEmptyKeeps ==
    ASSUME EnvelopeInv, parsed = "Reading", parsed' = "Reading",
           NEW t \in Tokens, CloseEmpty(t), text' = Append(text, t)
    PROVE  EnvelopeInv'
<1>1. expect = "first" /\ t.is = Closing(Top.is) /\ ~InEnvelope /\ Close(t)
  BY DEF CloseEmpty, Error
<1> QED
  BY <1>1, CloseKeeps

\* The bracket that opens the envelope.
LEMMA StartKeeps ==
    ASSUME EnvelopeInv, parsed = "Reading", parsed' = "Reading",
           NEW t \in Tokens, Start(t), text' = Append(text, t)
    PROVE  EnvelopeInv'
<1>1. /\ expect = "start" /\ t.is = Opening("envelope")
      /\ stack' = <<Frame("envelope")>> /\ expect' = "first"
      /\ field' = field /\ from' = from /\ fields' = fields
  <2>1. \A code \in {"TooManyJsonValues", "InvalidJson"} : ~Error(code)
    BY DEF Error
  <2> QED
    BY Zenon, <2>1 DEF Start, Opening
<1>2. text = <<>> /\ DOMAIN fields = {}
  BY <1>1 DEF EnvelopeInv, Accepted
<1>3. \E open, start :
             Inside(Append(<<>>, t), "first", <<Frame("envelope")>>, field, from, fields,
                    open, start)
  BY <1>1, <1>2, Bounds, EnvelopeOpened
<1>4. \E open, start : Inside(text', expect', stack', field', from', fields', open, start)
  BY <1>1, <1>2, <1>3
<1>5. expect' \in Within /\ DOMAIN fields' \subseteq Fields /\ FieldsFit(fields')
  BY <1>1, <1>2 DEF Within, FieldsFit
<1> QED
  BY <1>4, <1>5, InsideKeeps

\* What an envelope is refused with.
Codes ==
    {"InvalidJson", "TooManyJsonValues", "MissingField", "UnknownField",
     "TooManyContainerEntries", "FieldTooLong", "DuplicateField", "InvalidFieldType",
     "EmptyField", "NestingTooDeep", "UnsupportedProtocol", "UnsupportedTool"}

\* A token either is refused, with a code of its own, or reading goes on.
LEMMA Outcomes ==
    ASSUME NEW t, Take(t)
    PROVE  \/ parsed' = parsed
           \/ \E code \in Codes : Error(code)
<1>1. CASE Start(t)
  BY Zenon, <1>1 DEF Start, Codes
<1>2. CASE CloseEmpty(t)
  BY <1>2 DEF CloseEmpty, Close, Codes
<1>3. CASE Key(t)
  BY <1>3 DEF Key, Codes
<1>4. CASE Colon(t)
  BY <1>4 DEF Colon, Codes
<1>5. CASE FieldValue(t)
  BY <1>5 DEF FieldValue, Codes
<1>6. CASE Value(t)
  BY <1>6 DEF Value, Container, Scalar, Codes
<1>7. CASE More(t)
  BY Zenon, <1>7 DEF More, Close, Codes
<1>8. CASE Trailing(t)
  BY <1>8 DEF Trailing, Codes
<1> QED
  BY <1>1, <1>2, <1>3, <1>4, <1>5, <1>6, <1>7, <1>8 DEF Take

\* Any token.
LEMMA TakeKeeps ==
    ASSUME EnvelopeInv, parsed = "Reading", NEW t \in Tokens, Take(t),
           text' = IF parsed' = "Reading" THEN Append(text, t) ELSE text
    PROVE  EnvelopeInv'
<1>1. \A code \in Codes : code \notin {"Reading", "Parsed"}
  BY DEF Codes
<1>2. CASE \E code \in Codes : Error(code)
  <2>1. PICK code \in Codes : Error(code)
    BY <1>2
  <2>2. parsed' = code /\ fields' = fields /\ code \notin {"Reading", "Parsed"}
    BY <1>1, <2>1 DEF Error
  <2>3. text' = text
    BY <2>2
  <2> QED
    BY <2>2, <2>3, RefusedKeeps
<1>3. CASE parsed' = parsed
  <2>1. parsed' = "Reading" /\ text' = Append(text, t)
    BY <1>3
  <2>2. ~Trailing(t)
    BY <2>1 DEF Trailing, Error
  <2> QED
    BY <2>1, <2>2, StartKeeps, CloseEmptyKeeps, KeyKeeps, ColonKeeps, FieldValueKeeps,
       ValueKeeps, MoreKeeps DEF Take
<1> QED
  BY <1>2, <1>3, Outcomes

\* The end of the input.
LEMMA FinishKeeps ==
    ASSUME EnvelopeInv, Finish
    PROVE  EnvelopeInv'
<1>1. /\ parsed = "Reading" /\ expect = "end" /\ parsed' = FinishCode
      /\ UNCHANGED <<text, expect, stack, field, from, fields>>
  BY DEF Finish
<1>2. /\ FinishCode # "Reading"
      /\ FinishCode = "Parsed" =>
           /\ DOMAIN fields = Fields /\ fields["tool_input"][1].is = Opening("object")
           /\ fields["hook_event_name"][1].text = "PreToolUse"
           /\ fields["tool_name"][1].text \in SupportedTools
  BY Zenon DEF FinishCode, Complete, Opening
<1> QED
  BY <1>1, <1>2 DEF EnvelopeInv

\* A token that starts nothing is refused wherever a value is not complete.
LEMMA JunkRefused ==
    ASSUME Take(Junk), parsed = "Reading", expect # "end"
    PROVE  parsed' # "Reading"
<1>1. Junk.is = "junk"
  BY DEF Junk
<1>2. ~Opens(Junk) /\ ~Closes(Junk) /\ ~Comma(Junk) /\ Junk.is # "string"
  BY <1>1, TokenClasses
<1>3. \A kind : Junk.is # Closing(kind)
  BY <1>2, TokenClasses
<1>4. \A code \in Codes : Error(code) => parsed' # "Reading"
  BY DEF Error, Codes
<1>5. CASE Start(Junk)
  <2>1. Junk.is # "{"
    BY Zenon, <1>2 DEF Opens
  <2>2. Error("TooManyJsonValues") \/ Error("InvalidJson")
    BY Zenon, <1>5, <2>1 DEF Start
  <2> QED
    BY <1>4, <2>2 DEF Codes
<1>6. ~CloseEmpty(Junk)
  BY <1>3 DEF CloseEmpty
<1>7. CASE Key(Junk)
  BY <1>2, <1>4, <1>7 DEF Key, Codes
<1>8. CASE Colon(Junk)
  BY <1>1, <1>4, <1>8 DEF Colon, Codes
<1>9. CASE FieldValue(Junk)
  BY <1>1, <1>4, <1>9 DEF FieldValue, Codes
<1>10. CASE Value(Junk)
  BY <1>1, <1>2, <1>4, <1>10 DEF Value, Codes
<1>11. CASE More(Junk)
  <2>1. Error("InvalidJson")
    BY Zenon, <1>2, <1>3, <1>11 DEF More, Comma
  <2> QED
    BY <1>4, <2>1 DEF Codes
<1>12. ~Trailing(Junk)
  BY DEF Trailing
<1> QED
  BY <1>5, <1>6, <1>7, <1>8, <1>9, <1>10, <1>11, <1>12 DEF Take

\* The invariant, from the first token to the answer.
LEMMA EnvelopeInvHolds == EnvelopeSpec => []EnvelopeInv
<1>1. EnvelopeInit => EnvelopeInv
  <2> SUFFICES ASSUME EnvelopeInit PROVE EnvelopeInv
    OBVIOUS
  <2>1. text = <<>> /\ expect = "start" /\ DOMAIN fields = {} /\ parsed # "Parsed"
    BY DEF EnvelopeInit
  <2>2. <<>> \in Seq(Tokens) /\ DOMAIN <<>> = {}
    OBVIOUS
  <2>3. Accepted(text, expect, stack, field, from, fields)
    BY <2>1, <2>2 DEF Accepted, FieldsFit, Shallow, Within
  <2> QED
    BY <2>1, <2>2, <2>3 DEF EnvelopeInv
<1>2. EnvelopeInv /\ [EnvelopeNext]_envelopeVars => EnvelopeInv'
  <2> SUFFICES ASSUME EnvelopeInv, [EnvelopeNext]_envelopeVars PROVE EnvelopeInv'
    OBVIOUS
  <2>1. CASE UNCHANGED envelopeVars
    BY <2>1 DEF EnvelopeInv, envelopeVars
  <2>2. CASE Truncated
    <3>1. Junk \in Tokens
      BY Zenon DEF Junk, Tokens, Marks
    <3>2. parsed = "Reading" /\ expect # "end" /\ Take(Junk) /\ text' = text
      BY <2>2 DEF Truncated
    <3>3. parsed' # "Reading"
      BY <3>2, JunkRefused
    <3> QED
      BY <3>1, <3>2, <3>3, TakeKeeps
  <2>3. CASE Finish
    BY <2>3, FinishKeeps
  <2>4. ASSUME NEW t \in Tokens, Read(t)
        PROVE  EnvelopeInv'
    BY <2>4, TakeKeeps DEF Read
  <2>5. CASE \E t \in Tokens : Read(t)
    BY <2>4, <2>5
  <2>6. \A texts : Offered(texts) \subseteq Tokens
    BY DEF Offered
  <2> QED
    BY <2>1, <2>2, <2>3, <2>5, <2>6 DEF EnvelopeNext
<1> QED
  BY <1>1, <1>2, PTL DEF EnvelopeSpec
-----------------------------------------------------------------------------
\* The members of the envelope and the fields of the builder are the same.
LEMMA WholeFields ==
    ASSUME NEW s \in Seq(Tokens), NEW kept, Whole(s, kept), DOMAIN kept = Fields
    PROVE  /\ {s[m[1]].text : m \in OuterMembers(s)} = Fields
           /\ Cardinality(OuterMembers(s)) = Cardinality(Fields)
           /\ \A f \in Fields : kept[f] = TextOf(s, f)
<1> DEFINE M == OuterMembers(s)
           g == [m \in M |-> s[m[1]].text]
<1>1. /\ \A m, o \in M : s[m[1]].text = s[o[1]].text => m = o
      /\ \A m \in M : s[m[1]].text \in Fields /\ kept[s[m[1]].text] = SubSeq(s, m[1] + 2, m[2])
      /\ \A f \in Fields : \E m \in M : s[m[1]].text = f
  BY DEF Whole, Named, Filled
<1> HIDE DEF M
<1>2. {s[m[1]].text : m \in M} = Fields
  BY <1>1
<1>3. Cardinality(M) = Cardinality(Fields)
  <2>1. g \in [M -> Fields]
    BY <1>1
  <2>2. g \in Injection(M, Fields)
    <3>1. \A m, o \in M : g[m] = g[o] => m = o
      BY <1>1
    <3> QED
      BY <2>1, <3>1 DEF Injection, IsInjective
  <2>3. g \in Surjection(M, Fields)
    BY <1>1, <2>1 DEF Surjection
  <2>4. IsFiniteSet(Fields)
    BY FieldsAssumption
  <2> QED
    BY <2>2, <2>3, <2>4, FS_Injection
<1>4. ASSUME NEW f \in Fields
      PROVE  kept[f] = TextOf(s, f)
  <2> DEFINE m == CHOOSE m \in M : s[m[1]].text = f
  <2>1. m \in M /\ s[m[1]].text = f
    BY <1>1
  <2>2. TextOf(s, f) = SubSeq(s, m[1] + 2, m[2])
    BY DEF TextOf, M
  <2> HIDE DEF m
  <2> QED
    BY <1>1, <2>1, <2>2
<1> QED
  BY <1>2, <1>3, <1>4 DEF M

\* The names and values of a text, and the colons between them.
ValueHeads == {"{", "[", "string", "atom", "null"}

LEMMA ValuesGrow ==
    ASSUME NEW s \in Seq(Tokens), NEW t \in Tokens
    PROVE  /\ ValuesIn(s) \in Int
           /\ t.is \in ValueHeads => ValuesIn(Append(s, t)) = ValuesIn(s) + 1
           /\ t.is = ":" => ValuesIn(Append(s, t)) = ValuesIn(s) - 1
           /\ t.is \notin ValueHeads /\ t.is # ":" => ValuesIn(Append(s, t)) = ValuesIn(s)
<1> DEFINE S == Append(s, t)
           n == Len(s)
           Set(u, K) == {i \in DOMAIN u : u[i].is \in K}
           C == {":"}
<1>1. /\ n \in Nat /\ (\A k \in 1..n : S[k] = s[k]) /\ S[n + 1] = t
      /\ DOMAIN s = 1..n /\ DOMAIN S = (1..n) \cup {n + 1} /\ n + 1 \notin 1..n
  OBVIOUS
<1> HIDE DEF S
<1>2. \A K : Set(S, K) = IF t.is \in K THEN Set(s, K) \cup {n + 1} ELSE Set(s, K)
  BY <1>1
<1>3. \A K : /\ IsFiniteSet(Set(s, K)) /\ Cardinality(Set(s, K)) \in Nat
             /\ n + 1 \notin Set(s, K)
  <2> TAKE K
  <2>1. IsFiniteSet(1..n) /\ Set(s, K) \in SUBSET (1..n)
    BY <1>1, FS_Interval
  <2> QED
    BY <1>1, <2>1, FS_Subset, FS_CardinalityType
<1>4. \A K : Cardinality(Set(S, K))
               = IF t.is \in K THEN Cardinality(Set(s, K)) + 1 ELSE Cardinality(Set(s, K))
  <2> TAKE K
  <2>1. Cardinality(Set(s, K) \cup {n + 1}) = Cardinality(Set(s, K)) + 1
    <3> HIDE DEF Set
    <3> QED
      BY <1>3, FS_AddElement
  <2>2. Set(S, K) = IF t.is \in K THEN Set(s, K) \cup {n + 1} ELSE Set(s, K)
    BY <1>2
  <2> HIDE DEF Set
  <2> QED
    BY <2>1, <2>2
<1>5. \A u : ValuesIn(u) = Cardinality(Set(u, ValueHeads)) - Cardinality(Set(u, C))
  <2> TAKE u
  <2>1. Set(u, C) = {k \in DOMAIN u : u[k].is = ":"}
    OBVIOUS
  <2> QED
    BY <2>1 DEF ValuesIn, ValueHeads
<1>6. t.is = ":" <=> t.is \in C
  OBVIOUS
<1>7. t.is \in ValueHeads => t.is # ":"
  BY DEF ValueHeads
<1> HIDE DEF Set, C
<1>8. /\ Cardinality(Set(s, ValueHeads)) \in Nat /\ Cardinality(Set(s, C)) \in Nat
      /\ ValuesIn(s) = Cardinality(Set(s, ValueHeads)) - Cardinality(Set(s, C))
      /\ ValuesIn(S) = Cardinality(Set(S, ValueHeads)) - Cardinality(Set(S, C))
  BY <1>3, <1>5
<1>9. /\ Cardinality(Set(S, ValueHeads)) =
           IF t.is \in ValueHeads THEN Cardinality(Set(s, ValueHeads)) + 1
                              ELSE Cardinality(Set(s, ValueHeads))
      /\ Cardinality(Set(S, C)) =
           IF t.is \in C THEN Cardinality(Set(s, C)) + 1 ELSE Cardinality(Set(s, C))
  BY <1>4
<1> QED
  BY <1>6, <1>7, <1>8, <1>9 DEF S

\* The reader counts the values of the text: while it is between a name and
\* the colon behind it, the name is not yet known for one.
CountInv ==
    parsed \in {"Reading", "Parsed"} =>
        /\ values \in Nat /\ values <= MaxValues
        /\ ValuesIn(text) = values + (IF expect = "colon" THEN 1 ELSE 0)

\* One token more: how much it counts, and what is expected behind it.
LEMMA TokenCounted ==
    ASSUME EnvelopeInv, CountInv, parsed = "Reading", parsed' = "Reading",
           NEW t \in Tokens, text' = Append(text, t),
           values' \in Nat, values' <= MaxValues,
           \/ /\ t.is = "string" /\ expect # "colon" /\ expect' = "colon"
              /\ values' = values
           \/ /\ t.is = ":" /\ expect = "colon" /\ expect' # "colon"
              /\ values' = values
           \/ /\ t.is \in ValueHeads /\ expect # "colon" /\ expect' # "colon"
              /\ values' = values + 1
           \/ /\ t.is \notin ValueHeads /\ t.is # ":" /\ expect # "colon"
              /\ expect' # "colon" /\ values' = values
    PROVE  CountInv'
<1>1. text \in Seq(Tokens) /\ values \in Nat
  BY DEF EnvelopeInv, CountInv
<1>2. ValuesIn(text) = values + (IF expect = "colon" THEN 1 ELSE 0)
  BY DEF CountInv
<1>3. /\ t.is \in ValueHeads => ValuesIn(text') = ValuesIn(text) + 1
      /\ t.is = ":" => ValuesIn(text') = ValuesIn(text) - 1
      /\ t.is \notin ValueHeads /\ t.is # ":" => ValuesIn(text') = ValuesIn(text)
  BY <1>1, ValuesGrow
<1>4. "string" \in ValueHeads
  BY DEF ValueHeads
<1>5. ValuesIn(text') = values' + (IF expect' = "colon" THEN 1 ELSE 0)
  BY <1>1, <1>2, <1>3, <1>4
<1> QED
  BY <1>5 DEF CountInv

LEMMA TakeCounts ==
    ASSUME EnvelopeInv, CountInv, parsed = "Reading", NEW t \in Tokens, Take(t),
           text' = IF parsed' = "Reading" THEN Append(text, t) ELSE text
    PROVE  CountInv'
<1>1. values \in Nat /\ values <= MaxValues /\ MaxValues \in Nat
  BY FieldsAssumption DEF CountInv
<1>2. \A code \in Codes : Error(code) => parsed' \notin {"Reading", "Parsed"}
  BY DEF Codes, Error
<1>3. CASE parsed' # "Reading"
  <2>1. parsed' \notin {"Reading", "Parsed"}
    BY <1>2, <1>3, Outcomes
  <2> QED
    BY <2>1 DEF CountInv
<1>4. CASE parsed' = "Reading"
  <2>1. text' = Append(text, t)
    BY <1>4
  <2>2. \A code \in Codes : ~Error(code)
    BY <1>2, <1>4
  <2>3. CASE Start(t)
    <3>1. /\ t.is = "{" /\ expect = "start" /\ expect' = "first" /\ values' = 1
          /\ MaxValues # 0
      BY <2>2, <2>3 DEF Start, Codes
    <3>2. values = 0
      <4>1. text = <<>>
        BY <3>1 DEF EnvelopeInv, Accepted
      <4>2. ValuesIn(<<>>) = 0
        <5>1. /\ {k \in DOMAIN <<>> : <<>>[k].is \in {"{", "[", "string", "atom", "null"}} = {}
              /\ {k \in DOMAIN <<>> : <<>>[k].is = ":"} = {}
          OBVIOUS
        <5> QED
          BY <5>1, FS_EmptySet DEF ValuesIn
      <4>3. ValuesIn(text) = values + 0
        BY <3>1 DEF CountInv
      <4> QED
        BY <1>1, <4>1, <4>2, <4>3
    <3>3. t.is \in ValueHeads
      BY <3>1 DEF ValueHeads
    <3>4. values' \in Nat /\ values' <= MaxValues /\ values' = values + 1
      <4>1. values' = 1 /\ MaxValues # 0 /\ MaxValues \in Nat
        BY <1>1, <3>1
      <4>2. 1 <= MaxValues
        BY ONLY <4>1
      <4> QED
        BY ONLY <3>2, <4>1, <4>2
    <3> QED
      BY <1>4, <2>1, <3>1, <3>3, <3>4, TokenCounted
  <2>4. CASE Key(t)
    <3>1. /\ t.is = "string" /\ expect \in {"first", "key"} /\ expect' = "colon"
          /\ values' = values
      BY <2>2, <2>4 DEF Key, Codes
    <3> QED
      BY <1>1, <1>4, <2>1, <3>1, TokenCounted
  <2>5. CASE Colon(t)
    <3>1. /\ t.is = ":" /\ expect = "colon" /\ expect' = "value" /\ values' = values
      BY <2>2, <2>5 DEF Colon, Codes
    <3> QED
      BY <1>1, <1>4, <2>1, <3>1, TokenCounted
  <2>6. ASSUME ~(values >= MaxValues), t.is \in ValueHeads, values' = values + 1,
               expect # "colon", expect' # "colon"
        PROVE  CountInv'
    <3>1. values' \in Nat /\ values' <= MaxValues
      BY <1>1, <2>6
    <3> QED
      BY <1>4, <2>1, <2>6, <3>1, TokenCounted
  <2>7. CASE FieldValue(t)
    <3>1. /\ ~(values >= MaxValues) /\ values' = values + 1
          /\ t.is \in {"string", "null"} /\ expect = "value" /\ expect' = "more"
      BY <2>2, <2>7 DEF FieldValue, Codes
    <3>2. t.is \in ValueHeads
      BY <3>1 DEF ValueHeads
    <3> QED
      BY <2>6, <3>1, <3>2
  <2>8. CASE Value(t)
    <3>1. /\ ~(values >= MaxValues) /\ expect \in {"value", "first"}
          /\ \/ Opens(t) /\ Container(t)
             \/ t.is \in {"string", "atom", "null"} /\ Scalar(t)
      BY <2>2, <2>8 DEF Value, Codes
    <3>2. values' = values + 1 /\ expect' \in {"first", "more"}
      BY <3>1 DEF Container, Scalar
    <3>3. t.is \in ValueHeads
      BY <3>1 DEF ValueHeads, Opens
    <3> QED
      BY <2>6, <3>1, <3>2, <3>3
  <2>9. ASSUME Close(t), expect \in {"first", "more"}, t.is = Closing(Top.is)
        PROVE  CountInv'
    <3>1. values' = values /\ expect' \in {"end", "more"}
      BY <2>9 DEF Close
    <3>2. t.is \notin ValueHeads /\ t.is # ":"
      BY <2>9 DEF Closing, ValueHeads
    <3> QED
      BY <1>1, <1>4, <2>1, <2>9, <3>1, <3>2, TokenCounted
  <2>10. CASE CloseEmpty(t)
    <3>1. Close(t) /\ expect = "first" /\ t.is = Closing(Top.is)
      BY <2>2, <2>10 DEF CloseEmpty, Codes
    <3> QED
      BY <2>9, <3>1
  <2>11. CASE More(t)
    <3>1. CASE t.is = "," /\ expect' \in {"value", "key"} /\ values' = values
      <4>1. t.is \notin ValueHeads /\ t.is # ":" /\ expect # "colon" /\ expect' # "colon"
        BY <2>11, <3>1 DEF ValueHeads, More
      <4> QED
        BY <1>1, <1>4, <2>1, <3>1, <4>1, TokenCounted
    <3>2. CASE Close(t) /\ t.is = Closing(Top.is)
      BY <2>9, <2>11, <3>2 DEF More
    <3>3. ~Error("InvalidJson")
      BY <2>2 DEF Codes
    <3> QED
      BY <2>11, <3>1, <3>2, <3>3 DEF More
  <2>12. ~Trailing(t)
    BY <2>2 DEF Trailing, Codes
  <2> QED
    BY <2>3, <2>4, <2>5, <2>7, <2>8, <2>10, <2>11, <2>12 DEF Take
<1> QED
  BY <1>3, <1>4

LEMMA CountInvHolds == EnvelopeSpec => []CountInv
<1>1. EnvelopeInit => CountInv
  <2> SUFFICES ASSUME EnvelopeInit PROVE CountInv
    OBVIOUS
  <2>1. text = <<>> /\ expect = "start" /\ values = 0 /\ MaxValues \in Nat
    BY FieldsAssumption DEF EnvelopeInit
  <2>2. /\ {k \in DOMAIN <<>> : <<>>[k].is \in {"{", "[", "string", "atom", "null"}} = {}
        /\ {k \in DOMAIN <<>> : <<>>[k].is = ":"} = {}
    OBVIOUS
  <2>3. ValuesIn(text) = 0
    BY <2>1, <2>2, FS_EmptySet DEF ValuesIn
  <2> QED
    BY <2>1, <2>3 DEF CountInv
<1>2. EnvelopeInv /\ CountInv /\ [EnvelopeNext]_envelopeVars => CountInv'
  <2> SUFFICES ASSUME EnvelopeInv, CountInv, [EnvelopeNext]_envelopeVars PROVE CountInv'
    OBVIOUS
  <2>1. CASE UNCHANGED envelopeVars
    BY <2>1 DEF CountInv, envelopeVars
  <2>2. CASE Truncated
    <3>1. Junk \in Tokens
      BY Zenon DEF Junk, Tokens, Marks
    <3>2. parsed = "Reading" /\ expect # "end" /\ Take(Junk) /\ text' = text
      BY <2>2 DEF Truncated
    <3>3. parsed' # "Reading"
      BY <3>1, <3>2, JunkRefused
    <3> QED
      BY <3>1, <3>2, <3>3, TakeCounts
  <2>3. CASE Finish
    BY <2>3 DEF Finish, CountInv
  <2>4. ASSUME NEW t \in Tokens, Read(t)
        PROVE  CountInv'
    BY <2>4, TakeCounts DEF Read
  <2>5. CASE \E t \in Tokens : Read(t)
    BY <2>4, <2>5
  <2>6. \A texts : Offered(texts) \subseteq Tokens
    BY DEF Offered
  <2> QED
    BY <2>1, <2>2, <2>3, <2>5, <2>6 DEF EnvelopeNext
<1> QED
  BY <1>1, <1>2, EnvelopeInvHolds, PTL DEF EnvelopeSpec

\* "never repairs, defaults, or ignores input": an accepted envelope is one
\* JSON object without a duplicate key at any depth, whose members are the
\* fields and nothing else, each with the tokens kept for it; it is within the
\* limits of nesting, members, elements, values and of the length of every
\* string where it stands, only a nullable field is null, and what it says of
\* the event and the tool is supported.
THEOREM EnvelopeStrict == EnvelopeSpec => []EnvelopeIsStrict
<1>1. EnvelopeInv /\ CountInv => EnvelopeIsStrict
  <2> SUFFICES ASSUME EnvelopeInv, CountInv, parsed = "Parsed"
               PROVE  /\ text[1].is = "{" /\ text[Len(text)].is = "}"
                      /\ Named(text, OuterMembers(text))
                      /\ \A m \in OuterMembers(text) : IsValue(text)[<<m[1] + 2, m[2]>>]
                      /\ \A k \in DOMAIN text : Depth(text, k) <= MaxDepth
                      /\ {text[m[1]].text : m \in OuterMembers(text)} = Fields
                      /\ Cardinality(OuterMembers(text)) = Cardinality(Fields)
                      /\ \A f \in Fields : fields[f] = TextOf(text, f)
                      /\ \A f \in Fields \ {"tool_input"} :
                            /\ Len(fields[f]) = 1
                            /\ fields[f][1].is \in {"string"} \cup
                                  (IF f \in Nullable THEN {"null"} ELSE {})
                            /\ fields[f][1].is = "string" => fields[f][1].text # NoText
                      /\ ValuesIn(text) <= MaxValues
                      /\ \A f \in Strings : StringsFit(fields[f], MaxIdentifier)
                      /\ \A f \in Paths : StringsFit(fields[f], MaxPath)
                      /\ StringsFit(fields["tool_input"], MaxString)
                      /\ fields["hook_event_name"][1].text = "PreToolUse"
                      /\ fields["tool_name"][1].text \in SupportedTools
                      /\ fields["tool_input"][1].is = "{"
    BY Zenon DEF EnvelopeIsStrict
  <2>1. /\ text \in Seq(Tokens) /\ DOMAIN fields = Fields /\ expect = "end"
        /\ FieldsFit(fields) /\ Shallow(text) /\ Whole(text, fields)
        /\ fields["tool_input"][1].is = Opening("object")
        /\ fields["hook_event_name"][1].text = "PreToolUse"
        /\ fields["tool_name"][1].text \in SupportedTools
    BY DEF EnvelopeInv, Accepted
  <2>2. text[1].is = "{" /\ text[Len(text)].is = "}"
    <3>1. text[1].is = Opening("envelope") /\ text[Len(text)].is = Closing("envelope")
      BY <2>1 DEF Whole
    <3> QED
      BY Zenon, <3>1 DEF Opening, Closing
  <2>3. /\ Named(text, OuterMembers(text))
        /\ \A m \in OuterMembers(text) : IsValue(text)[<<m[1] + 2, m[2]>>]
    BY <2>1 DEF Whole
  <2>4. \A k \in DOMAIN text : Depth(text, k) <= MaxDepth
    BY <2>1 DEF Shallow
  <2>5. \A f \in Fields \ {"tool_input"} :
                            /\ Len(fields[f]) = 1
                            /\ fields[f][1].is \in {"string"} \cup
                                  (IF f \in Nullable THEN {"null"} ELSE {})
                            /\ fields[f][1].is = "string" => fields[f][1].text # NoText
    BY <2>1 DEF FieldsFit, OneString
  <2>6. /\ {text[m[1]].text : m \in OuterMembers(text)} = Fields
        /\ Cardinality(OuterMembers(text)) = Cardinality(Fields)
        /\ \A f \in Fields : fields[f] = TextOf(text, f)
    BY <2>1, WholeFields
  <2>7. ValuesIn(text) <= MaxValues
    <3>1. values \in Nat /\ values <= MaxValues /\ ValuesIn(text) = values + 0
      BY <2>1 DEF CountInv
    <3> QED
      BY <3>1
  <2>8. /\ \A f \in Strings : f \in Fields /\ Longest(f) = MaxIdentifier
        /\ \A f \in Paths : f \in Fields /\ Longest(f) = MaxPath
        /\ "tool_input" \in Fields /\ Longest("tool_input") = MaxString
    BY FieldsAssumption DEF Fields, Longest
  <2>9. \A f \in Fields : StringsFit(fields[f], Longest(f))
    BY <2>1 DEF FieldsFit
  <2>10. fields["tool_input"][1].is = "{"
    BY Zenon, <2>1 DEF Opening
  <2> QED
    BY <2>1, <2>2, <2>3, <2>4, <2>5, <2>6, <2>7, <2>8, <2>9, <2>10
<1> QED
  BY <1>1, EnvelopeInvHolds, CountInvHolds, PTL
-----------------------------------------------------------------------------
\* A part starts behind the opening bracket and behind every comma.
LEMMA PartFrom ==
    ASSUME NEW i \in Nat, NEW j \in Nat, NEW C \in SUBSET (i..j), i <= j + 1,
           NEW x \in i..(j + 1), x = i \/ x - 1 \in C
    PROVE  \E m \in Stretches(i, j, C) : m[1] = x
<1>1. x \in Int /\ x <= j + 1 /\ \A k \in C : k \in Nat /\ i <= k /\ k <= j
  OBVIOUS
<1>2. \A b, e \in Int :
                /\ b <= e + 1
                /\ b = i \/ b - 1 \in C
                /\ e = j \/ e + 1 \in C
                /\ \A k \in C : k < b \/ k > e
                => <<b, e>> \in Stretches(i, j, C)
  BY StretchesAre
<1>3. CASE \A k \in C : k < x
  <2>1. <<x, j>> \in Stretches(i, j, C)
    BY <1>1, <1>2, <1>3
  <2>2. <<x, j>>[1] = x
    OBVIOUS
  <2> QED
    BY <2>1, <2>2
<1>4. CASE \E k \in C : k >= x
  <2> DEFINE D == {k \in C : k >= x}
  <2>1. D \in SUBSET Nat /\ D # {}
    BY <1>1, <1>4
  <2>2. PICK d \in D : \A k \in D : d <= k
    BY <2>1, LeastNumber
  <2>3. d \in C /\ d \in Nat /\ d >= x /\ \A k \in C : k < x \/ k > d - 1
    BY <1>1, <2>1, <2>2
  <2>4. d - 1 \in Int /\ x <= d - 1 + 1 /\ d - 1 + 1 \in C
    BY <1>1, <2>3
  <2>5. <<x, d - 1>> \in Stretches(i, j, C)
    BY <1>1, <1>2, <2>3, <2>4
  <2>6. <<x, d - 1>>[1] = x
    OBVIOUS
  <2> QED
    BY <2>5, <2>6
<1> QED
  BY <1>1, <1>3, <1>4

\* An object is empty, or members in it start at the first token of it and
\* behind each of the commas between them.
LEMMA ObjectParts ==
    ASSUME NEW s \in Seq(Tokens), NEW b \in 1..Len(s), NEW e \in 0..Len(s),
           IsValue(s)[<<b, e>>], s[b].is = Opening("object")
    PROVE  /\ b < e /\ s[e].is = Closing("object")
           /\ \/ e = b + 1
              \/ \E members :
                   /\ \A n \in members : /\ n[1] \in Nat /\ n[2] \in Nat /\ b < n[1]
                                         /\ n[1] + 2 <= n[2] /\ n[2] < e
                                         /\ IsValue(s)[<<n[1] + 2, n[2]>>]
                   /\ Named(s, members)
                   /\ \E n \in members : n[1] = b + 1
                   /\ \A n \in members :
                        \/ n[2] + 1 = e
                        \/ Comma(s[n[2] + 1]) /\ \E o \in members : o[1] = n[2] + 2
<1> DEFINE m == <<b, e>>
<1>1. m \in Pairs(s) /\ m[1] = b /\ m[2] = e /\ Len(s) \in Nat
  BY DEF Pairs
<1> HIDE DEF m
<1>2. /\ Encloses(s, m, "{", "}")
      /\ \/ m[2] = m[1] + 1
         \/ \E members \in Cuts(s, m) :
                /\ \A n \in members : n[2] >= n[1] + 2
                /\ Named(s, members)
                /\ \A n \in members : IsValue(s)[<<n[1] + 2, n[2]>>]
  <2>1. ValueIn(s, IsValue(s), m)
    BY <1>1, ValueRecursion DEF m
  <2>2. s[m[1]].is = "{"
    BY Zenon, <1>1 DEF Opening
  <2>3. ~IsScalar(s, m) /\ ~Encloses(s, m, "[", "]")
    BY Zenon, <2>2 DEF IsScalar, Encloses
  <2> QED
    BY Zenon, <2>1, <2>3 DEF ValueIn
<1>3. b < e /\ s[e].is = Closing("object")
  BY Zenon, <1>1, <1>2 DEF Encloses, Closing
<1>4. CASE m[2] = m[1] + 1
  BY <1>1, <1>3, <1>4
<1>5. ASSUME NEW members \in Cuts(s, m),
             \A n \in members : n[2] >= n[1] + 2,
             Named(s, members),
             \A n \in members : IsValue(s)[<<n[1] + 2, n[2]>>]
      PROVE  /\ \A n \in members : /\ n[1] \in Nat /\ n[2] \in Nat /\ b < n[1]
                                   /\ n[1] + 2 <= n[2] /\ n[2] < e
             /\ \E n \in members : n[1] = b + 1
             /\ \A n \in members :
                        \/ n[2] + 1 = e
                        \/ Comma(s[n[2] + 1]) /\ \E o \in members : o[1] = n[2] + 2
  <2>1. \A n \in members :
             /\ n = <<n[1], n[2]>> /\ n[1] \in Nat /\ n[2] \in Nat
             /\ m[1] < n[1] /\ n[2] < m[2] /\ n[1] <= n[2] + 1
    BY <1>1, <1>3, CutsAre
  <2>2. \A n \in members : n[1] + 2 <= n[2]
    BY <1>5, <2>1
  <2> DEFINE i == b + 1
             j == e - 1
  <2>3. PICK C \in CommasIn(s, i, j) : members = Stretches(i, j, C)
    BY <1>1 DEF Cuts
  <2>4. C \in SUBSET (i..j) /\ \A k \in C : Comma(s[k])
    BY Zenon, <2>3 DEF CommasIn, Comma
  <2>5. i \in Nat /\ j \in Nat /\ i <= j + 1 /\ b \in Nat /\ e \in Nat /\ b < e
    BY <1>1, <1>3
  <2> HIDE DEF i, j
  <2>6. \E n \in members : n[1] = b + 1
    <3>1. i \in i..(j + 1)
      BY <2>5
    <3>2. \E n \in Stretches(i, j, C) : n[1] = i
      BY <2>4, <2>5, <3>1, PartFrom
    <3> QED
      BY <2>3, <3>2 DEF i
  <2>7. ASSUME NEW n \in members, n[2] + 1 # e
        PROVE  Comma(s[n[2] + 1]) /\ \E o \in members : o[1] = n[2] + 2
    <3>1. n[2] = j \/ n[2] + 1 \in C
      BY <2>3, <2>4, <2>5, StretchesAre
    <3>2. n[2] # j /\ n[2] \in Nat
      <4>1. n[2] \in Nat
        BY <2>1
      <4> QED
        BY <2>5, <2>7, <4>1 DEF j
    <3>3. n[2] + 1 \in C
      BY <3>1, <3>2
    <3>4. n[2] + 2 \in i..(j + 1) /\ (n[2] + 2) - 1 \in C
      <4>1. n[2] + 1 \in i..j /\ (n[2] + 2) - 1 = n[2] + 1
        BY <2>4, <3>2, <3>3
      <4> QED
        BY SMTT(60), <2>5, <3>2, <3>3, <4>1
    <3>5. \E o \in Stretches(i, j, C) : o[1] = n[2] + 2
      <4> DEFINE x == n[2] + 2
      <4>1. x \in i..(j + 1) /\ x - 1 \in C
        BY Zenon, <3>4
      <4> HIDE DEF x
      <4>2. \E o \in Stretches(i, j, C) : o[1] = x
        BY SMTT(60), <2>4, <2>5, <4>1, PartFrom
      <4> QED
        BY <4>2 DEF x
    <3> QED
      BY <2>3, <2>4, <3>3, <3>5
  <2> QED
    BY <1>1, <2>1, <2>2, <2>6, <2>7
<1> QED
  BY <1>2, <1>3, <1>4, <1>5

\* A value that begins with a string is that string.
LEMMA StringIsAlone ==
    ASSUME NEW s \in Seq(Tokens), NEW i \in 1..Len(s), NEW j \in 0..Len(s),
           IsValue(s)[<<i, j>>], s[i].is = "string"
    PROVE  i = j
<1> DEFINE m == <<i, j>>
<1>1. m \in Pairs(s) /\ m[1] = i /\ m[2] = j
  BY DEF Pairs
<1> HIDE DEF m
<1>2. ValueIn(s, IsValue(s), m)
  BY <1>1, ValueRecursion DEF m
<1>3. ~Encloses(s, m, "{", "}") /\ ~Encloses(s, m, "[", "]")
  <2>1. s[m[1]].is = "string"
    BY <1>1
  <2> QED
    BY Zenon, <2>1 DEF Encloses
<1>4. IsScalar(s, m)
  BY Zenon, <1>2, <1>3 DEF ValueIn
<1> QED
  BY <1>1, <1>4 DEF IsScalar

\* What the second reader says of an object the first one accepted.
Judged(raw) ==
    /\ ToolInputCode(raw) \notin {"InvalidJson", "DuplicateField"}
    /\ ToolInputCode(raw) = "none" <=>
          /\ Len(raw) = 5 /\ raw[2].text = "command"
          /\ raw[4].is = "string" /\ raw[4].text \notin {NoText} \cup Blanks

\* The second reader, given an object that is JSON and has no long strings.
LEMMA ObjectJudged ==
    ASSUME NEW s \in Seq(Tokens), NEW b \in 1..Len(s), NEW e \in 0..Len(s),
           IsValue(s)[<<b, e>>], s[b].is = Opening("object"),
           NEW raw, raw = SubSeq(s, b, e),
           \A k \in DOMAIN raw : raw[k].is = "string" => Size[raw[k].text] <= MaxString
    PROVE  Judged(raw)
<1> DEFINE q == e - b + 1
<1>1. Len(s) \in Nat /\ b \in Nat /\ e \in Nat /\ b >= 1 /\ e <= Len(s)
  OBVIOUS
<1>2. b < e /\ s[e].is = Closing("object")
  BY SMTT(60), ObjectParts
<1>3. /\ q \in Nat /\ q >= 2 /\ DOMAIN raw = 1..q /\ Len(raw) = q
      /\ \A k \in 1..q : raw[k] = s[b + k - 1]
  BY SMTT(60), <1>1, <1>2
<1>4. \A k \in 1..q : At(raw, k) = s[b + k - 1]
  BY <1>3 DEF At
<1>5. At(raw, 1) = s[b] /\ At(raw, 1).is = "{"
  <2>1. At(raw, 1) = s[b]
    BY <1>1, <1>3, <1>4
  <2> QED
    BY Zenon, <2>1 DEF Opening
<1>6. At(raw, q) = s[e] /\ At(raw, q).is = "}"
  <2>1. At(raw, q) = s[e]
    BY <1>1, <1>3, <1>4
  <2> QED
    BY Zenon, <1>2, <2>1 DEF Closing
<1>7. CASE e = b + 1
  <2>1. q = 2
    BY <1>1, <1>7
  <2>2. Len(raw) # 5
    BY <1>3, <2>1
  <2>3. At(raw, 2).is = "}"
    BY Zenon, <1>6, <2>1
  <2>4. ToolInputCode(raw) = "MissingField"
    BY Zenon, <1>5, <2>3 DEF ToolInputCode
  <2> QED
    BY Zenon, <2>2, <2>4 DEF Judged
<1>8. ASSUME NEW members,
             \A n \in members : /\ n[1] \in Nat /\ n[2] \in Nat /\ b < n[1]
                                /\ n[1] + 2 <= n[2] /\ n[2] < e
                                /\ IsValue(s)[<<n[1] + 2, n[2]>>],
             Named(s, members),
             \E n \in members : n[1] = b + 1,
             \A n \in members :
                  \/ n[2] + 1 = e
                  \/ Comma(s[n[2] + 1]) /\ \E o \in members : o[1] = n[2] + 2
      PROVE  Judged(raw)
  <2>1. PICK n \in members : n[1] = b + 1
    BY <1>8
  <2>2. /\ n[1] \in Nat /\ n[2] \in Nat /\ b + 1 + 2 <= n[2] /\ n[2] < e
        /\ IsValue(s)[<<b + 1 + 2, n[2]>>]
        /\ s[b + 1].is = "string" /\ s[b + 1 + 1].is = ":"
    BY <1>8, <2>1 DEF Named
  <2>3. q \in Nat /\ q >= 5 /\ 2 \in 1..q /\ 3 \in 1..q /\ 4 \in 1..q /\ 5 \in 1..q
    <3>1. e >= b + 4
      <4>1. b + 1 + 2 <= n[2] /\ n[2] < e /\ n[2] \in Nat
        BY <2>2
      <4> QED
        BY <1>1, <4>1
    <3>2. e - b + 1 \in Nat /\ e - b + 1 >= 5
      BY <1>1, <3>1
    <3> HIDE DEF q
    <3>3. q \in Nat /\ q >= 5
      BY ONLY <3>2 DEF q
    <3> QED
      BY ONLY <3>3
  <2>4. /\ At(raw, 2) = s[b + 1] /\ At(raw, 3) = s[b + 2] /\ At(raw, 4) = s[b + 3]
        /\ At(raw, 5) = s[b + 4]
    BY <1>1, <1>4, <2>3
  <2>5. raw[2] = At(raw, 2) /\ raw[4] = At(raw, 4)
    BY <1>3, <2>3 DEF At
  <2>6. At(raw, 2).is = "string" /\ At(raw, 3).is = ":" /\ At(raw, 2).is # "}"
    <3>1. At(raw, 2).is = "string" /\ At(raw, 3).is = ":"
      <4>1. b + 1 + 1 = b + 2
        BY <1>1
      <4> QED
        BY Zenon, <2>2, <2>4, <4>1
    <3> QED
      BY Zenon, <3>1
  <2>7. CASE Size[At(raw, 2).text] > MaxName
    <3>1. ToolInputCode(raw) = "FieldTooLong"
      BY Zenon, <1>5, <2>6, <2>7 DEF ToolInputCode
    <3>2. At(raw, 2).text # "command"
      <4>1. ~(Size["command"] > MaxName)
        <5>1. Size["command"] \in Nat /\ Size["command"] <= MaxName /\ MaxName \in Nat
          BY FieldsAssumption, Bounds
        <5> QED
          BY ONLY <5>1
      <4> QED
        BY <2>7, <4>1
    <3> QED
      BY Zenon, <2>5, <3>1, <3>2 DEF Judged
  <2>8. CASE ~(Size[At(raw, 2).text] > MaxName) /\ At(raw, 2).text # "command"
    <3>1. ToolInputCode(raw) = "UnknownField"
      BY Zenon, <1>5, <2>6, <2>8 DEF ToolInputCode
    <3> QED
      BY Zenon, <2>5, <2>8, <3>1 DEF Judged
  <2>9. ASSUME ~(Size[At(raw, 2).text] > MaxName), At(raw, 2).text = "command",
               At(raw, 4).is # "string"
        PROVE  Judged(raw)
    <3>1. ToolInputCode(raw) = "InvalidFieldType"
      BY Zenon, <1>5, <2>6, <2>9 DEF ToolInputCode
    <3> QED
      BY Zenon, <2>5, <2>9, <3>1 DEF Judged
  <2>10. ASSUME ~(Size[At(raw, 2).text] > MaxName), At(raw, 2).text = "command",
                At(raw, 4).is = "string"
         PROVE  Judged(raw)
    <3>1. ~(Size[At(raw, 4).text] > MaxString)
      <4>1. raw[4].is = "string" /\ 4 \in DOMAIN raw
        BY <1>3, <2>3, <2>5, <2>10
      <4>2. Size[raw[4].text] <= MaxString
        BY <4>1
      <4>3. raw[4].text \in Texts
        <5>1. raw[4] \in Tokens
          <6>1. b + 3 \in 1..Len(s)
            BY <1>1, <2>2
          <6> QED
            BY <2>4, <2>5, <6>1, ElementOfSeq
        <5> QED
          BY <4>1, <5>1 DEF Tokens, Marks
      <4>4. Size[raw[4].text] \in Nat /\ MaxString \in Nat
        BY <4>3, Bounds, FieldsAssumption
      <4> QED
        BY <2>5, <4>2, <4>4
    <3>2. CASE At(raw, 4).text = NoText
      <4>1. ToolInputCode(raw) = "EmptyField"
        BY Zenon, <1>5, <2>6, <2>10, <3>1, <3>2 DEF ToolInputCode
      <4> QED
        BY Zenon, <2>5, <3>2, <4>1 DEF Judged
    <3>3. n[2] = b + 3
      <4>1. b + 1 + 2 \in 1..Len(s) /\ n[2] \in 0..Len(s) /\ b + 1 + 2 = b + 3
        BY <1>1, <2>2
      <4>2. s[b + 1 + 2].is = "string"
        BY <2>4, <2>10, <4>1
      <4> QED
        BY <2>2, <4>1, <4>2, StringIsAlone
    <3>4. CASE n[2] + 1 = e /\ At(raw, 4).text # NoText
      <4>1. q = 5
        BY <1>1, <3>3, <3>4
      <4>2. At(raw, 5).is = "}"
        BY Zenon, <1>6, <4>1
      <4>3. At(raw, 6) = Junk
        <5>1. 6 \notin DOMAIN raw
          BY <1>3, <4>1
        <5> QED
          BY <5>1 DEF At
      <4>4. Behind(raw) = "none"
        BY Zenon, <4>2, <4>3 DEF Behind
      <4>5. Len(raw) = 5
        BY <1>3, <4>1
      <4>6. ToolInputCode(raw) = IF At(raw, 4).text \in Blanks THEN "EmptyField" ELSE "none"
        BY Zenon, <1>5, <2>6, <2>10, <3>1, <3>4, <4>4 DEF ToolInputCode
      <4>7. CASE At(raw, 4).text \in Blanks
        BY Zenon, <2>5, <4>6, <4>7 DEF Judged
      <4>8. CASE At(raw, 4).text \notin Blanks
        BY Zenon, <2>5, <2>10, <3>4, <4>5, <4>6, <4>8 DEF Judged
      <4> QED
        BY <4>7, <4>8
    <3>5. CASE n[2] + 1 # e /\ At(raw, 4).text # NoText
      <4>1. Comma(s[n[2] + 1]) /\ \E o \in members : o[1] = n[2] + 2
        BY <1>8, <3>5
      <4>2. PICK o \in members : o[1] = n[2] + 2
        BY <4>1
      <4>3. o[2] \in Nat /\ o[1] + 2 <= o[2] /\ o[2] < e /\ o[1] = b + 5
        <5>1. o[2] \in Nat /\ o[1] + 2 <= o[2] /\ o[2] < e
          BY <1>8
        <5>2. o[1] = b + 3 + 2 /\ b \in Nat
          BY <1>1, <3>3, <4>2
        <5>3. o[1] = b + 5
          BY ONLY <5>2
        <5> QED
          BY <5>1, <5>3
      <4>4. /\ s[o[1]].is = "string" /\ s[o[1]].text # s[n[1]].text
        <5>1. o # n
          BY <1>1, <2>1, <4>3
        <5> QED
          BY <1>8, <5>1 DEF Named
      <4>5. q > 5 /\ 6 \in 1..q /\ b + 6 - 1 = b + 5
        BY <1>1, <4>3
      <4>6. At(raw, 6) = s[b + 5]
        BY <1>4, <4>5
      <4>7. At(raw, 6).is = "string" /\ At(raw, 6).text # "command"
        BY ZenonT(60), <2>1, <2>4, <2>10, <4>3, <4>4, <4>6
      <4>8. At(raw, 5).is = ","
        <5>1. n[2] + 1 = b + 4
          BY <1>1, <3>3
        <5> QED
          BY Zenon, <2>4, <4>1, <5>1 DEF Comma
      <4>9. Behind(raw) = (IF Size[At(raw, 6).text] > MaxName THEN "FieldTooLong"
                                                             ELSE "UnknownField")
        <5>1. At(raw, 5).is # "}"
          BY Zenon, <4>8
        <5> QED
          BY Zenon, <4>7, <4>8, <5>1 DEF Behind
      <4>10. Behind(raw) \in {"FieldTooLong", "UnknownField"}
        BY <4>9
      <4>11. ToolInputCode(raw) = Behind(raw)
        <5>1. Behind(raw) # "none"
          BY <4>10
        <5> QED
          BY Zenon, <1>5, <2>6, <2>10, <3>1, <3>5, <5>1 DEF ToolInputCode
      <4>12. Len(raw) # 5
        BY <1>3, <4>5
      <4> QED
        BY <4>10, <4>11, <4>12 DEF Judged
    <3> QED
      BY <3>2, <3>4, <3>5
  <2> QED
    BY <2>7, <2>8, <2>9, <2>10
<1> QED
  BY ZenonT(60), <1>7, <1>8, ObjectParts

\* The two readers agree on the text of tool_input: a command is extracted
\* exactly when it is the only member, and nothing the first reader accepted is
\* broken or ambiguous to the second.
THEOREM ToolInputWhole == EnvelopeSpec => []ToolInputIsWhole
<1>1. EnvelopeInv => ToolInputIsWhole
  <2> SUFFICES ASSUME EnvelopeInv, parsed = "Parsed"
               PROVE  Judged(fields["tool_input"])
    BY DEF ToolInputIsWhole, Judged
  <2> DEFINE raw == fields["tool_input"]
  <2>1. /\ text \in Seq(Tokens) /\ DOMAIN fields = Fields
        /\ FieldsFit(fields) /\ Whole(text, fields)
        /\ raw[1].is = Opening("object")
    BY DEF EnvelopeInv, Accepted
  <2>2. "tool_input" \in Fields
    BY DEF Fields
  <2>3. PICK m \in OuterMembers(text) : text[m[1]].text = "tool_input"
    BY <2>1, <2>2 DEF Whole
  <2>4. /\ m[1] \in Nat /\ m[2] \in Nat /\ m[1] + 2 <= m[2] /\ m[2] < Len(text)
        /\ IsValue(text)[<<m[1] + 2, m[2]>>]
        /\ raw = SubSeq(text, m[1] + 2, m[2])
    BY <2>1, <2>3 DEF Whole, Filled
  <2> HIDE DEF raw
  <2>5. \A k \in DOMAIN raw : raw[k].is = "string" => Size[raw[k].text] <= MaxString
    BY <2>1, <2>2, FieldsAssumption DEF FieldsFit, StringsFit, Longest, raw
  <2>6. m[1] + 2 \in 1..Len(text) /\ m[2] \in 0..Len(text) /\ Len(text) \in Nat
    BY <2>1, <2>4
  <2>7. text[m[1] + 2].is = Opening("object")
    <3>1. raw[1] = text[m[1] + 2]
      BY <2>4, <2>6
    <3> QED
      BY <2>1, <3>1
  <2> QED
    BY <2>1, <2>4, <2>5, <2>6, <2>7, ObjectJudged DEF raw
<1> QED
  BY <1>1, EnvelopeInvHolds, PTL

(***************************************************************************)
(* The strings.                                                            *)
(***************************************************************************)

\* What has been read of a character that is not complete, and the unit that
\* waits for the other half of its pair.
Held ==
    CASE within \in {"escape", "other u"} -> <<Backslash>>
      [] within \in {"quad", "low"} -> <<Backslash, LetterU>>
      [] OTHER -> <<>>
Waiting == IF within \in {"other half", "other u", "low"} THEN <<high>> ELSE <<>>

\* The characters that are complete spell, in units, what has been decoded and
\* the unit that waits.
Decoded(read, rest, waiting) ==
    \E pieces \in Seq(JsonCharacters) :
        /\ FlattenSeq(pieces) \o rest = read
        /\ Spelling(pieces, Units) = Spelling(output, Encode) \o waiting

StringInv ==
    /\ symbols \in Seq(Symbols)
    /\ output \in Seq(Scalars)
    /\ outcome \in {"Reading", "Ok", "InvalidJson", "FieldTooLong"}
    /\ within \in {"text", "escape", "quad", "other half", "other u", "low"}
    /\ high \in Nat
    /\ within \in {"other half", "other u", "low"} => high \in High
    /\ outcome \in {"Reading", "Ok"} => Bytes(output) <= Maximum
    /\ outcome = "Reading" => Decoded(symbols, Held, Waiting)
    /\ outcome = "Ok" =>
          \E read \in Seq(Symbols) :
              /\ symbols = Append(read, Quote)
              /\ Decoded(read, <<>>, <<>>)

LEMMA NoBytes == Bytes(<<>>) = 0
<1>1. DOMAIN <<>> = {}
  OBVIOUS
<1> DEFINE Op(x, y) == x + Utf8Length(y)
           Fold(iter) == [s \in SUBSET {} |->
                            IF s = {} THEN 0
                            ELSE LET x == Max(s)
                                 IN  iter[s \ {x}] + Utf8Length(<<>>[x])]
<1>2. Bytes(<<>>) = (CHOOSE iter : iter = Fold(iter))[{}]
  BY <1>1 DEF Bytes, FoldLeft, MapThenFoldSet
<1>3. \A s \in SUBSET {} : s = {}
  OBVIOUS
<1>4. \E iter : iter = Fold(iter)
  <2> DEFINE zero == [s \in SUBSET {} |-> 0]
  <2>1. zero = Fold(zero)
    BY <1>3
  <2>2. QED
    BY <2>1
<1>5. \A iter : iter = Fold(iter) => iter[{}] = 0
  OBVIOUS
<1> HIDE DEF Fold
<1>6. QED
  BY <1>2, <1>4, <1>5

LEMMA CodesAreNumbers ==
    /\ Units16 \subseteq Nat
    /\ High \subseteq Nat
    /\ Scalars \subseteq Nat
<1>1. Units16 \subseteq Nat
  BY SMT DEF Units16
<1>2. High \subseteq Nat
  BY SMT DEF High
<1>3. Scalars \subseteq Nat
  <2>1. \A c \in Scalars : c \in Nat
    BY SMT DEF Scalars
  <2>2. QED
    BY <2>1
<1>4. QED
  BY <1>1, <1>2, <1>3

LEMMA SymbolCodes ==
    ASSUME NEW s \in Symbols
    PROVE  /\ s.code \in Nat
           /\ s.is \in {"quote", "backslash", "u", "n", "plain", "quad"}
           /\ s.is = "quote" => s = Quote
           /\ s.is = "backslash" => s = Backslash
           /\ s.is = "u" => s = LetterU
           /\ s.is = "n" => s = LetterN
           /\ s.is = "plain" => s.code \in Plain /\ s.code \in Scalars
           /\ s.is = "quad" => s.code \in Quads /\ s.code \in Units16
<1>1. Plain \subseteq Scalars /\ Quads \subseteq Units16
  BY RangesAssumption
<1>2. Scalars \subseteq Nat /\ Units16 \subseteq Nat
  BY CodesAreNumbers
<1>3. \/ s \in {Quote, Backslash, LetterU, LetterN}
      \/ s \in [is : {"plain"}, code : Plain]
      \/ s \in [is : {"quad"}, code : Quads]
  BY DEF Symbols
<1>4. CASE s \in {Quote, Backslash, LetterU, LetterN}
  BY <1>4 DEF Quote, Backslash, LetterU, LetterN
<1>5. CASE s \in [is : {"plain"}, code : Plain]
  <2>1. s.is = "plain" /\ s.code \in Plain
    BY <1>5
  <2>2. QED
    BY <1>1, <1>2, <2>1
<1>6. CASE s \in [is : {"quad"}, code : Quads]
  <2>1. s.is = "quad" /\ s.code \in Quads
    BY <1>6
  <2>2. QED
    BY <1>1, <1>2, <2>1
<1>7. QED
  BY <1>3, <1>4, <1>5, <1>6

LEMMA EncodeType ==
    ASSUME NEW c \in Nat
    PROVE  Encode(c) \in Seq(Int)
<1>1. 55296 + ((c - 65536) \div 1024) \in Int /\ 56320 + ((c - 65536) % 1024) \in Int
  BY SMT
<1>2. QED
  BY <1>1, SMT DEF Encode

LEMMA UnitsType ==
    ASSUME NEW piece \in JsonCharacters
    PROVE  Units(piece) \in Seq(Int)
<1>1. /\ Len(piece) \in {1, 2, 3} /\ \A i \in 1..Len(piece) : piece[i].code \in Nat
  <2>1. /\ Len(piece) \in Nat /\ \A i \in 1..Len(piece) : piece[i] \in Symbols
    BY LenProperties, ElementOfSeq DEF JsonCharacters
  <2>2. IsCharacter(piece)
    BY DEF JsonCharacters
  <2>3. QED
    BY <2>1, <2>2, SymbolCodes DEF IsCharacter
<1>2. <<10>> \in Seq(Int) /\ (Len(piece) = 3 => <<piece[3].code>> \in Seq(Int))
  <2>1. Len(piece) = 3 => piece[3].code \in Int
    BY <1>1
  <2>2. QED
    BY <2>1
<1>3. Encode(piece[Len(piece)].code) \in Seq(Int)
  <2>1. Len(piece) \in 1..Len(piece)
    BY <1>1
  <2>2. piece[Len(piece)].code \in Nat
    BY <1>1, <2>1
  <2>3. QED
    BY <2>2, EncodeType
<1>4. QED
  BY <1>2, <1>3 DEF Units

\* One more character adds its units at the end; so does one more scalar.
LEMMA UnitsAppend ==
    ASSUME NEW pieces \in Seq(JsonCharacters), NEW piece \in JsonCharacters
    PROVE  /\ Spelling(pieces, Units) \in Seq(Int)
           /\ Spelling(Append(pieces, piece), Units) = Spelling(pieces, Units) \o Units(piece)
<1> DEFINE value == [p \in JsonCharacters |-> Units(p)]
           more == Append(pieces, piece)
<1>1. Valued(value, JsonCharacters, Int) /\ value[piece] = Units(piece)
  BY UnitsType DEF Valued
<1>2. /\ \A k \in DOMAIN pieces : pieces[k] \in JsonCharacters
      /\ \A k \in DOMAIN more : more[k] \in JsonCharacters
  BY AppendProperties, LenProperties, ElementOfSeq
<1>3. /\ Spelling(pieces, Units) = FlattenSeq(Mapped(value, pieces))
      /\ Spelling(more, Units) = FlattenSeq(Mapped(value, more))
  <2> HIDE DEF more
  <2>1. /\ [k \in DOMAIN pieces |-> Units(pieces[k])] = Mapped(value, pieces)
        /\ [k \in DOMAIN more |-> Units(more[k])] = Mapped(value, more)
    BY <1>2 DEF Mapped
  <2>2. QED
    BY <2>1 DEF Spelling
<1> HIDE DEF value
<1>4. /\ FlattenSeq(Mapped(value, pieces)) \in Seq(Int)
      /\ FlattenSeq(Mapped(value, more)) = FlattenSeq(Mapped(value, pieces)) \o value[piece]
  BY <1>1, MappedFlattens
<1> HIDE DEF more
<1>5. Spelling(more, Units) = Spelling(pieces, Units) \o Units(piece)
  BY <1>1, <1>3, <1>4
<1>6. QED
  BY <1>3, <1>4, <1>5 DEF more

LEMMA EncodeAppend ==
    ASSUME NEW characters \in Seq(Nat), NEW c \in Nat
    PROVE  /\ Spelling(characters, Encode) \in Seq(Int)
           /\ Spelling(Append(characters, c), Encode) = Spelling(characters, Encode) \o Encode(c)
<1> DEFINE value == [n \in Nat |-> Encode(n)]
           more == Append(characters, c)
<1>1. Valued(value, Nat, Int) /\ value[c] = Encode(c)
  BY EncodeType DEF Valued
<1>2. /\ \A k \in DOMAIN characters : characters[k] \in Nat
      /\ \A k \in DOMAIN more : more[k] \in Nat
  BY AppendProperties, LenProperties, ElementOfSeq
<1>3. /\ Spelling(characters, Encode) = FlattenSeq(Mapped(value, characters))
      /\ Spelling(more, Encode) = FlattenSeq(Mapped(value, more))
  <2> HIDE DEF more
  <2>1. /\ [k \in DOMAIN characters |-> Encode(characters[k])] = Mapped(value, characters)
        /\ [k \in DOMAIN more |-> Encode(more[k])] = Mapped(value, more)
    BY <1>2 DEF Mapped
  <2>2. QED
    BY <2>1 DEF Spelling
<1> HIDE DEF value
<1>4. /\ FlattenSeq(Mapped(value, characters)) \in Seq(Int)
      /\ FlattenSeq(Mapped(value, more)) = FlattenSeq(Mapped(value, characters)) \o value[c]
  <2> DEFINE N == Nat
  <2>1. Valued(value, N, Int) /\ characters \in Seq(N) /\ c \in N
    BY <1>1
  <2> HIDE DEF N
  <2>2. QED
    BY <2>1, MappedFlattens
<1> HIDE DEF more
<1>5. Spelling(more, Encode) = Spelling(characters, Encode) \o Encode(c)
  BY <1>1, <1>3, <1>4
<1>6. QED
  BY <1>3, <1>4, <1>5 DEF more

LEMMA CharactersAreTexts ==
    /\ JsonCharacters \subseteq Seq(Symbols) \ {<<>>}
    /\ JsonCharacters \ {<<>>} = JsonCharacters
<1>1. ASSUME NEW p \in JsonCharacters PROVE p \in Seq(Symbols) /\ p # <<>>
  <2>1. Len(<<>>) = 0
    OBVIOUS
  <2>2. QED
    BY <2>1 DEF JsonCharacters, IsCharacter
<1>2. QED
  BY <1>1

LEMMA HeldType ==
    /\ Held \in Seq(Symbols)
    /\ high \in Nat => Waiting \in Seq(Int)
<1>1. Backslash \in Symbols /\ LetterU \in Symbols
  BY DEF Symbols
<1>2. <<Backslash>> \in Seq(Symbols) /\ <<Backslash, LetterU>> \in Seq(Symbols)
      /\ <<>> \in Seq(Symbols) /\ <<>> \in Seq(Int)
  BY <1>1
<1>3. high \in Nat => <<high>> \in Seq(Int)
  OBVIOUS
<1>4. QED
  BY <1>2, <1>3 DEF Held, Waiting

\* A symbol that completes the character held adds its units to those of the
\* characters before it ...
Reads(units) ==
    \E pieces \in Seq(JsonCharacters) :
        /\ FlattenSeq(pieces) = symbols'
        /\ Spelling(pieces, Units) = Spelling(output, Encode) \o units

LEMMA UnitsBehind ==
    ASSUME NEW a \in Seq(Int), NEW b \in Seq(Int), NEW c \in Seq(Int)
    PROVE  (a \o b) \o c = a \o (b \o c)
BY ConcatAssociative, SMTT(30)

LEMMA CharacterComplete ==
    ASSUME Decoded(symbols, Held, Waiting), high \in Nat, output \in Seq(Nat),
           symbols \in Seq(Symbols), NEW s \in Symbols, symbols' = Append(symbols, s),
           Append(Held, s) \in JsonCharacters
    PROVE  Reads(Waiting \o Units(Append(Held, s)))
<1> DEFINE piece == Append(Held, s)
<1>1. PICK pieces \in Seq(JsonCharacters) :
         /\ FlattenSeq(pieces) \o Held = symbols
         /\ Spelling(pieces, Units) = Spelling(output, Encode) \o Waiting
  BY DEF Decoded
<1>2. pieces \in Seq(Seq(Symbols)) /\ piece \in Seq(Symbols)
  <2>1. JsonCharacters \subseteq Seq(Symbols)
    BY CharactersAreTexts
  <2>2. QED
    BY <2>1, SeqMonotonic
<1>3. Append(pieces, piece) \in Seq(JsonCharacters)
  BY AppendProperties
<1>4. FlattenSeq(Append(pieces, piece)) = symbols'
  <2>1. FlattenSeq(pieces) \in Seq(Symbols) /\ Held \in Seq(Symbols)
    BY <1>2, FlattenType, HeldType
  <2>2. FlattenSeq(pieces) \o piece = Append(FlattenSeq(pieces) \o Held, s)
    BY <2>1, AppendBehind
  <2> HIDE DEF piece
  <2>3. FlattenSeq(Append(pieces, piece)) = FlattenSeq(pieces) \o piece
    BY <1>2, FlattenAppend
  <2>4. QED
    BY <1>1, <2>2, <2>3
<1>5. Spelling(Append(pieces, piece), Units)
        = Spelling(output, Encode) \o (Waiting \o Units(piece))
  <2>1. /\ Spelling(output, Encode) \in Seq(Int) /\ Waiting \in Seq(Int)
        /\ Units(piece) \in Seq(Int)
    <3>1. Spelling(output, Encode) \in Seq(Int)
      <4>1. 0 \in Nat
        OBVIOUS
      <4>2. QED
        BY <4>1, EncodeAppend
    <3>2. QED
      BY <3>1, HeldType, UnitsType
  <2> HIDE DEF piece
  <2>2. Spelling(Append(pieces, piece), Units) = Spelling(pieces, Units) \o Units(piece)
    BY UnitsAppend DEF piece
  <2>3. (Spelling(output, Encode) \o Waiting) \o Units(piece)
          = Spelling(output, Encode) \o (Waiting \o Units(piece))
    <3> DEFINE spelt == Spelling(output, Encode)
               units == Units(piece)
    <3>1. spelt \in Seq(Int) /\ Waiting \in Seq(Int) /\ units \in Seq(Int)
      BY <2>1
    <3> HIDE DEF spelt, units
    <3>2. (spelt \o Waiting) \o units = spelt \o (Waiting \o units)
      BY <3>1, UnitsBehind, Zenon
    <3>3. QED
      BY <3>2 DEF spelt, units
  <2>4. QED
    BY <1>1, <2>2, <2>3
<1> HIDE DEF piece
<1>6. QED
  BY <1>3, <1>4, <1>5 DEF Reads, piece

\* ... and one that does not is held as well.
LEMMA CharacterHeld ==
    ASSUME Decoded(symbols, Held, Waiting), NEW s \in Symbols,
           symbols' = Append(symbols, s), Held' = Append(Held, s),
           Waiting' = Waiting, output' = output
    PROVE  Decoded(symbols, Held, Waiting)'
<1>1. PICK pieces \in Seq(JsonCharacters) :
         /\ FlattenSeq(pieces) \o Held = symbols
         /\ Spelling(pieces, Units) = Spelling(output, Encode) \o Waiting
  BY DEF Decoded
<1>2. pieces \in Seq(Seq(Symbols))
  <2>1. JsonCharacters \subseteq Seq(Symbols)
    BY CharactersAreTexts
  <2>2. QED
    BY <2>1, SeqMonotonic
<1>3. FlattenSeq(pieces) \in Seq(Symbols) /\ Held \in Seq(Symbols)
  BY <1>2, FlattenType, HeldType
<1>4. FlattenSeq(pieces) \o Held' = symbols'
  BY <1>1, <1>3, AppendBehind
<1>5. QED
  BY <1>1, <1>4 DEF Decoded

\* The four things a symbol can do to the invariant: refuse the text, be held,
\* complete a scalar, complete the first half of a pair.
LEMMA Refused ==
    ASSUME StringInv, RefuseString, symbols' \in Seq(Symbols)
    PROVE  StringInv'
BY DEF StringInv, RefuseString

LEMMA SymbolHeld ==
    ASSUME StringInv, outcome = "Reading", NEW s \in Symbols,
           symbols' = Append(symbols, s), Held' = Append(Held, s), Waiting' = Waiting,
           UNCHANGED <<high, output, outcome>>,
           within' \in {"escape", "quad", "other u", "low"},
           within' \in {"other u", "low"} => high \in High
    PROVE  StringInv'
<1>1. Decoded(symbols, Held, Waiting)
  BY DEF StringInv
<1>2. Decoded(symbols, Held, Waiting)'
  BY <1>1, CharacterHeld
<1>3. symbols' \in Seq(Symbols)
  BY AppendProperties DEF StringInv
<1>4. Bytes(output') = Bytes(output)
  OBVIOUS
<1>5. QED
  BY <1>2, <1>3, <1>4 DEF StringInv

LEMMA ScalarPushed ==
    ASSUME StringInv, outcome = "Reading", NEW s \in Symbols,
           symbols' = Append(symbols, s), Append(Held, s) \in JsonCharacters,
           NEW c \in Scalars, Push(c), Waiting \o Units(Append(Held, s)) = Encode(c)
    PROVE  StringInv'
<1>1. /\ Decoded(symbols, Held, Waiting) /\ high \in Nat
      /\ output \in Seq(Scalars) /\ symbols \in Seq(Symbols)
  BY DEF StringInv
<1>2. Scalars \subseteq Nat
  BY CodesAreNumbers
<1>3. output \in Seq(Nat) /\ c \in Nat
  BY <1>1, <1>2, SeqMonotonic
<1>4. Reads(Encode(c))
  BY <1>1, <1>3, CharacterComplete
<1>5. symbols' \in Seq(Symbols) /\ output' \in Seq(Scalars)
  BY <1>1, AppendProperties DEF Push
<1>6. /\ Spelling(output', Encode) \in Seq(Int)
      /\ Spelling(output', Encode) = Spelling(output, Encode) \o Encode(c)
  <2>1. 0 \in Nat /\ output' \in Seq(Nat) /\ output' = Append(output, c)
    BY <1>2, <1>5, SeqMonotonic DEF Push
  <2>2. Spelling(output', Encode) \in Seq(Int)
    BY <2>1, EncodeAppend
  <2>3. QED
    BY <2>1, <2>2, <1>3, EncodeAppend
<1>7. Held' = <<>> /\ Waiting' = <<>>
  BY DEF Push, Held, Waiting
<1>8. Decoded(symbols, <<>>, <<>>)'
  <2>1. PICK pieces \in Seq(JsonCharacters) :
           /\ FlattenSeq(pieces) = symbols'
           /\ Spelling(pieces, Units) = Spelling(output, Encode) \o Encode(c)
    BY <1>4 DEF Reads
  <2> DEFINE spelt == Spelling(output', Encode)
  <2>2. Spelling(pieces, Units) = spelt /\ spelt \in Seq(Int)
    BY <2>1, <1>6
  <2>3. FlattenSeq(pieces) \o <<>> = symbols'
    BY <2>1, <1>5, ConcatEmptySeq
  <2>4. spelt \o <<>> = spelt
    <3> HIDE DEF spelt
    <3>1. QED
      BY <2>2, ConcatEmptySeq
  <2>5. Spelling(pieces, Units) = Spelling(output', Encode) \o <<>>
    BY <2>2, <2>4
  <2>6. QED
    BY <2>3, <2>5 DEF Decoded
<1>9. Decoded(symbols, Held, Waiting)'
  BY <1>7, <1>8 DEF Decoded
<1>10. /\ outcome' \in {"Reading", "FieldTooLong"} /\ within' = "text" /\ high' = 0
       /\ outcome' = "Reading" => Bytes(output') <= Maximum
  BY DEF Push
<1>11. QED
  BY <1>5, <1>9, <1>10 DEF StringInv

LEMMA PairBegun ==
    ASSUME StringInv, outcome = "Reading", NEW s \in Symbols,
           symbols' = Append(symbols, s), Append(Held, s) \in JsonCharacters,
           Waiting \o Units(Append(Held, s)) = <<s.code>>, s.code \in High,
           within' = "other half", high' = s.code, UNCHANGED <<output, outcome>>
    PROVE  StringInv'
<1>1. /\ Decoded(symbols, Held, Waiting) /\ high \in Nat
      /\ output \in Seq(Scalars) /\ symbols \in Seq(Symbols)
  BY DEF StringInv
<1>2. Scalars \subseteq Nat /\ High \subseteq Nat
  BY CodesAreNumbers
<1>3. output \in Seq(Nat)
  BY <1>1, <1>2, SeqMonotonic
<1>4. Reads(<<s.code>>)
  BY <1>1, <1>3, CharacterComplete
<1>5. symbols' \in Seq(Symbols)
  BY <1>1, AppendProperties
<1>6. Held' = <<>> /\ Waiting' = <<s.code>>
  BY DEF Held, Waiting
<1>7. Decoded(symbols, <<>>, <<s.code>>)'
  <2>1. PICK pieces \in Seq(JsonCharacters) :
           /\ FlattenSeq(pieces) = symbols'
           /\ Spelling(pieces, Units) = Spelling(output, Encode) \o <<s.code>>
    BY <1>4 DEF Reads
  <2>2. FlattenSeq(pieces) \o <<>> = symbols'
    BY <2>1, <1>5, ConcatEmptySeq
  <2>3. output' = output /\ s.code' = s.code
    OBVIOUS
  <2>4. QED
    BY <2>1, <2>2, <2>3 DEF Decoded
<1>8. Decoded(symbols, Held, Waiting)'
  BY <1>6, <1>7 DEF Decoded
<1>9. Bytes(output') = Bytes(output)
  OBVIOUS
<1>10. QED
  BY <1>2, <1>5, <1>8, <1>9 DEF StringInv

\* The characters a symbol may complete, and what they spell.
LEMMA CharacterForms ==
    ASSUME NEW s \in Symbols
    PROVE  /\ s.is \in {"plain", "u", "n"} /\ s.code >= 32 =>
                  /\ <<s>> \in JsonCharacters /\ Units(<<s>>) = Encode(s.code)
           /\ s.is \in {"quote", "backslash"} =>
                  /\ <<Backslash, s>> \in JsonCharacters
                  /\ Units(<<Backslash, s>>) = Encode(s.code)
           /\ s.is = "n" =>
                  /\ <<Backslash, s>> \in JsonCharacters
                  /\ Units(<<Backslash, s>>) = <<10>>
           /\ s.is = "quad" =>
                  /\ <<Backslash, LetterU, s>> \in JsonCharacters
                  /\ Units(<<Backslash, LetterU, s>>) = <<s.code>>
<1>1. /\ Backslash \in Symbols /\ LetterU \in Symbols
      /\ Backslash.is = "backslash" /\ LetterU.is = "u"
  BY DEF Symbols, Backslash, LetterU
<1>2. /\ <<s>> \in Seq(Symbols) /\ <<Backslash, s>> \in Seq(Symbols)
      /\ <<Backslash, LetterU, s>> \in Seq(Symbols)
  BY <1>1
<1>3. ASSUME s.is \in {"plain", "u", "n"}, s.code >= 32
      PROVE  <<s>> \in JsonCharacters /\ Units(<<s>>) = Encode(s.code)
  <2>1. Len(<<s>>) = 1 /\ <<s>>[1] = s
    OBVIOUS
  <2>2. IsCharacter(<<s>>)
    BY <1>3, <2>1 DEF IsCharacter
  <2>3. QED
    BY <1>2, <2>1, <2>2 DEF JsonCharacters, Units
<1>4. /\ Len(<<Backslash, s>>) = 2 /\ <<Backslash, s>>[1] = Backslash /\ <<Backslash, s>>[2] = s
      /\ Len(<<Backslash, LetterU, s>>) = 3
      /\ <<Backslash, LetterU, s>>[1] = Backslash
      /\ <<Backslash, LetterU, s>>[2] = LetterU
      /\ <<Backslash, LetterU, s>>[3] = s
  OBVIOUS
<1>5. ASSUME s.is \in {"quote", "backslash", "n"}
      PROVE  /\ <<Backslash, s>> \in JsonCharacters
             /\ Units(<<Backslash, s>>) = IF s.is = "n" THEN <<10>> ELSE Encode(s.code)
  <2>1. IsCharacter(<<Backslash, s>>)
    BY <1>1, <1>4, <1>5 DEF IsCharacter
  <2>2. <<Backslash, s>> \in JsonCharacters
    BY <1>2, <2>1 DEF JsonCharacters
  <2>3. QED
    BY <2>2, <1>4 DEF Units
<1>6. ASSUME s.is = "quad"
      PROVE  /\ <<Backslash, LetterU, s>> \in JsonCharacters
             /\ Units(<<Backslash, LetterU, s>>) = <<s.code>>
  <2>1. IsCharacter(<<Backslash, LetterU, s>>)
    BY <1>1, <1>4, <1>6 DEF IsCharacter
  <2>2. QED
    BY <1>2, <2>1, <1>4 DEF JsonCharacters, Units
<1>7. QED
  BY <1>3, <1>5, <1>6

\* The halves of a pair are the units of the scalar made of them.
LEMMA PairEncoded ==
    ASSUME NEW h \in High, NEW l \in Low
    PROVE  ScalarOf(h, l) \in Scalars /\ Encode(ScalarOf(h, l)) = <<h, l>>
<1>1. /\ h \in Nat /\ 55296 <= h /\ h < 56320 /\ l \in Nat /\ 56320 <= l /\ l < 57344
  BY DEF High, Low
<1>2. PICK a \in Nat, b \in Nat : h = 55296 + a /\ a < 1024 /\ l = 56320 + b /\ b < 1024
  <2>1. h - 55296 \in Nat /\ l - 56320 \in Nat /\ h - 55296 < 1024 /\ l - 56320 < 1024
        /\ h = 55296 + (h - 55296) /\ l = 56320 + (l - 56320)
    BY <1>1, SMT
  <2>2. QED
    BY <2>1, SMT
<1>3. ScalarOf(h, l) = 65536 + (a * 1024 + b)
  BY <1>2, SMT DEF ScalarOf
<1>4. a * 1024 + b \in Nat /\ a * 1024 + b < 1048576
  BY <1>2, SMT
<1>5. (a * 1024 + b) \div 1024 = a /\ (a * 1024 + b) % 1024 = b
  BY <1>2, SMT
<1>6. ScalarOf(h, l) \in Scalars
  BY <1>3, <1>4, SMT DEF Scalars, High, Low
<1>7. Encode(ScalarOf(h, l)) = <<55296 + a, 56320 + b>>
  <2>1. ~(65536 + (a * 1024 + b) < 65536) /\ (65536 + (a * 1024 + b)) - 65536 = a * 1024 + b
    BY <1>4, SMT
  <2>2. QED
    BY <1>3, <1>5, <2>1, SMT DEF Encode
<1>8. QED
  BY <1>2, <1>6, <1>7

\* Whatever is no quad stands for a scalar.
LEMMA ScalarCodes ==
    /\ 10 \in Scalars
    /\ \A s \in Symbols : s.is # "quad" => s.code \in Scalars
<1>1. {10, 34, 92, 110, 117} \subseteq Scalars
  <2>1. \A c \in {10, 34, 92, 110, 117} : c \in Scalars
    BY SMT DEF Scalars, High, Low
  <2>2. QED
    BY <2>1
<1>2. ASSUME NEW s \in Symbols, s.is # "quad" PROVE s.code \in Scalars
  <2>1. /\ Quote.code = 34 /\ Backslash.code = 92 /\ LetterU.code = 117
        /\ LetterN.code = 110
    BY DEF Quote, Backslash, LetterU, LetterN
  <2>2. QED
    BY <1>1, <1>2, <2>1, SymbolCodes
<1>3. QED
  BY <1>1, <1>2

LEMMA ReadTextStep ==
    ASSUME StringInv, NEW s \in Symbols, s.is = "quad" => within # "text",
           outcome = "Reading",
           symbols' = Append(symbols, s), ReadText(s)
    PROVE  StringInv'
<1>1. within = "text" /\ Held = <<>> /\ Waiting = <<>>
  BY DEF ReadText, Held, Waiting
<1>2. symbols \in Seq(Symbols) /\ symbols' \in Seq(Symbols) /\ Append(Held, s) = <<s>>
  BY <1>1, AppendProperties DEF StringInv
<1>3. CASE s.is = "quote" /\ outcome' = "Ok" /\ UNCHANGED <<within, high, output>>
  <2>1. s = Quote
    BY <1>3, SymbolCodes
  <2>2. Decoded(symbols, <<>>, <<>>)
    BY <1>1 DEF StringInv
  <2>3. Decoded(symbols, <<>>, <<>>) => \E read \in Seq(Symbols) :
            symbols' = Append(read, Quote) /\ Decoded(read, <<>>, <<>>)'
    <3>1. symbols' = Append(symbols, Quote) /\ output' = output
      BY <1>3, <2>1
    <3>2. Decoded(symbols, <<>>, <<>>) =>
             \E pieces \in Seq(JsonCharacters) :
                 /\ FlattenSeq(pieces) \o <<>> = symbols
                 /\ Spelling(pieces, Units) = Spelling(output', Encode) \o <<>>
      BY <1>3 DEF Decoded
    <3>3. QED
      BY <1>2, <3>1, <3>2 DEF Decoded
  <2>4. Bytes(output') = Bytes(output)
    BY <1>3
  <2>5. QED
    BY <1>2, <1>3, <2>2, <2>3, <2>4 DEF StringInv
<1>4. CASE /\ s.is = "backslash" /\ within' = "escape"
           /\ UNCHANGED <<high, output, outcome>>
  <2>1. s = Backslash
    BY <1>4, SymbolCodes
  <2>2. Held' = Append(Held, s) /\ Waiting' = Waiting
    BY <1>1, <1>2, <1>4, <2>1 DEF Held, Waiting
  <2>3. QED
    BY <1>4, <2>2, SymbolHeld
<1>5. CASE s.is \notin {"quote", "backslash"} /\ s.code < 32 /\ RefuseString
  BY <1>2, <1>5, Refused
<1>6. CASE s.is \notin {"quote", "backslash"} /\ ~(s.code < 32) /\ Push(s.code)
  <2>1. s.is \in {"plain", "u", "n"} /\ s.code >= 32 /\ s.code \in Scalars
    <3>1. s.is \in {"plain", "u", "n"}
      BY <1>1, <1>6, SymbolCodes
    <3>2. s.code \in Nat /\ s.code \in Scalars
      BY <3>1, SymbolCodes, ScalarCodes
    <3>3. QED
      BY <1>6, <3>1, <3>2
  <2>2. <<s>> \in JsonCharacters /\ Units(<<s>>) = Encode(s.code)
    BY <2>1, CharacterForms
  <2>3. Append(Held, s) \in JsonCharacters
    BY <1>2, <2>2
  <2>4. Waiting \o Units(Append(Held, s)) = Encode(s.code)
    <3>1. Encode(s.code) \in Seq(Int)
      BY <2>1, EncodeType, SymbolCodes
    <3>2. <<>> \o Encode(s.code) = Encode(s.code)
      BY <3>1, ConcatEmptySeq
    <3>3. QED
      BY <1>1, <1>2, <2>2, <3>2
  <2>5. QED
    BY <1>6, <2>1, <2>3, <2>4, ScalarPushed
<1>7. QED
  BY <1>3, <1>4, <1>5, <1>6 DEF ReadText

LEMMA Grown ==
    /\ \A a : Append(<<>>, a) = <<a>>
    /\ \A a, b : Append(<<a>>, b) = <<a, b>> /\ <<a>> \o <<b>> = <<a, b>>
    /\ \A a, b, c : Append(<<a, b>>, c) = <<a, b, c>>
<1>1. ASSUME NEW a PROVE Append(<<>>, a) = <<a>>
  <2> DEFINE S == {a}
  <2>1. /\ <<>> \in Seq(S) /\ Len(<<>>) = 0 /\ <<a>> \in Seq(S) /\ Len(<<a>>) = 1
        /\ <<a>>[1] = a /\ a \in S
    OBVIOUS
  <2> HIDE DEF S
  <2>2. QED
    BY <2>1, AppendProperties, SeqEqual
<1>2. ASSUME NEW a, NEW b PROVE Append(<<a>>, b) = <<a, b>>
  <2> DEFINE S == {a, b}
  <2>1. /\ <<a>> \in Seq(S) /\ Len(<<a>>) = 1 /\ <<a, b>> \in Seq(S) /\ Len(<<a, b>>) = 2
        /\ <<a>>[1] = a /\ <<a, b>>[1] = a /\ <<a, b>>[2] = b /\ b \in S
    OBVIOUS
  <2> HIDE DEF S
  <2>2. /\ Append(<<a>>, b) \in Seq(S) /\ Len(Append(<<a>>, b)) = 2
        /\ Append(<<a>>, b)[1] = a /\ Append(<<a>>, b)[2] = b
    BY <2>1, AppendProperties
  <2> DEFINE more == Append(<<a>>, b)
             both == <<a, b>>
  <2>3. /\ more \in Seq(S) /\ Len(more) = 2 /\ more[1] = a /\ more[2] = b
        /\ both \in Seq(S) /\ Len(both) = 2 /\ both[1] = a /\ both[2] = b
    BY <2>1, <2>2
  <2> HIDE DEF more, both
  <2>4. more = both
    BY <2>3, SeqEqual
  <2>5. QED
    BY <2>4 DEF more, both
<1>3. ASSUME NEW a, NEW b PROVE <<a>> \o <<b>> = <<a, b>>
  <2>1. <<a>> \in Seq({a})
    OBVIOUS
  <2>2. Append(<<a>>, b) = <<a>> \o <<b>>
    BY <2>1, AppendIsConcat
  <2>3. QED
    BY <1>2, <2>2
<1>4. ASSUME NEW a, NEW b, NEW c PROVE Append(<<a, b>>, c) = <<a, b, c>>
  <2> DEFINE S == {a, b, c}
  <2>1. /\ <<a, b>> \in Seq(S) /\ Len(<<a, b>>) = 2
        /\ <<a, b, c>> \in Seq(S) /\ Len(<<a, b, c>>) = 3
        /\ <<a, b>>[1] = a /\ <<a, b>>[2] = b
        /\ <<a, b, c>>[1] = a /\ <<a, b, c>>[2] = b /\ <<a, b, c>>[3] = c /\ c \in S
    OBVIOUS
  <2> HIDE DEF S
  <2>2. /\ Append(<<a, b>>, c) \in Seq(S) /\ Len(Append(<<a, b>>, c)) = 3
        /\ Append(<<a, b>>, c)[1] = a /\ Append(<<a, b>>, c)[2] = b
        /\ Append(<<a, b>>, c)[3] = c
    BY <2>1, AppendProperties
  <2> DEFINE more == Append(<<a, b>>, c)
             all == <<a, b, c>>
  <2>3. /\ more \in Seq(S) /\ Len(more) = 3
        /\ more[1] = a /\ more[2] = b /\ more[3] = c
        /\ all \in Seq(S) /\ Len(all) = 3 /\ all[1] = a /\ all[2] = b /\ all[3] = c
    BY <2>1, <2>2
  <2> HIDE DEF more, all
  <2>4. more = all
    BY <2>3, SeqEqual
  <2>5. QED
    BY <2>4 DEF more, all
<1>5. QED
  BY <1>1, <1>2, <1>3, <1>4

LEMMA ReadEscapeStep ==
    ASSUME StringInv, NEW s \in Symbols, s.is = "quad" => within # "escape",
           outcome = "Reading", symbols' = Append(symbols, s), ReadEscape(s)
    PROVE  StringInv'
<1>1. within = "escape" /\ Held = <<Backslash>> /\ Waiting = <<>>
  BY DEF ReadEscape, Held, Waiting
<1>2. /\ symbols \in Seq(Symbols) /\ symbols' \in Seq(Symbols)
      /\ Append(Held, s) = <<Backslash, s>>
  <2>1. symbols \in Seq(Symbols) /\ symbols' \in Seq(Symbols)
    BY AppendProperties DEF StringInv
  <2>2. QED
    BY <1>1, <2>1, Grown
<1>3. CASE s.is = "u" /\ within' = "quad" /\ UNCHANGED <<high, output, outcome>>
  <2>1. s = LetterU
    BY <1>3, SymbolCodes
  <2>2. Held' = Append(Held, s) /\ Waiting' = Waiting
    BY <1>1, <1>2, <1>3, <2>1 DEF Held, Waiting
  <2>3. QED
    BY <1>3, <2>2, SymbolHeld
<1>4. ASSUME NEW c \in Scalars, Push(c), <<Backslash, s>> \in JsonCharacters,
             Units(<<Backslash, s>>) = Encode(c)
      PROVE  StringInv'
  <2>1. Encode(c) \in Seq(Int)
    BY CodesAreNumbers, EncodeType
  <2>2. <<>> \o Encode(c) = Encode(c)
    BY <2>1, ConcatEmptySeq
  <2>3. Waiting \o Units(Append(Held, s)) = Encode(c)
    BY <1>1, <1>2, <1>4, <2>2
  <2>4. Append(Held, s) \in JsonCharacters
    BY <1>2, <1>4
  <2>5. QED
    BY <1>4, <2>3, <2>4, ScalarPushed
<1>5. CASE s.is = "n" /\ Push(10)
  <2>1. Encode(10) = <<10>>
    BY SMT DEF Encode
  <2>2. QED
    BY <1>4, <1>5, <2>1, ScalarCodes, CharacterForms
<1>6. CASE s.is \in {"quote", "backslash"} /\ Push(s.code)
  BY <1>4, <1>6, ScalarCodes, CharacterForms
<1>7. CASE RefuseString
  BY <1>2, <1>7, Refused
<1>8. QED
  BY <1>3, <1>5, <1>6, <1>7 DEF ReadEscape

LEMMA ReadQuadStep ==
    ASSUME StringInv, NEW s \in Symbols,
           outcome = "Reading", symbols' = Append(symbols, s), ReadQuad(s)
    PROVE  StringInv'
<1>1. within = "quad" /\ Held = <<Backslash, LetterU>> /\ Waiting = <<>>
  BY DEF ReadQuad, Held, Waiting
<1>2. /\ symbols \in Seq(Symbols) /\ symbols' \in Seq(Symbols)
      /\ Append(Held, s) = <<Backslash, LetterU, s>>
  <2>1. symbols \in Seq(Symbols) /\ symbols' \in Seq(Symbols)
    BY AppendProperties DEF StringInv
  <2>2. QED
    BY <1>1, <2>1, Grown
<1>3. CASE RefuseString
  BY <1>2, <1>3, Refused
<1>4. ASSUME s.is = "quad"
      PROVE  /\ Append(Held, s) \in JsonCharacters
             /\ Waiting \o Units(Append(Held, s)) = <<s.code>>
             /\ s.code \in Units16
  <2>1. s.code \in Nat /\ s.code \in Units16
    BY <1>4, SymbolCodes
  <2>2. <<>> \o <<s.code>> = <<s.code>>
    BY <2>1
  <2>3. QED
    BY <1>1, <1>2, <1>4, <2>1, <2>2, CharacterForms
<1>5. CASE /\ s.is = "quad" /\ s.code \in High
           /\ within' = "other half" /\ high' = s.code /\ UNCHANGED <<output, outcome>>
  BY <1>4, <1>5, PairBegun
<1>6. CASE s.is = "quad" /\ s.code \notin Low /\ s.code \notin High /\ Push(s.code)
  <2>1. s.code \in Units16
    BY <1>4, <1>6
  <2>2. s.code \in Scalars /\ Encode(s.code) = <<s.code>>
    <3>1. s.code \in Nat /\ s.code < 65536
      BY <2>1, SMT DEF Units16
    <3>2. s.code < 1114112
      BY <3>1, SMT
    <3>3. s.code \in Scalars
      BY <1>6, <3>1, <3>2, SMT DEF Scalars
    <3>4. Encode(s.code) = <<s.code>>
      BY <3>1, SMT DEF Encode
    <3>5. QED
      BY <3>3, <3>4
  <2>3. QED
    BY <1>4, <1>6, <2>2, ScalarPushed
<1>7. QED
  BY <1>3, <1>5, <1>6 DEF ReadQuad

LEMMA ReadOtherHalfStep ==
    ASSUME StringInv, NEW s \in Symbols,
           outcome = "Reading", symbols' = Append(symbols, s), ReadOtherHalf(s)
    PROVE  StringInv'
<1>1. /\ symbols \in Seq(Symbols) /\ symbols' \in Seq(Symbols) /\ high \in High
  BY AppendProperties DEF StringInv, ReadOtherHalf
<1>2. CASE RefuseString
  BY <1>1, <1>2, Refused
<1>3. CASE /\ within = "other half" /\ s.is = "backslash"
           /\ within' = "other u" /\ UNCHANGED <<high, output, outcome>>
  <2>1. s = Backslash
    BY <1>3, SymbolCodes
  <2>2. Held' = Append(Held, s) /\ Waiting' = Waiting
    <3>1. Held = <<>> /\ Held' = <<Backslash>>
      BY <1>3 DEF Held
    <3>2. Waiting' = Waiting
      BY <1>3 DEF Waiting
    <3>3. QED
      BY <2>1, <3>1, <3>2, Grown
  <2>3. QED
    BY <1>1, <1>3, <2>2, SymbolHeld
<1>4. CASE /\ within = "other u" /\ s.is = "u"
           /\ within' = "low" /\ UNCHANGED <<high, output, outcome>>
  <2>1. s = LetterU
    BY <1>4, SymbolCodes
  <2>2. Held' = Append(Held, s) /\ Waiting' = Waiting
    <3>1. Held = <<Backslash>> /\ Held' = <<Backslash, LetterU>>
      BY <1>4 DEF Held
    <3>2. Waiting' = Waiting
      BY <1>4 DEF Waiting
    <3>3. QED
      BY <2>1, <3>1, <3>2, Grown
  <2>3. QED
    BY <1>1, <1>4, <2>2, SymbolHeld
<1>5. CASE within = "low" /\ s.is = "quad" /\ s.code \in Low /\ Push(ScalarOf(high, s.code))
  <2>1. Held = <<Backslash, LetterU>> /\ Waiting = <<high>>
    BY <1>5 DEF Held, Waiting
  <2>2. Append(Held, s) = <<Backslash, LetterU, s>>
    BY <2>1, Grown
  <2>3. /\ Append(Held, s) \in JsonCharacters /\ Units(Append(Held, s)) = <<s.code>>
    BY <1>5, <2>2, CharacterForms
  <2>4. /\ ScalarOf(high, s.code) \in Scalars
        /\ Encode(ScalarOf(high, s.code)) = <<high, s.code>>
    BY <1>1, <1>5, PairEncoded
  <2>5. Waiting \o Units(Append(Held, s)) = Encode(ScalarOf(high, s.code))
    <3>1. <<high>> \o <<s.code>> = <<high, s.code>>
      BY Grown
    <3>2. QED
      BY <2>1, <2>3, <2>4, <3>1
  <2>6. QED
    BY <1>5, <2>3, <2>4, <2>5, ScalarPushed
<1>6. QED
  BY <1>2, <1>3, <1>4, <1>5 DEF ReadOtherHalf

LEMMA StringStarts == StringInit => StringInv
<1> SUFFICES ASSUME StringInit PROVE StringInv
  OBVIOUS
<1>1. /\ symbols = <<>> /\ within = "text" /\ high = 0 /\ output = <<>>
      /\ outcome = "Reading" /\ Held = <<>> /\ Waiting = <<>>
  BY DEF StringInit, Held, Waiting
<1>2. /\ <<>> \in Seq(Symbols) /\ <<>> \in Seq(Scalars) /\ <<>> \in Seq(JsonCharacters)
      /\ <<>> \in Seq(Seq(Symbols)) /\ <<>> \o <<>> = <<>>
  OBVIOUS
<1>3. Bytes(<<>>) <= Maximum
  BY NoBytes, RangesAssumption
<1>4. FlattenSeq(<<>>) = <<>>
  BY DEF FlattenSeq
<1>5. Spelling(<<>>, Units) = <<>> /\ Spelling(<<>>, Encode) = <<>>
  <2>1. /\ [k \in DOMAIN <<>> |-> Units(<<>>[k])] = <<>>
        /\ [k \in DOMAIN <<>> |-> Encode(<<>>[k])] = <<>>
    OBVIOUS
  <2>2. QED
    BY <1>4, <2>1 DEF Spelling
<1>6. Decoded(<<>>, <<>>, <<>>)
  BY <1>1, <1>2, <1>4, <1>5 DEF Decoded
<1>7. Decoded(symbols, Held, Waiting)
  BY <1>1, <1>6
<1>8. QED
  BY <1>1, <1>2, <1>3, <1>7 DEF StringInv

LEMMA StringSteps == StringInv /\ [StringNext]_stringVars => StringInv'
<1> SUFFICES ASSUME StringInv, [StringNext]_stringVars PROVE StringInv'
  OBVIOUS
<1>1. CASE StringTruncated
  <2>1. symbols' \in Seq(Symbols)
    BY <1>1 DEF StringTruncated, StringInv
  <2>2. QED
    BY <1>1, <2>1, Refused DEF StringTruncated
<1>2. ASSUME NEW s \in OfferedSymbols, ReadSymbol(s) PROVE StringInv'
  <2>1. s \in Symbols /\ (s.is = "quad" => within \in {"quad", "low"})
    BY DEF OfferedSymbols
  <2>2. outcome = "Reading" /\ symbols' = Append(symbols, s)
    BY <1>2 DEF ReadSymbol
  <2>3. ReadText(s) \/ ReadEscape(s) \/ ReadQuad(s) \/ ReadOtherHalf(s)
    BY <1>2 DEF ReadSymbol
  <2>4. QED
    BY <2>1, <2>2, <2>3, ReadTextStep, ReadEscapeStep, ReadQuadStep, ReadOtherHalfStep
<1>3. CASE UNCHANGED stringVars
  <2>1. UNCHANGED <<symbols, within, high, output, outcome>>
    BY <1>3 DEF stringVars
  <2>2. Decoded(symbols, Held, Waiting)' <=> Decoded(symbols, Held, Waiting)
    BY <2>1 DEF Decoded, Held, Waiting
  <2>3. \A read : Decoded(read, <<>>, <<>>)' <=> Decoded(read, <<>>, <<>>)
    BY <2>1 DEF Decoded
  <2>4. Bytes(output') = Bytes(output)
    BY <2>1
  <2>5. QED
    BY <2>1, <2>2, <2>3, <2>4 DEF StringInv
<1>4. QED
  BY <1>1, <1>2, <1>3 DEF StringNext

LEMMA StringInvariant == StringSpec => []StringInv
BY StringStarts, StringSteps, PTL DEF StringSpec

LEMMA StringsDecode == StringInv => DecodesUtf16
<1> SUFFICES ASSUME StringInv, outcome = "Ok" PROVE DecodesUtf16
  BY DEF DecodesUtf16
<1>1. PICK read \in Seq(Symbols) : symbols = Append(read, Quote) /\ Decoded(read, <<>>, <<>>)
  BY DEF StringInv
<1>2. SubSeq(symbols, 1, Len(symbols) - 1) = read
  <2>1. Quote \in Symbols
    BY DEF Symbols
  <2>2. /\ symbols \in Seq(Symbols) /\ Len(symbols) = Len(read) + 1 /\ Len(read) \in Nat
        /\ \A i \in 1..Len(read) : symbols[i] = read[i] /\ symbols[i] \in Symbols
    BY <1>1, <2>1, AppendProperties, LenProperties, ElementOfSeq
  <2>3. /\ SubSeq(symbols, 1, Len(read)) \in Seq(Symbols)
        /\ Len(SubSeq(symbols, 1, Len(read))) = Len(read)
        /\ \A i \in 1..Len(read) : SubSeq(symbols, 1, Len(read))[i] = read[i]
    BY <2>2, SubSeqProperties
  <2>4. SubSeq(symbols, 1, Len(read)) = read
    BY <2>2, <2>3, SeqEqual
  <2>5. Len(symbols) - 1 = Len(read)
    BY <2>2
  <2>6. QED
    BY <2>4, <2>5
<1>3. PICK pieces \in Seq(JsonCharacters) :
         /\ FlattenSeq(pieces) \o <<>> = read
         /\ Spelling(pieces, Units) = Spelling(output, Encode) \o <<>>
  BY <1>1 DEF Decoded
<1>4. FlattenSeq(pieces) = read
  <2>1. pieces \in Seq(Seq(Symbols))
    BY CharactersAreTexts, SeqMonotonic
  <2>2. QED
    BY <1>3, <2>1, FlattenType, ConcatEmptySeq
<1>5. Spelling(pieces, Units) = Spelling(output, Encode)
  <2>1. output \in Seq(Nat) /\ 0 \in Nat
    BY CodesAreNumbers, SeqMonotonic DEF StringInv
  <2> DEFINE spelt == Spelling(output, Encode)
  <2>2. spelt \in Seq(Int)
    BY <2>1, EncodeAppend
  <2>3. spelt \o <<>> = spelt
    <3> HIDE DEF spelt
    <3>1. QED
      BY <2>2, ConcatEmptySeq
  <2>4. QED
    BY <1>3, <2>3
<1>6. pieces \in CuttingsOf(read, JsonCharacters)
  BY <1>3, <1>4, CuttingsOfText, CharactersAreTexts
<1>7. \A i \in DOMAIN output : output[i] \notin High \cup Low
  <2>1. \A i \in DOMAIN output : output[i] \in Scalars
    BY ElementOfSeq, LenProperties DEF StringInv
  <2>2. \A c \in Scalars : c \notin High \cup Low
    BY SMT DEF Scalars
  <2>3. QED
    BY <2>1, <2>2
<1>8. Bytes(output) <= Maximum
  BY DEF StringInv
<1>9. \E cut \in CuttingsOf(SubSeq(symbols, 1, Len(symbols) - 1), JsonCharacters) :
          Spelling(cut, Units) = Spelling(output, Encode)
  BY <1>2, <1>5, <1>6
<1>10. QED
  BY <1>7, <1>8, <1>9 DEF DecodesUtf16

\* A JSON string parse_string accepts is UTF-16 without a lone surrogate, and
\* is read as exactly the text it encodes, within the limit.
THEOREM StringDecodesUtf16 == StringSpec => []DecodesUtf16
BY StringInvariant, StringsDecode, PTL
=============================================================================
