----------------------------- MODULE DataLemmas -----------------------------
(***************************************************************************)
(* Facts about the data of the models, for their proofs: sums, filtered    *)
(* lists, the largest and the smallest of a set.                           *)
(*                                                                         *)
(* SumFunction, the sum of a function's values over its finite domain, is  *)
(* a fold, that is, a recursion over subsets in an order CHOOSE picks.  It *)
(* is first shown to be the cardinality of a set, where the order no       *)
(* longer matters; the rest follows from the theorems on finite sets.      *)
(* Kept is a recursion over a list.  Its facts are shown by induction over *)
(* sequences, in the form that names the set of those that have the        *)
(* property.                                                               *)
(***************************************************************************)
EXTENDS Integers, FiniteSets, Functions, Lists, FiniteSetTheorems, SequenceTheorems,
        WellFoundedInduction, TLAPS

\* f[x] counters for every x of S.
Units(f, S) == UNION {{x} \X (1 .. f[x]) : x \in S}

\* There are finitely many counters.
LEMMA UnitsFinite ==
  ASSUME NEW S, NEW f \in [S -> Nat], NEW T \in SUBSET S, IsFiniteSet(T)
  PROVE  IsFiniteSet(Units(f, T)) /\ Cardinality(Units(f, T)) \in Nat
<1> DEFINE g == [x \in T |-> {x} \X (1 .. f[x])]
           R == {{x} \X (1 .. f[x]) : x \in T}
<1>1. g \in Surjection(T, R)
  BY DEF Surjection
<1>2. IsFiniteSet(R)
  BY <1>1, FS_Surjection
<1>3. ASSUME NEW U \in R PROVE IsFiniteSet(U)
  <2>1. PICK x \in T : U = {x} \X (1 .. f[x])
    OBVIOUS
  <2>2. IsFiniteSet({x})
    BY FS_Singleton
  <2>3. f[x] \in Int
    OBVIOUS
  <2>4. IsFiniteSet(1 .. f[x])
    BY <2>3, FS_Interval
  <2> QED BY <2>1, <2>2, <2>4, FS_Product
<1>4. IsFiniteSet(Units(f, T))
  BY <1>2, <1>3, FS_UNION DEF Units
<1> QED BY <1>4, FS_CardinalityType

\* One more element brings its own counters.
LEMMA UnitsAdd ==
  ASSUME NEW S, NEW f \in [S -> Nat], NEW T \in SUBSET S, IsFiniteSet(T),
         NEW x \in S, x \notin T
  PROVE  Cardinality(Units(f, T \cup {x})) = Cardinality(Units(f, T)) + f[x]
<1> DEFINE X == {x} \X (1 .. f[x])
           n == f[x]
<1>1. Units(f, T \cup {x}) = Units(f, T) \cup X
  BY DEF Units
<1>2. Units(f, T) \cap X = {}
  BY DEF Units
<1>3. n \in Nat
  OBVIOUS
<1>4. IsFiniteSet(X) /\ Cardinality(X) = n
  <2>1. IsFiniteSet({x}) /\ Cardinality({x}) = 1
    BY FS_Singleton
  <2>2. IsFiniteSet(1 .. n) /\ Cardinality(1 .. n) = n
    <3> HIDE DEF n
    <3>1. 1 \in Int /\ n \in Int /\ 1 <= n + 1 /\ n - 1 + 1 = n
      BY <1>3
    <3>2. IF 1 > n THEN n = 0 ELSE TRUE
      BY <1>3
    <3> QED BY <3>1, <3>2, FS_Interval
  <2> HIDE DEF n
  <2>3. X = {x} \X (1 .. n)
    BY DEF n
  <2> HIDE DEF X
  <2>4. Cardinality(X) = Cardinality({x}) * Cardinality(1 .. n) /\ IsFiniteSet(X)
    BY <2>1, <2>2, <2>3, FS_Product
  <2> QED BY <1>3, <2>1, <2>2, <2>4
<1>5. IsFiniteSet(Units(f, T)) /\ Cardinality(Units(f, T)) \in Nat
  BY UnitsFinite
<1>6. Cardinality(Units(f, T) \cap X) = 0
  BY <1>2, FS_EmptySet
<1>7. Cardinality(Units(f, T) \cup X)
        = Cardinality(Units(f, T)) + Cardinality(X) - Cardinality(Units(f, T) \cap X)
  BY <1>4, <1>5, FS_Union
<1> HIDE DEF X, n
<1> DEFINE m == Cardinality(Units(f, T))
<1>8. Cardinality(Units(f, T) \cup X) = m + n - 0
  BY <1>4, <1>6, <1>7
<1>9. m \in Nat
  BY <1>5
<1> HIDE DEF m
<1>10. Cardinality(Units(f, T) \cup X) = m + n
  BY <1>3, <1>8, <1>9
<1> QED BY <1>1, <1>10 DEF m, n

\* The fold counts the counters.
LEMMA SumIsCard ==
  ASSUME NEW S, NEW f \in [S -> Nat], NEW T \in SUBSET S, IsFiniteSet(T)
  PROVE  SumFunctionOnSet(f, T) = Cardinality(Units(f, T))
<1> DEFINE pick(s) == CHOOSE y \in s : TRUE
           Body(h, s) == IF s = {} THEN 0 ELSE f[pick(s)] + h[s \ {pick(s)}]
           count == [s \in SUBSET T |-> Cardinality(Units(f, s))]
           iter == CHOOSE h : h = [s \in SUBSET T |-> Body(h, s)]
<1>1. ASSUME NEW s \in SUBSET T, s # {}
      PROVE  Cardinality(Units(f, s)) =
               f[pick(s)] + Cardinality(Units(f, s \ {pick(s)}))
  <2> DEFINE c == pick(s)
             r == s \ {c}
             n == f[c]
  <2>1. c \in s
    BY <1>1
  <2> HIDE DEF c
  <2>2. r \in SUBSET S /\ c \in S /\ c \notin r /\ s = r \cup {c} /\ n \in Nat
    BY <2>1
  <2>3. IsFiniteSet(r)
    BY FS_Subset
  <2> HIDE DEF r
  <2>4. Cardinality(Units(f, s)) = Cardinality(Units(f, r)) + n
    BY <2>2, <2>3, UnitsAdd
  <2>5. Cardinality(Units(f, r)) \in Nat
    BY <2>2, <2>3, UnitsFinite
  <2> HIDE DEF n
  <2>6. Cardinality(Units(f, s)) = n + Cardinality(Units(f, r))
    BY <2>2, <2>4, <2>5
  <2> QED BY <2>6 DEF c, r, n
<1>2. Cardinality(Units(f, {})) = 0
  BY FS_EmptySet DEF Units
<1>3. count = [s \in SUBSET T |-> Body(count, s)]
  <2>1. ASSUME NEW s \in SUBSET T PROVE count[s] = Body(count, s)
    <3>1. CASE s = {}
      BY <3>1, <1>2
    <3>2. CASE s # {}
      <4>1. s \ {pick(s)} \in SUBSET T
        OBVIOUS
      <4> QED BY <3>2, <4>1, <1>1
    <3> QED BY <3>1, <3>2
  <2> QED BY <2>1
<1>4. iter = [s \in SUBSET T |-> Body(iter, s)]
  <2> HIDE DEF count
  <2> QED BY <1>3
<1>5. SumFunctionOnSet(f, T) = iter[T]
  BY DEF SumFunctionOnSet, FoldFunctionOnSet, MapThenFoldSet
<1>6. iter[T] = Cardinality(Units(f, T))
  <2> DEFINE Bad == {s \in SUBSET T : iter[s] # Cardinality(Units(f, s))}
  <2> HIDE DEF iter
  <2>1. SUFFICES ASSUME Bad # {} PROVE FALSE
    OBVIOUS
  <2>2. IsWellFoundedOn(StrictSubsetOrdering(T), SUBSET T)
    BY FS_StrictSubsetOrderingWellFounded, FS_FiniteSubsetsOfFinite
  <2>3. PICK m \in Bad : \A y \in Bad : ~ (<<y, m>> \in StrictSubsetOrdering(T))
    <3>1. Bad \subseteq SUBSET T
      OBVIOUS
    <3> HIDE DEF Bad
    <3> QED BY <2>1, <2>2, <3>1, WFMin
  <2>4. m # {}
    BY <1>2, <1>4
  <2>5. (m \ {pick(m)}) \in SUBSET T /\ m \ {pick(m)} # m
    BY <2>4
  <2>6. m \ {pick(m)} \notin Bad
    BY <2>3, <2>5 DEF StrictSubsetOrdering
  <2>7. iter[m] = f[pick(m)] + iter[m \ {pick(m)}]
    BY <1>4, <2>4
  <2> QED BY <2>3, <2>4, <2>5, <2>6, <2>7, <1>1
<1> QED BY <1>5, <1>6
-----------------------------------------------------------------------------
\* A sum of naturals is a natural, and adding an element adds its value.
LEMMA SumOnSetAdd ==
  ASSUME NEW S, NEW f \in [S -> Nat], NEW T \in SUBSET S, IsFiniteSet(T),
         NEW x \in S, x \notin T
  PROVE  /\ SumFunctionOnSet(f, T) \in Nat
         /\ SumFunctionOnSet(f, T \cup {x}) = SumFunctionOnSet(f, T) + f[x]
<1>1. IsFiniteSet(T \cup {x}) /\ T \cup {x} \in SUBSET S
  BY FS_AddElement
<1>2. SumFunctionOnSet(f, T \cup {x}) = Cardinality(Units(f, T \cup {x}))
  BY <1>1, SumIsCard
<1>3. SumFunctionOnSet(f, T) = Cardinality(Units(f, T))
  BY SumIsCard
<1>4. Cardinality(Units(f, T)) \in Nat
  BY UnitsFinite
<1>5. Cardinality(Units(f, T \cup {x})) = Cardinality(Units(f, T)) + f[x]
  BY UnitsAdd
<1> QED BY <1>2, <1>3, <1>4, <1>5

\* The empty sum.
LEMMA SumOnEmpty ==
  ASSUME NEW S, NEW f \in [S -> Nat]
  PROVE  SumFunctionOnSet(f, {}) = 0
<1>1. Units(f, {}) = {} /\ IsFiniteSet({}) /\ Cardinality({}) = 0
  BY FS_EmptySet DEF Units
<1>2. SumFunctionOnSet(f, {}) = Cardinality(Units(f, {}))
  BY <1>1, SumIsCard
<1> QED BY <1>1, <1>2

\* Only the values on the set matter.
LEMMA SumOnSetSame ==
  ASSUME NEW S, NEW f \in [S -> Nat], NEW g \in [S -> Nat], NEW T \in SUBSET S,
         IsFiniteSet(T), \A x \in T : g[x] = f[x]
  PROVE  SumFunctionOnSet(f, T) = SumFunctionOnSet(g, T)
<1>1. Units(f, T) = Units(g, T)
  BY DEF Units
<1> QED BY <1>1, SumIsCard

\* The sum over a domain splits into one element and the rest.
LEMMA SumSplit ==
  ASSUME NEW S, IsFiniteSet(S), NEW f \in [S -> Nat], NEW x \in S
  PROVE  /\ SumFunctionOnSet(f, S \ {x}) \in Nat
         /\ SumFunction(f) = SumFunctionOnSet(f, S \ {x}) + f[x]
<1>1. IsFiniteSet(S \ {x})
  BY FS_RemoveElement
<1>2. S = (S \ {x}) \cup {x} /\ x \notin S \ {x} /\ DOMAIN f = S
  OBVIOUS
<1>3. \A y \in (S \ {x}) \cup {x} : f[y] \in Nat
  OBVIOUS
<1>4. /\ SumFunctionOnSet(f, S \ {x}) \in Nat
      /\ SumFunctionOnSet(f, (S \ {x}) \cup {x}) = SumFunctionOnSet(f, S \ {x}) + f[x]
  BY <1>1, <1>2, <1>3, SumOnSetAdd
<1> QED BY <1>2, <1>4 DEF SumFunction

\* A sum of naturals is a natural.
LEMMA SumNat ==
  ASSUME NEW S, IsFiniteSet(S), NEW f \in [S -> Nat]
  PROVE  SumFunction(f) \in Nat
<1>1. CASE S = {}
  <2>1. SumFunctionOnSet(f, {}) = 0 /\ DOMAIN f = {}
    BY <1>1, SumOnEmpty
  <2> QED BY <2>1 DEF SumFunction
<1>2. CASE S # {}
  <2>1. PICK x \in S : TRUE
    BY <1>2
  <2>2. /\ SumFunctionOnSet(f, S \ {x}) \in Nat
        /\ SumFunction(f) = SumFunctionOnSet(f, S \ {x}) + f[x]
    BY SumSplit
  <2>3. f[x] \in Nat
    OBVIOUS
  <2> QED BY <2>2, <2>3
<1> QED BY <1>1, <1>2

\* No value exceeds the sum.
LEMMA SumMember ==
  ASSUME NEW S, IsFiniteSet(S), NEW f \in [S -> Nat], NEW x \in S
  PROVE  f[x] <= SumFunction(f)
<1>1. /\ SumFunctionOnSet(f, S \ {x}) \in Nat
      /\ SumFunction(f) = SumFunctionOnSet(f, S \ {x}) + f[x]
  BY SumSplit
<1>2. f[x] \in Nat
  OBVIOUS
<1> QED BY <1>1, <1>2

\* g is f but for its value at x.
SameBut(f, g, x, S) == \A y \in S \ {x} : g[y] = f[y]

\* Changing one value changes the sum by the difference.
LEMMA SumUpdate ==
  ASSUME NEW S, IsFiniteSet(S), NEW f \in [S -> Nat], NEW g \in [S -> Nat], NEW x \in S,
         SameBut(f, g, x, S)
  PROVE  SumFunction(g) = SumFunction(f) - f[x] + g[x]
<1>1. IsFiniteSet(S \ {x})
  BY FS_RemoveElement
<1>2. SumFunctionOnSet(f, S \ {x}) = SumFunctionOnSet(g, S \ {x})
  BY <1>1, SumOnSetSame DEF SameBut
<1>3. SumFunction(f) = SumFunctionOnSet(f, S \ {x}) + f[x]
  BY SumSplit
<1>4. SumFunction(g) = SumFunctionOnSet(g, S \ {x}) + g[x]
  BY SumSplit
<1>5. SumFunctionOnSet(f, S \ {x}) \in Nat
  BY SumSplit
<1>6. f[x] \in Nat /\ g[x] \in Nat
  OBVIOUS
<1> QED BY <1>2, <1>3, <1>4, <1>5, <1>6

\* One element more in the domain adds its value.
LEMMA SumGrows ==
  ASSUME NEW D, IsFiniteSet(D), NEW x, x \notin D,
         NEW f \in [D -> Nat], NEW g \in [D \cup {x} -> Nat], \A y \in D : g[y] = f[y]
  PROVE  SumFunction(g) = SumFunction(f) + g[x]
<1> DEFINE S == D \cup {x}
<1>1. IsFiniteSet(S) /\ S \ {x} = D /\ x \in S /\ D \in SUBSET S
  BY FS_AddElement
<1>2. SumFunction(g) = SumFunctionOnSet(g, D) + g[x]
  <2>1. SumFunction(g) = SumFunctionOnSet(g, S \ {x}) + g[x]
    <3> HIDE DEF S
    <3> QED BY <1>1, SumSplit DEF S
  <2> QED BY <1>1, <2>1
<1>3. SumFunctionOnSet(g, D) = Cardinality(Units(g, D))
  BY <1>1, SumIsCard
<1>4. SumFunctionOnSet(f, D) = Cardinality(Units(f, D)) /\ DOMAIN f = D
  BY SumIsCard
<1>5. Units(g, D) = Units(f, D)
  BY DEF Units
<1> QED BY <1>2, <1>3, <1>4, <1>5 DEF SumFunction

\* d is a * f - b * g, value by value.
Combines(d, a, f, b, g, S) == \A x \in S : d[x] = a * f[x] - b * g[x]

\* Summing is linear.
LEMMA SumLinear ==
  ASSUME NEW S, IsFiniteSet(S), NEW a \in Nat, NEW b \in Nat,
         NEW f \in [S -> Nat], NEW g \in [S -> Nat], NEW d \in [S -> Nat],
         Combines(d, a, f, b, g, S)
  PROVE  SumFunction(d) = a * SumFunction(f) - b * SumFunction(g)
<1> DEFINE F(s) == SumFunctionOnSet(f, s)
           G(s) == SumFunctionOnSet(g, s)
           D(s) == SumFunctionOnSet(d, s)
           Bad == {s \in SUBSET S : D(s) # a * F(s) - b * G(s)}
<1>1. SUFFICES ASSUME Bad # {} PROVE FALSE
  <2>1. S \in SUBSET S /\ DOMAIN f = S /\ DOMAIN g = S /\ DOMAIN d = S
    OBVIOUS
  <2> QED BY <2>1 DEF SumFunction
<1>2. IsWellFoundedOn(StrictSubsetOrdering(S), SUBSET S)
  BY FS_StrictSubsetOrderingWellFounded, FS_FiniteSubsetsOfFinite
<1>3. PICK m \in Bad : \A y \in Bad : ~ (<<y, m>> \in StrictSubsetOrdering(S))
  <2>1. Bad \subseteq SUBSET S
    OBVIOUS
  <2> HIDE DEF Bad
  <2> QED BY <1>1, <1>2, <2>1, WFMin
<1>4. m # {}
  <2>1. SumFunctionOnSet(f, {}) = 0 /\ SumFunctionOnSet(g, {}) = 0 /\ SumFunctionOnSet(d, {}) = 0
    BY SumOnEmpty
  <2>2. 0 = a * 0 - b * 0
    OBVIOUS
  <2>3. {} \notin Bad
    BY <2>1, <2>2
  <2> QED BY <2>3
<1>5. PICK x \in m : TRUE
  BY <1>4
<1> DEFINE r == m \ {x}
<1>6. r \in SUBSET S /\ r # m /\ m = r \cup {x} /\ x \notin r /\ x \in S
  BY <1>3, <1>5
<1>7. IsFiniteSet(r)
  BY <1>6, FS_Subset
<1> HIDE DEF r
<1>8. r \notin Bad
  BY <1>3, <1>6 DEF StrictSubsetOrdering
<1>9. D(r) = a * F(r) - b * G(r)
  BY <1>6, <1>8
<1>10. \A y \in r \cup {x} : f[y] \in Nat /\ g[y] \in Nat /\ d[y] \in Nat
  BY <1>6
<1>11. F(r) \in Nat /\ F(m) = F(r) + f[x]
  BY <1>6, <1>7, <1>10, SumOnSetAdd
<1>12. G(r) \in Nat /\ G(m) = G(r) + g[x]
  BY <1>6, <1>7, <1>10, SumOnSetAdd
<1>13. D(r) \in Nat /\ D(m) = D(r) + d[x]
  BY <1>6, <1>7, <1>10, SumOnSetAdd
<1>14. D(m) # a * F(m) - b * G(m)
  BY <1>3
<1>15. d[x] = a * f[x] - b * g[x] /\ f[x] \in Nat /\ g[x] \in Nat
  BY <1>6 DEF Combines
<1> HIDE DEF F, G, D, Bad
<1>16. a * F(m) = a * F(r) + a * f[x] /\ b * G(m) = b * G(r) + b * g[x]
  BY <1>11, <1>12, <1>15
<1>17. /\ a * F(r) \in Int /\ b * G(r) \in Int /\ a * f[x] \in Int /\ b * g[x] \in Int
  BY <1>11, <1>12, <1>15
<1> QED BY <1>9, <1>13, <1>14, <1>15, <1>16, <1>17
-----------------------------------------------------------------------------
(***************************************************************************)
(* Lists.                                                                  *)
(***************************************************************************)

\* Induction over the naturals, the property given as the set where it holds.
LEMMA NatsIn ==
  ASSUME NEW T, 0 \in T, \A n \in Nat : n \in T => n + 1 \in T
  PROVE  Nat \subseteq T
<1> DEFINE Bad == Nat \ T
<1>1. SUFFICES ASSUME Bad # {} PROVE FALSE
  OBVIOUS
<1>2. PICK m \in Bad : \A k \in Bad : ~ (<<k, m>> \in OpToRel(<, Nat))
  <2>1. Bad \subseteq Nat
    OBVIOUS
  <2> HIDE DEF Bad
  <2> QED BY <1>1, <2>1, NatLessThanWellFounded, WFMin
<1>3. m \in Nat /\ m # 0
  OBVIOUS
<1>4. m - 1 \in Nat /\ m - 1 < m /\ m - 1 + 1 = m
  BY <1>3
<1>5. m - 1 \notin Bad
  BY <1>2, <1>3, <1>4 DEF OpToRel
<1> QED BY <1>4, <1>5

\* Induction over sequences, from the front to the back.
LEMMA SeqsIn ==
  ASSUME NEW S, NEW T, <<>> \in T,
         \A s \in Seq(S), e \in S : s \in T => Append(s, e) \in T
  PROVE  Seq(S) \subseteq T
<1> DEFINE N == {n \in Nat : \A s \in Seq(S) : Len(s) = n => s \in T}
<1>1. 0 \in N
  BY EmptySeq
<1>2. ASSUME NEW n \in Nat, n \in N PROVE n + 1 \in N
  <2>1. SUFFICES ASSUME NEW s \in Seq(S), Len(s) = n + 1 PROVE s \in T
    OBVIOUS
  <2>2. PICK r \in Seq(S), e \in S : s = Append(r, e)
    BY <2>1, SequenceEmptyOrAppend, EmptySeq
  <2>3. Len(r) = n
    BY <2>1, <2>2, AppendProperties, LenProperties
  <2> QED BY <1>2, <2>2, <2>3
<1>3. Nat \subseteq N
  <2> HIDE DEF N
  <2> QED BY <1>1, <1>2, NatsIn
<1> QED BY <1>3, LenProperties

\* g is the function that Kept defines for s and P.
KeepsUpTo(g, s, P) ==
  g = [n \in 0 .. Len(s) |->
         IF n = 0 THEN <<>> ELSE IF s[n] \in P THEN Append(g[n - 1], s[n]) ELSE g[n - 1]]

\* There is such a function.
LEMMA KeptExists ==
  ASSUME NEW S, NEW P
  PROVE  \A s \in Seq(S) : \E g : KeepsUpTo(g, s, P)
<1> DEFINE T == {s \in Seq(S) : \E g : KeepsUpTo(g, s, P)}
<1>1. <<>> \in T
  <2>1. KeepsUpTo([n \in {0} |-> <<>>], <<>>, P)
    BY DEF KeepsUpTo
  <2> QED BY <2>1, EmptySeq
<1>2. ASSUME NEW s \in Seq(S), NEW e \in S, s \in T PROVE Append(s, e) \in T
  <2> DEFINE r == Append(s, e)
             k == Len(s)
  <2>1. /\ r \in Seq(S) /\ Len(r) = k + 1 /\ k \in Nat /\ r[k + 1] = e
        /\ \A n \in 1 .. k : r[n] = s[n]
    BY AppendProperties, LenProperties
  <2>2. PICK g : KeepsUpTo(g, s, P)
    BY <1>2
  <2> DEFINE h == [n \in 0 .. k + 1 |->
                     IF n <= k THEN g[n] ELSE IF e \in P THEN Append(g[k], e) ELSE g[k]]
             Next(f, n) == IF n = 0 THEN <<>>
                             ELSE IF r[n] \in P THEN Append(f[n - 1], r[n]) ELSE f[n - 1]
  <2> HIDE DEF r, k
  <2>3. \A n \in 0 .. k : g[n] = IF n = 0 THEN <<>>
                             ELSE IF s[n] \in P THEN Append(g[n - 1], s[n]) ELSE g[n - 1]
    BY <2>1, <2>2 DEF KeepsUpTo, k
  <2>4. ASSUME NEW n \in 0 .. k + 1 PROVE h[n] = Next(h, n)
    <3>1. CASE n <= k
      BY <2>1, <2>3, <3>1
    <3>2. CASE n = k + 1
      BY <2>1, <3>2
    <3> QED BY <2>1, <3>1, <3>2
  <2>5. h = [n \in 0 .. k + 1 |-> Next(h, n)]
    <3>1. h = [n \in 0 .. k + 1 |-> h[n]]
      OBVIOUS
    <3> HIDE DEF h, Next
    <3> QED BY <2>4, <3>1
  <2>6. KeepsUpTo(h, r, P)
    <3> HIDE DEF h
    <3> QED BY <2>1, <2>5 DEF KeepsUpTo
  <2> QED BY <2>1, <2>6 DEF r
<1>3. Seq(S) \subseteq T
  <2> HIDE DEF T
  <2> QED BY <1>1, <1>2, SeqsIn
<1> QED BY <1>3

\* Kept is the last value of such a function, and the function is its values on
\* the prefixes; so a list that is longer by one is filtered by one step more.
LEMMA KeptStep ==
  ASSUME NEW S, NEW P, NEW s \in Seq(S), NEW e \in S
  PROVE  /\ Kept(<<>>, P) = <<>>
         /\ Kept(Append(s, e), P) = IF e \in P THEN Append(Kept(s, P), e) ELSE Kept(s, P)
<1> DEFINE F(x) == CHOOSE g : g = [n \in 0 .. Len(x) |->
                     IF n = 0 THEN <<>> ELSE IF x[n] \in P THEN Append(g[n - 1], x[n]) ELSE g[n - 1]]
<1>1. \A x \in Seq(S) : Kept(x, P) = F(x)[Len(x)]
  BY DEF Kept
<1>2. \A x \in Seq(S) : KeepsUpTo(F(x), x, P)
  <2>1. ASSUME NEW x \in Seq(S) PROVE KeepsUpTo(F(x), x, P)
    <3>1. \E g : g = [n \in 0 .. Len(x) |->
            IF n = 0 THEN <<>> ELSE IF x[n] \in P THEN Append(g[n - 1], x[n]) ELSE g[n - 1]]
      <4>1. PICK g : KeepsUpTo(g, x, P)
        BY KeptExists
      <4> QED BY <4>1 DEF KeepsUpTo
    <3> QED BY <3>1 DEF KeepsUpTo
  <2> QED BY <2>1
<1> HIDE DEF F
<1>3. \A x \in Seq(S) : \A n \in 0 .. Len(x) :
        F(x)[n] = IF n = 0 THEN <<>>
                  ELSE IF x[n] \in P THEN Append(F(x)[n - 1], x[n]) ELSE F(x)[n - 1]
  BY <1>2 DEF KeepsUpTo
<1>4. Kept(<<>>, P) = <<>>
  <2>1. <<>> \in Seq(S) /\ Len(<<>>) = 0
    BY EmptySeq
  <2>2. F(<<>>)[0] = <<>>
    <3>1. 0 \in 0 .. Len(<<>>)
      BY <2>1
    <3> QED BY <1>3, <2>1, <3>1
  <2> QED BY <1>1, <2>1, <2>2
<1> DEFINE r == Append(s, e)
           k == Len(s)
<1>5. /\ r \in Seq(S) /\ Len(r) = k + 1 /\ k \in Nat /\ r[k + 1] = e
      /\ \A n \in 1 .. k : r[n] = s[n]
  BY AppendProperties, LenProperties
<1> HIDE DEF r, k
<1>6. \A n \in 0 .. k : F(r)[n] = F(s)[n]
  <2> DEFINE T == {n \in Nat : n <= k => F(r)[n] = F(s)[n]}
  <2>1. 0 \in T
    BY <1>3, <1>5 DEF k
  <2>2. ASSUME NEW n \in Nat, n \in T PROVE n + 1 \in T
    <3> SUFFICES ASSUME n + 1 <= k PROVE F(r)[n + 1] = F(s)[n + 1]
      OBVIOUS
    <3>1. F(r)[n] = F(s)[n] /\ n + 1 \in 1 .. k /\ n + 1 - 1 = n /\ r[n + 1] = s[n + 1]
      BY <1>5, <2>2
    <3>2. /\ n + 1 \in 0 .. Len(r) /\ n + 1 \in 0 .. Len(s)
      BY <1>5, <3>1 DEF k
    <3> QED BY <1>3, <1>5, <3>1, <3>2
  <2> HIDE DEF T
  <2>3. Nat \subseteq T
    BY <2>1, <2>2, NatsIn
  <2> QED BY <1>5, <2>3 DEF T
<1>7. F(r)[k + 1] = IF e \in P THEN Append(F(r)[k], e) ELSE F(r)[k]
  <2>1. k + 1 \in 0 .. Len(r) /\ k + 1 # 0 /\ k + 1 - 1 = k
    BY <1>5
  <2> QED BY <1>3, <1>5, <2>1
<1>8. F(r)[k] = F(s)[k]
  BY <1>5, <1>6
<1> QED BY <1>1, <1>4, <1>5, <1>7, <1>8 DEF r, k

LEMMA KeptEmpty == \A P : Kept(<<>>, P) = <<>>
<1>1. ASSUME NEW P PROVE Kept(<<>>, P) = <<>>
  <2> DEFINE S == {0}
  <2>1. <<>> \in Seq(S) /\ 0 \in S
    BY EmptySeq
  <2> HIDE DEF S
  <2> QED BY <2>1, KeptStep
<1> QED BY <1>1

\* What is kept is from the list and passes the test, and is no more than the list.
LEMMA KeptType ==
  ASSUME NEW S, NEW P, NEW s \in Seq(S)
  PROVE  /\ Kept(s, P) \in Seq(S \cap P) /\ Kept(s, P) \in Seq(S)
         /\ Len(Kept(s, P)) <= Len(s)
<1> DEFINE R == S \cap P
           T == {x \in Seq(S) : Kept(x, P) \in Seq(R) /\ Len(Kept(x, P)) <= Len(x)}
<1>1. <<>> \in T
  <2> HIDE DEF R
  <2>1. <<>> \in Seq(S)
    BY EmptySeq
  <2>2. Kept(<<>>, P) \in Seq(R)
    BY KeptEmpty, EmptySeq
  <2>3. Len(Kept(<<>>, P)) <= Len(<<>>)
    BY KeptEmpty
  <2> QED BY <2>1, <2>2, <2>3
<1>2. ASSUME NEW x \in Seq(S), NEW e \in S, x \in T PROVE Append(x, e) \in T
  <2>1. Kept(Append(x, e), P) = IF e \in P THEN Append(Kept(x, P), e) ELSE Kept(x, P)
    BY KeptStep
  <2>2. Append(x, e) \in Seq(S) /\ Len(Append(x, e)) = Len(x) + 1 /\ Len(x) \in Nat
    BY AppendProperties, LenProperties
  <2>3. Kept(x, P) \in Seq(R) /\ Len(Kept(x, P)) <= Len(x) /\ Len(Kept(x, P)) \in Nat
    BY <1>2, LenProperties
  <2>4. CASE e \in P
    <3>1. /\ Append(Kept(x, P), e) \in Seq(R)
          /\ Len(Append(Kept(x, P), e)) = Len(Kept(x, P)) + 1
      BY <2>3, <2>4, AppendProperties
    <3> QED BY <2>1, <2>2, <2>3, <2>4, <3>1
  <2>5. CASE e \notin P
    BY <2>1, <2>2, <2>3, <2>5
  <2> QED BY <2>4, <2>5
<1>3. Seq(S) \subseteq T
  <2> HIDE DEF T
  <2> QED BY <1>1, <1>2, SeqsIn
<1>4. Kept(s, P) \in Seq(S)
  BY <1>3, SeqMonotonic
<1> QED BY <1>3, <1>4

\* Filtering twice is filtering once.
LEMMA KeptTwice ==
  ASSUME NEW S, NEW P, NEW Q, NEW s \in Seq(S)
  PROVE  Kept(Kept(s, P), Q) = Kept(s, P \cap Q)
<1> DEFINE R == P \cap Q
           T == {x \in Seq(S) : Kept(Kept(x, P), Q) = Kept(x, R)}
<1>1. <<>> \in T
  BY KeptEmpty, EmptySeq
<1>2. ASSUME NEW x \in Seq(S), NEW e \in S, x \in T PROVE Append(x, e) \in T
  <2>1. e \in R <=> e \in P /\ e \in Q
    OBVIOUS
  <2> HIDE DEF R
  <2>2. Append(x, e) \in Seq(S) /\ Kept(Kept(x, P), Q) = Kept(x, R)
    BY <1>2, AppendProperties
  <2>3. Kept(Append(x, e), P) = IF e \in P THEN Append(Kept(x, P), e) ELSE Kept(x, P)
    BY KeptStep
  <2>4. Kept(Append(x, e), R) = IF e \in R THEN Append(Kept(x, R), e) ELSE Kept(x, R)
    BY KeptStep
  <2>5. Kept(Append(Kept(x, P), e), Q)
          = IF e \in Q THEN Append(Kept(Kept(x, P), Q), e) ELSE Kept(Kept(x, P), Q)
    <3>1. Kept(x, P) \in Seq(S)
      BY KeptType
    <3> QED BY <3>1, KeptStep
  <2>6. Kept(Kept(Append(x, e), P), Q) = Kept(Append(x, e), R)
    BY <2>1, <2>2, <2>3, <2>4, <2>5
  <2> QED BY <2>2, <2>6
<1>3. Seq(S) \subseteq T
  <2> HIDE DEF T
  <2> QED BY <1>1, <1>2, SeqsIn
<1> QED BY <1>3

\* Only what the test says of the elements matters; a stricter one keeps no more.
LEMMA KeptFewer ==
  ASSUME NEW S, NEW P, NEW Q, S \cap P \subseteq Q, NEW s \in Seq(S)
  PROVE  Len(Kept(s, P)) <= Len(Kept(s, Q))
<1> DEFINE T == {x \in Seq(S) : Len(Kept(x, P)) <= Len(Kept(x, Q))}
<1>1. <<>> \in T
  BY KeptEmpty, EmptySeq
<1>2. ASSUME NEW x \in Seq(S), NEW e \in S, x \in T PROVE Append(x, e) \in T
  <2>1. /\ Kept(Append(x, e), P) = IF e \in P THEN Append(Kept(x, P), e) ELSE Kept(x, P)
        /\ Kept(Append(x, e), Q) = IF e \in Q THEN Append(Kept(x, Q), e) ELSE Kept(x, Q)
    BY KeptStep
  <2>2. Kept(x, P) \in Seq(S) /\ Kept(x, Q) \in Seq(S)
    BY KeptType
  <2>3. /\ Len(Append(Kept(x, P), e)) = Len(Kept(x, P)) + 1 /\ Len(Kept(x, P)) \in Nat
        /\ Len(Append(Kept(x, Q), e)) = Len(Kept(x, Q)) + 1 /\ Len(Kept(x, Q)) \in Nat
    BY <2>2, AppendProperties, LenProperties
  <2>4. Append(x, e) \in Seq(S) /\ (e \in P => e \in Q)
    BY AppendProperties
  <2> HIDE DEF T
  <2>5. Len(Kept(x, P)) <= Len(Kept(x, Q))
    BY <1>2 DEF T
  <2>6. Len(Kept(Append(x, e), P)) <= Len(Kept(Append(x, e), Q))
    BY <2>1, <2>3, <2>4, <2>5
  <2> QED BY <2>4, <2>6 DEF T
<1>3. Seq(S) \subseteq T
  <2> HIDE DEF T
  <2> QED BY <1>1, <1>2, SeqsIn
<1> QED BY <1>3

\* Nothing is kept exactly when nothing passes.
LEMMA KeptNone ==
  ASSUME NEW S, NEW P, NEW s \in Seq(S)
  PROVE  Kept(s, P) = <<>> <=> \A i \in 1 .. Len(s) : s[i] \notin P
<1> DEFINE T == {x \in Seq(S) : Kept(x, P) = <<>> <=> \A i \in 1 .. Len(x) : x[i] \notin P}
<1>1. <<>> \in T
  BY KeptEmpty, EmptySeq
<1>2. ASSUME NEW x \in Seq(S), NEW e \in S, x \in T PROVE Append(x, e) \in T
  <2> DEFINE r == Append(x, e)
  <2>1. Kept(r, P) = IF e \in P THEN Append(Kept(x, P), e) ELSE Kept(x, P)
    BY KeptStep
  <2>2. /\ r \in Seq(S) /\ Len(r) = Len(x) + 1 /\ Len(x) \in Nat /\ r[Len(x) + 1] = e
        /\ \A i \in 1 .. Len(x) : r[i] = x[i]
    BY AppendProperties, LenProperties
  <2>3. Append(Kept(x, P), e) # <<>>
    <3>1. Kept(x, P) \in Seq(S)
      BY KeptType
    <3> QED BY <3>1, AppendProperties
  <2> HIDE DEF r
  <2>4. (\A i \in 1 .. Len(r) : r[i] \notin P) <=> e \notin P /\ \A i \in 1 .. Len(x) : x[i] \notin P
    BY <2>2
  <2> QED BY <1>2, <2>1, <2>2, <2>3, <2>4 DEF r
<1>3. Seq(S) \subseteq T
  <2> HIDE DEF T
  <2> QED BY <1>1, <1>2, SeqsIn
<1> QED BY <1>3

\* Taking one element out of the list.
LEMMA RemoveLast ==
  ASSUME NEW S, NEW s \in Seq(S), NEW e \in S
  PROVE  RemoveAt(Append(s, e), Len(s) + 1) = s
<1> DEFINE r == Append(s, e)
           k == Len(s)
<1>1. r \in Seq(S) /\ Len(r) = k + 1 /\ k \in Nat /\ \A i \in 1 .. k : r[i] = s[i]
  BY AppendProperties, LenProperties
<1> HIDE DEF r
<1>2. /\ SubSeq(r, 1, k) \in Seq(S) /\ Len(SubSeq(r, 1, k)) = k
      /\ \A i \in 1 .. k : SubSeq(r, 1, k)[i] = r[i]
  <2>1. \A i \in 1 .. k : r[i] \in S
    BY <1>1, ElementOfSeq
  <2>2. 1 \in Int /\ k \in Int
    BY <1>1
  <2>3. /\ SubSeq(r, 1, k) \in Seq(S)
        /\ Len(SubSeq(r, 1, k)) = IF 1 <= k THEN k - 1 + 1 ELSE 0
        /\ \A i \in 1 .. k - 1 + 1 : SubSeq(r, 1, k)[i] = r[1 + i - 1]
    <3> HIDE DEF k
    <3> QED BY <2>1, <2>2, SubSeqProperties
  <2> QED BY <1>1, <2>3
<1>3. SubSeq(r, 1, k) = s
  BY <1>1, <1>2, SeqEqual
<1>4. SubSeq(r, k + 2, k + 1) = <<>>
  <2> HIDE DEF k
  <2> QED BY <1>1, SubSeqEmpty
<1>5. SubSeq(r, 1, k) \o <<>> = s
  BY <1>3, ConcatEmptySeq
<1>6. k + 1 - 1 = k /\ k + 1 + 1 = k + 2
  BY <1>1
<1> QED BY <1>1, <1>4, <1>5, <1>6 DEF RemoveAt, r

LEMMA RemoveEarlier ==
  ASSUME NEW S, NEW s \in Seq(S), NEW e \in S, NEW i \in 1 .. Len(s)
  PROVE  /\ RemoveAt(s, i) \in Seq(S)
         /\ RemoveAt(Append(s, e), i) = Append(RemoveAt(s, i), e)
<1> DEFINE r == Append(s, e)
           k == Len(s)
           A == SubSeq(s, 1, i - 1)
           B == SubSeq(s, i + 1, k)
<1>1. r = s \o <<e>> /\ r \in Seq(S) /\ Len(r) = k + 1 /\ k \in Nat /\ <<e>> \in Seq(S)
  BY AppendIsConcat, AppendProperties, LenProperties
<1>2. A \in Seq(S) /\ B \in Seq(S)
  <2>1. \A j \in 1 .. k : s[j] \in S
    BY ElementOfSeq
  <2>2. (\A j \in 1 .. i - 1 : s[j] \in S) /\ (\A j \in i + 1 .. k : s[j] \in S)
    BY <1>1, <2>1
  <2>3. 1 \in Int /\ i - 1 \in Int /\ i + 1 \in Int /\ k \in Int
    BY <1>1
  <2> HIDE DEF k
  <2> QED BY <2>2, <2>3, SubSeqProperties
<1>3. SubSeq(r, 1, i - 1) = A
  <2>1. CASE i = 1
    <3>1. SubSeq(r, 1, 0) = <<>> /\ SubSeq(s, 1, 0) = <<>>
      BY SubSeqEmpty
    <3> QED BY <2>1, <3>1
  <2>2. CASE i # 1
    <3>1. 1 \in 1 .. Len(s) /\ i - 1 \in 1 .. Len(s)
      BY <1>1, <2>2
    <3> QED BY <1>1, <3>1, SubSeqOfConcat1
  <2> QED BY <2>1, <2>2
<1>4. SubSeq(r, i + 1, k + 1) = B \o <<e>>
  <2>1. i + 1 \in 1 .. Len(r) /\ k + 1 \in i + 1 .. Len(r) /\ k + 1 - 1 = k
    BY <1>1
  <2>2. SubSeq(r, i + 1, k + 1) = SubSeq(r, i + 1, k) \o <<r[k + 1]>>
    <3> DEFINE m == i + 1
               n == k + 1
    <3>1. SubSeq(r, m, n) = SubSeq(r, m, n - 1) \o <<r[n]>>
      <4>1. m \in 1 .. Len(r) /\ n \in m .. Len(r) /\ r \in Seq(S)
        BY <1>1, <2>1
      <4> HIDE DEF r, m, n
      <4> QED BY <4>1, SubSeqRecursiveSecond
    <3>2. n - 1 = k
      BY <1>1
    <3> HIDE DEF m, n, r, k
    <3>3. SubSeq(r, m, n) = SubSeq(r, m, k) \o <<r[n]>>
      BY <3>1, <3>2
    <3> QED BY <3>3 DEF m, n
  <2>3. r[k + 1] = e
    BY AppendProperties
  <2>4. SubSeq(r, i + 1, k) = B
    <3>1. CASE i = k
      <4>1. SubSeq(r, k + 1, k) = <<>> /\ SubSeq(s, k + 1, k) = <<>>
        <5>1. k + 1 \in Int /\ k \in Int /\ k < k + 1
          BY <1>1
        <5> HIDE DEF k, r
        <5> QED BY <5>1, SubSeqEmpty
      <4> QED BY <3>1, <4>1
    <3>2. CASE i # k
      <4>1. i + 1 \in 1 .. Len(s) /\ k \in 1 .. Len(s)
        BY <1>1, <3>2
      <4> QED BY <1>1, <4>1, SubSeqOfConcat1
    <3> QED BY <3>1, <3>2
  <2> QED BY <2>2, <2>3, <2>4
<1> HIDE DEF A, B
<1>5. A \o (B \o <<e>>) = (A \o B) \o <<e>>
  BY <1>1, <1>2, ConcatAssociative
<1>6. A \o B \in Seq(S)
  BY <1>2, ConcatProperties
<1>7. Append(A \o B, e) = (A \o B) \o <<e>>
  BY <1>6, AppendIsConcat
<1> QED BY <1>1, <1>3, <1>4, <1>5, <1>6, <1>7 DEF RemoveAt, A, B

\* An element that passes the test is missed, another one is not.
LEMMA KeptRemove ==
  ASSUME NEW S, NEW P, NEW s \in Seq(S), NEW i \in 1 .. Len(s)
  PROVE  /\ RemoveAt(s, i) \in Seq(S)
         /\ Len(Kept(s, P)) = Len(Kept(RemoveAt(s, i), P)) + IF s[i] \in P THEN 1 ELSE 0
         /\ s[i] \notin P => Kept(RemoveAt(s, i), P) = Kept(s, P)
<1> DEFINE Claim(x, j) ==
             /\ RemoveAt(x, j) \in Seq(S)
             /\ Len(Kept(x, P)) = Len(Kept(RemoveAt(x, j), P)) + IF x[j] \in P THEN 1 ELSE 0
             /\ x[j] \notin P => Kept(RemoveAt(x, j), P) = Kept(x, P)
           T == {x \in Seq(S) : \A j \in 1 .. Len(x) : Claim(x, j)}
<1>1. <<>> \in T
  BY EmptySeq
<1>2. ASSUME NEW x \in Seq(S), NEW e \in S, x \in T PROVE Append(x, e) \in T
  <2> DEFINE r == Append(x, e)
  <2>1. /\ r \in Seq(S) /\ Len(r) = Len(x) + 1 /\ Len(x) \in Nat /\ r[Len(x) + 1] = e
        /\ \A j \in 1 .. Len(x) : r[j] = x[j]
    BY AppendProperties, LenProperties
  <2>2. Kept(r, P) = IF e \in P THEN Append(Kept(x, P), e) ELSE Kept(x, P)
    BY KeptStep
  <2>3. \A y \in Seq(S) : /\ Kept(y, P) \in Seq(S) /\ Len(Kept(y, P)) \in Nat
                          /\ Len(Append(Kept(y, P), e)) = Len(Kept(y, P)) + 1
    BY KeptType, LenProperties, AppendProperties
  <2>4. ASSUME NEW j \in 1 .. Len(r) PROVE Claim(r, j)
    <3>1. CASE j = Len(x) + 1
      <4>1. RemoveAt(r, j) = x
        BY <3>1, RemoveLast
      <4>2. r[j] = e
        BY <2>1, <3>1
      <4> HIDE DEF r
      <4> QED BY <2>2, <2>3, <4>1, <4>2
    <3>2. CASE j # Len(x) + 1
      <4>1. j \in 1 .. Len(x) /\ r[j] = x[j]
        BY <2>1, <3>2
      <4>2. RemoveAt(r, j) = Append(RemoveAt(x, j), e) /\ RemoveAt(x, j) \in Seq(S)
        BY <4>1, RemoveEarlier
      <4>3. Kept(RemoveAt(r, j), P)
              = IF e \in P THEN Append(Kept(RemoveAt(x, j), P), e) ELSE Kept(RemoveAt(x, j), P)
        BY <4>2, KeptStep
      <4>4. /\ Len(Kept(x, P)) = Len(Kept(RemoveAt(x, j), P)) + IF x[j] \in P THEN 1 ELSE 0
            /\ x[j] \notin P => Kept(RemoveAt(x, j), P) = Kept(x, P)
        BY <1>2, <4>1
      <4>5. Append(RemoveAt(x, j), e) \in Seq(S)
        BY <4>2, AppendProperties
      <4> HIDE DEF r
      <4>6. Len(Kept(r, P)) = Len(Kept(RemoveAt(r, j), P)) + IF r[j] \in P THEN 1 ELSE 0
        <5> DEFINE m == Len(Kept(x, P))
                   n == Len(Kept(RemoveAt(x, j), P))
        <5>1. m \in Nat /\ n \in Nat /\ m = n + IF x[j] \in P THEN 1 ELSE 0
          BY <2>3, <4>2, <4>4
        <5>2. /\ Len(Kept(r, P)) = IF e \in P THEN m + 1 ELSE m
              /\ Len(Kept(RemoveAt(r, j), P)) = IF e \in P THEN n + 1 ELSE n
          BY <2>2, <2>3, <4>2, <4>3
        <5> HIDE DEF m, n
        <5>3. CASE x[j] \in P
          BY <4>1, <5>1, <5>2, <5>3
        <5>4. CASE x[j] \notin P
          BY <4>1, <5>1, <5>2, <5>4
        <5> QED BY <5>3, <5>4
      <4>7. r[j] \notin P => Kept(RemoveAt(r, j), P) = Kept(r, P)
        BY <2>2, <4>1, <4>3, <4>4
      <4> QED BY <4>2, <4>5, <4>6, <4>7
    <3> QED BY <3>1, <3>2
  <2> QED BY <2>1, <2>4
<1>3. Seq(S) \subseteq T
  <2> HIDE DEF T
  <2> QED BY <1>1, <1>2, SeqsIn
<1> QED BY <1>3
\* A filter that everything passes keeps the list.
LEMMA KeptAll ==
  ASSUME NEW S, NEW P, S \subseteq P, NEW s \in Seq(S)
  PROVE  Kept(s, P) = s
<1> DEFINE T == {x \in Seq(S) : Kept(x, P) = x}
<1>1. <<>> \in T
  BY KeptEmpty, EmptySeq
<1>2. ASSUME NEW x \in Seq(S), NEW e \in S, x \in T PROVE Append(x, e) \in T
  <2>1. Kept(Append(x, e), P) = Append(x, e)
    BY <1>2, KeptStep
  <2> QED BY <2>1, AppendProperties
<1>3. Seq(S) \subseteq T
  <2> HIDE DEF T
  <2> QED BY <1>1, <1>2, SeqsIn
<1> QED BY <1>3

\* Removing an element makes a list shorter by one.
LEMMA RemoveLen ==
  ASSUME NEW S, NEW s \in Seq(S), NEW i \in 1 .. Len(s)
  PROVE  RemoveAt(s, i) \in Seq(S) /\ Len(RemoveAt(s, i)) + 1 = Len(s)
<1> DEFINE P == S
<1>1. /\ RemoveAt(s, i) \in Seq(S)
      /\ Len(Kept(s, P)) = Len(Kept(RemoveAt(s, i), P)) + IF s[i] \in P THEN 1 ELSE 0
  <2> HIDE DEF P
  <2>1. RemoveAt(s, i) \in Seq(S)
    BY KeptRemove
  <2>2. Len(Kept(s, P)) = Len(Kept(RemoveAt(s, i), P)) + IF s[i] \in P THEN 1 ELSE 0
    BY KeptRemove
  <2> QED BY <2>1, <2>2
<1>2. s[i] \in S
  BY ElementOfSeq
<1>3. Kept(s, S) = s /\ Kept(RemoveAt(s, i), S) = RemoveAt(s, i)
  BY <1>1, KeptAll
<1> QED BY <1>1, <1>2, <1>3
-----------------------------------------------------------------------------
(***************************************************************************)
(* The smallest and the largest of a set.                                  *)
(***************************************************************************)

\* A set of naturals that is not empty has a smallest element.
LEMMA MinIsMember ==
  ASSUME NEW S, S \subseteq Nat, S # {}
  PROVE  Min(S) \in S /\ \A n \in S : Min(S) <= n
<1>1. PICK m \in S : \A k \in S : ~ (<<k, m>> \in OpToRel(<, Nat))
  BY NatLessThanWellFounded, WFMin
<1>2. ASSUME NEW k \in S PROVE m <= k
  <2>1. k \in Nat /\ m \in Nat
    OBVIOUS
  <2>2. k < m => <<k, m>> \in OpToRel(<, Nat)
    BY <2>1 DEF OpToRel
  <2>3. ~ (k < m)
    BY <1>1, <2>2
  <2> QED BY <2>1, <2>3
<1> QED BY <1>2 DEF Min

\* A bounded set of naturals that is not empty has a largest element.
LEMMA MaxIsMember ==
  ASSUME NEW S, NEW bound \in Nat, S \subseteq 0 .. bound, S # {}
  PROVE  Max(S) \in S /\ \A n \in S : Max(S) >= n
<1> DEFINE R == {bound - n : n \in S}
<1>1. R \subseteq Nat /\ R # {}
  <2>1. ASSUME NEW n \in S PROVE bound - n \in Nat
    <3>1. n \in 0 .. bound
      OBVIOUS
    <3> QED BY <3>1
  <2> QED BY <2>1
<1>2. Min(R) \in R /\ \A n \in R : Min(R) <= n
  <2> HIDE DEF R
  <2> QED BY <1>1, MinIsMember
<1>3. PICK m \in S : Min(R) = bound - m
  BY <1>2
<1>4. \A n \in S : m >= n
  BY <1>2, <1>3
<1> QED BY <1>4 DEF Max
=============================================================================
