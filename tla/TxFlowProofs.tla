---------------------------- MODULE TxFlowProofs ----------------------------
(* For any number of shards, any limits and any scenario: the pool and the *)
(* proposer keep the transactions and their order, no transaction is in    *)
(* two requests, and the report of the client counts the replies rightly.  *)
EXTENDS TxFlow, SequenceTheorems, FiniteSetTheorems, WellFoundedInduction, TLAPS

-----------------------------------------------------------------------------
(* Induction over numbers and finite sets, stated with sets.               *)

\* A set of naturals has a least element.
LEMMA LeastNat ==
  ASSUME NEW T, T \subseteq Nat, T # {}
  PROVE  \E x \in T : \A y \in T : ~(y < x)
<1>1. IsWellFoundedOn(OpToRel(<,Nat), Nat)
  BY NatLessThanWellFounded
<1>2. \E x \in T : \A y \in T : ~(<<y, x>> \in OpToRel(<,Nat))
  BY <1>1, WFMin
<1> QED BY <1>2 DEF OpToRel

\* Induction over the naturals.
LEMMA NatSetInduction ==
  ASSUME NEW S, 0 \in S, \A i \in Nat : i \in S => i + 1 \in S
  PROVE  Nat \subseteq S
<1> SUFFICES ASSUME Nat \ S # {} PROVE FALSE
  OBVIOUS
<1>1. PICK x \in Nat \ S : \A y \in Nat \ S : ~(y < x)
  BY LeastNat
<1>2. x # 0 /\ x - 1 \in Nat
  BY <1>1
<1> QED BY <1>1, <1>2

\* A set of subsets of S that has a set whenever it has that set less any one
\* of its elements has them all.
LEMMA SubsetInduction ==
  ASSUME NEW S, IsFiniteSet(S), NEW C,
         \A s \in SUBSET S : (\A x \in s : s \ {x} \in C) => s \in C
  PROVE  SUBSET S \subseteq C
<1> DEFINE K == {k \in Nat : \A s \in SUBSET S : Cardinality(s) = k => s \in C}
<1>0. ASSUME NEW s \in SUBSET S
      PROVE  IsFiniteSet(s) /\ Cardinality(s) \in Nat
  BY FS_Subset, FS_CardinalityType
<1>1. 0 \in K
  <2>1. ASSUME NEW s \in SUBSET S, Cardinality(s) = 0 PROVE s \in C
    <3>1. s = {}
      BY <1>0, <2>1, FS_EmptySet
    <3> QED BY <3>1
  <2> QED BY <2>1
<1>2. ASSUME NEW k \in Nat, k \in K PROVE k + 1 \in K
  <2>1. ASSUME NEW s \in SUBSET S, Cardinality(s) = k + 1 PROVE s \in C
    <3>1. ASSUME NEW x \in s PROVE s \ {x} \in C
      <4>1. Cardinality(s \ {x}) = k
        BY <1>0, <2>1, FS_RemoveElement
      <4> QED BY <1>2, <4>1
    <3> QED BY <3>1
  <2> QED BY <2>1
<1>3. Nat \subseteq K
  <2> HIDE DEF K
  <2> QED BY <1>1, <1>2, NatSetInduction
<1> QED BY <1>0, <1>3

-----------------------------------------------------------------------------
(* Sums.                                                                   *)

\* What SumFunctionOnSet(w, S) makes of every subset of S.
AnyOf(s) == CHOOSE x \in s : TRUE
SumStep(w, g, s) == IF s = {} THEN 0 ELSE w[AnyOf(s)] + g[s \ {AnyOf(s)}]
Sums(w, S) == CHOOSE g : g = [s \in SUBSET S |-> SumStep(w, g, s)]

\* SumFunctionOnSet is the last of them.
LEMMA SumIsSums ==
  ASSUME NEW w, NEW S
  PROVE  SumFunctionOnSet(w, S) = Sums(w, S)[S]
BY DEF SumFunctionOnSet, FoldFunctionOnSet, MapThenFoldSet, Sums, SumStep, AnyOf

LEMMA AnyOfIn ==
  ASSUME NEW s, s # {}
  PROVE  AnyOf(s) \in s
BY DEF AnyOf

\* The recursion has a solution: one for the subsets of up to k + 1 elements
\* is made from one for those of up to k.
LEMMA SumsEquation ==
  ASSUME NEW S, IsFiniteSet(S), NEW w
  PROVE  Sums(w, S) = [s \in SUBSET S |-> SumStep(w, Sums(w, S), s)]
<1> DEFINE U(k) == {s \in SUBSET S : Cardinality(s) <= k}
           Sol(g, k) == g = [s \in U(k) |-> SumStep(w, g, s)]
           K == {k \in Nat : \E g : Sol(g, k)}
<1>1. ASSUME NEW s \in SUBSET S
      PROVE  IsFiniteSet(s) /\ Cardinality(s) \in Nat
  BY FS_Subset, FS_CardinalityType
<1>2. ASSUME NEW k \in Nat, NEW s \in U(k + 1), s # {}
      PROVE  s \ {AnyOf(s)} \in U(k)
  <2>1. AnyOf(s) \in s
    BY <1>2, AnyOfIn
  <2>2. Cardinality(s \ {AnyOf(s)}) = Cardinality(s) - 1
    BY <1>1, <2>1, FS_RemoveElement
  <2> QED BY <1>1, <2>2
<1>3. 0 \in K
  <2> DEFINE g == [s \in U(0) |-> 0]
  <2>1. ASSUME NEW s \in U(0) PROVE s = {}
    BY <1>1, FS_EmptySet
  <2>2. Sol(g, 0)
    BY <2>1 DEF SumStep
  <2> QED BY <2>2
<1>4. ASSUME NEW k \in Nat, k \in K PROVE k + 1 \in K
  <2>1. PICK g : Sol(g, k)
    BY <1>4
  <2> DEFINE h == [s \in U(k + 1) |-> SumStep(w, g, s)]
  <2>2. ASSUME NEW s \in U(k + 1) PROVE SumStep(w, g, s) = SumStep(w, h, s)
    <3>1. CASE s = {}
      BY <3>1 DEF SumStep
    <3>2. CASE s # {}
      <4> DEFINE t == s \ {AnyOf(s)}
      <4>1. t \in U(k) /\ t \in U(k + 1)
        BY <1>1, <1>2, <3>2
      <4>2. g[t] = SumStep(w, g, t)
        BY <2>1, <4>1
      <4>3. h[t] = SumStep(w, g, t)
        BY <4>1
      <4> HIDE DEF h
      <4> QED BY <3>2, <4>2, <4>3 DEF SumStep
    <3> QED BY <3>1, <3>2
  <2>3. h = [s \in U(k + 1) |-> SumStep(w, h, s)]
    BY <2>2
  <2> HIDE DEF h
  <2> QED BY <2>3
<1>5. Nat \subseteq K
  <2> HIDE DEF K
  <2> QED BY <1>3, <1>4, NatSetInduction
<1>6. PICK g : Sol(g, Cardinality(S))
  <2>1. Cardinality(S) \in Nat
    BY <1>1
  <2> QED BY <1>5, <2>1
<1>7. U(Cardinality(S)) = SUBSET S
  BY FS_Subset
<1>8. g = [s \in SUBSET S |-> SumStep(w, g, s)]
  BY <1>6, <1>7
<1> QED BY <1>8 DEF Sums

\* A sum of naturals is one, and any element may be taken out of it first.
LEMMA SumsSplit ==
  ASSUME NEW S, IsFiniteSet(S), NEW w, \A x \in S : w[x] \in Nat
  PROVE  /\ Sums(w, S)[{}] = 0
         /\ \A s \in SUBSET S : Sums(w, S)[s] \in Nat
         /\ \A s \in SUBSET S : \A x \in s : Sums(w, S)[s] = w[x] + Sums(w, S)[s \ {x}]
<1> DEFINE g == Sums(w, S)
<1>1. ASSUME NEW s \in SUBSET S PROVE g[s] = SumStep(w, g, s)
  <2>1. g = [t \in SUBSET S |-> SumStep(w, g, t)]
    BY SumsEquation
  <2> HIDE DEF g
  <2> QED BY <2>1
<1> HIDE DEF g
<1>2. g[{}] = 0
  BY <1>1 DEF SumStep
<1>3. ASSUME NEW s \in SUBSET S, s # {}
      PROVE  \E x \in s : g[s] = w[x] + g[s \ {x}]
  BY <1>1, <1>3, AnyOfIn DEF SumStep
<1> DEFINE N1 == {s \in SUBSET S : g[s] \in Nat}
           C == {s \in SUBSET S : \A x \in s : g[s] = w[x] + g[s \ {x}]}
<1>4. SUBSET S \subseteq N1
  <2>1. ASSUME NEW s \in SUBSET S, \A x \in s : s \ {x} \in N1
        PROVE  s \in N1
    <3>1. CASE s = {}
      BY <1>2, <3>1
    <3>2. CASE s # {}
      <4>1. PICK x \in s : g[s] = w[x] + g[s \ {x}]
        BY <1>3, <3>2
      <4>2. g[s \ {x}] \in Nat /\ w[x] \in Nat
        BY <2>1
      <4> QED BY <4>1, <4>2
    <3> QED BY <3>1, <3>2
  <2> HIDE DEF N1
  <2> QED BY <2>1, SubsetInduction
<1>5. SUBSET S \subseteq C
  <2>1. ASSUME NEW s \in SUBSET S, \A x \in s : s \ {x} \in C, NEW x \in s
        PROVE  g[s] = w[x] + g[s \ {x}]
    <3>1. PICK c \in s : g[s] = w[c] + g[s \ {c}]
      BY <1>3
    <3>2. CASE x = c
      BY <3>1, <3>2
    <3>3. CASE x # c
      <4> DEFINE rest == g[(s \ {c}) \ {x}]
      <4>1. g[s \ {c}] = w[x] + rest
        BY <2>1, <3>3
      <4>2. (s \ {x}) \ {c} = (s \ {c}) \ {x}
        OBVIOUS
      <4>3. g[s \ {x}] = w[c] + rest
        BY <2>1, <3>3, <4>2
      <4>4. rest \in Nat
        BY <1>4
      <4>5. w[x] \in Nat /\ w[c] \in Nat
        OBVIOUS
      <4> HIDE DEF rest
      <4> QED BY <3>1, <4>1, <4>3, <4>4, <4>5
    <3> QED BY <3>2, <3>3
  <2>2. ASSUME NEW s \in SUBSET S, \A x \in s : s \ {x} \in C
        PROVE  s \in C
    BY <2>1, <2>2
  <2> HIDE DEF C
  <2> QED BY <2>2, SubsetInduction
<1> QED BY <1>2, <1>4, <1>5 DEF g

\* A sum over a part is at most the whole.
LEMMA SumsGrow ==
  ASSUME NEW S, IsFiniteSet(S), NEW w, \A x \in S : w[x] \in Nat,
         NEW t \in SUBSET S
  PROVE  Sums(w, S)[t] <= Sums(w, S)[S]
<1> DEFINE g == Sums(w, S)
           C == {s \in SUBSET S : \A r \in SUBSET s : g[r] <= g[s]}
<1>1. /\ \A s \in SUBSET S : g[s] \in Nat
      /\ \A s \in SUBSET S : \A x \in s : g[s] = w[x] + g[s \ {x}]
  BY SumsSplit
<1> HIDE DEF g
<1>2. ASSUME NEW s \in SUBSET S, \A x \in s : s \ {x} \in C, NEW r \in SUBSET s
      PROVE  g[r] <= g[s]
  <2>1. CASE r = s
    BY <1>1, <2>1
  <2>2. CASE r # s
    <3>1. PICK x \in s : x \notin r
      BY <2>2
    <3>2. r \in SUBSET (s \ {x}) /\ s \ {x} \in C
      BY <1>2, <3>1
    <3>3. g[r] <= g[s \ {x}]
      BY <3>2
    <3>4. g[s] = w[x] + g[s \ {x}] /\ w[x] \in Nat
      BY <1>1
    <3>5. g[r] \in Nat /\ g[s \ {x}] \in Nat
      BY <1>1
    <3> QED BY <3>3, <3>4, <3>5
  <2> QED BY <2>1, <2>2
<1>3. ASSUME NEW s \in SUBSET S, \A x \in s : s \ {x} \in C
      PROVE  s \in C
  BY <1>2, <1>3
<1>4. SUBSET S \subseteq C
  <2> HIDE DEF C
  <2> QED BY <1>3, SubsetInduction
<1> QED BY <1>4 DEF g

\* Sums of equal weights over sets that an injection relates.
LEMMA SumsImage ==
  ASSUME NEW S, IsFiniteSet(S), NEW w, \A x \in S : w[x] \in Nat,
         NEW T, IsFiniteSet(T), NEW v, \A y \in T : v[y] \in Nat,
         NEW f \in [S -> T], \A x, y \in S : f[x] = f[y] => x = y,
         \A x \in S : w[x] = v[f[x]],
         NEW t \in SUBSET S
  PROVE  Sums(w, S)[t] = Sums(v, T)[{f[x] : x \in t}]
<1> DEFINE g == Sums(w, S)
           h == Sums(v, T)
           Im(s) == {f[x] : x \in s}
           C == {s \in SUBSET S : g[s] = h[Im(s)]}
<1>1. /\ g[{}] = 0
      /\ \A s \in SUBSET S : g[s] \in Nat
      /\ \A s \in SUBSET S : \A x \in s : g[s] = w[x] + g[s \ {x}]
  BY SumsSplit
<1>2. /\ h[{}] = 0
      /\ \A s \in SUBSET T : \A y \in s : h[s] = v[y] + h[s \ {y}]
  BY SumsSplit
<1> HIDE DEF g, h
<1>3. ASSUME NEW s \in SUBSET S, \A x \in s : s \ {x} \in C
      PROVE  s \in C
  <2>1. CASE s = {}
    <3>1. Im(s) = {}
      BY <2>1
    <3> QED BY <1>1, <1>2, <2>1, <3>1
  <2>2. CASE s # {}
    <3>1. PICK x \in s : TRUE
      BY <2>2
    <3>2. Im(s) \in SUBSET T /\ f[x] \in Im(s)
      OBVIOUS
    <3>3. Im(s \ {x}) = Im(s) \ {f[x]}
      OBVIOUS
    <3>4. g[s] = w[x] + g[s \ {x}]
      BY <1>1
    <3>5. h[Im(s)] = v[f[x]] + h[Im(s) \ {f[x]}]
      BY <1>2, <3>2
    <3>6. g[s \ {x}] = h[Im(s \ {x})]
      BY <1>3
    <3> QED BY <3>3, <3>4, <3>5, <3>6
  <2> QED BY <2>1, <2>2
<1>4. SUBSET S \subseteq C
  <2> HIDE DEF C
  <2> QED BY <1>3, SubsetInduction
<1> QED BY <1>4 DEF g, h

LEMMA SumNatural ==
  ASSUME NEW S, IsFiniteSet(S), NEW w, \A x \in S : w[x] \in Nat
  PROVE  SumFunctionOnSet(w, S) \in Nat
BY SumIsSums, SumsSplit

\* The sum over a set that is embedded into another one is not larger.
LEMMA SumInjection ==
  ASSUME NEW S, IsFiniteSet(S), NEW w, \A x \in S : w[x] \in Nat,
         NEW T, IsFiniteSet(T), NEW v, \A y \in T : v[y] \in Nat,
         NEW f \in [S -> T], \A x, y \in S : f[x] = f[y] => x = y,
         \A x \in S : w[x] = v[f[x]]
  PROVE  SumFunctionOnSet(w, S) <= SumFunctionOnSet(v, T)
<1>1. Sums(w, S)[S] = Sums(v, T)[{f[x] : x \in S}]
  BY SumsImage
<1>2. {f[x] : x \in S} \in SUBSET T
  OBVIOUS
<1>3. Sums(v, T)[{f[x] : x \in S}] <= Sums(v, T)[T]
  BY <1>2, SumsGrow
<1> QED BY <1>1, <1>3, SumIsSums

\* The same weights over a part of the set.
LEMMA SumsAgree ==
  ASSUME NEW T, IsFiniteSet(T), NEW v, \A y \in T : v[y] \in Nat,
         NEW S \in SUBSET T, NEW w, \A x \in S : w[x] = v[x]
  PROVE  SumFunctionOnSet(w, S) = Sums(v, T)[S]
<1> DEFINE f == [x \in S |-> x]
<1>1. IsFiniteSet(S) /\ f \in [S -> T] /\ \A x, y \in S : f[x] = f[y] => x = y
  BY FS_Subset
<1>2. \A x \in S : w[x] \in Nat /\ w[x] = v[f[x]]
  OBVIOUS
<1>3. {f[x] : x \in S} = S
  OBVIOUS
<1> HIDE DEF f
<1>4. Sums(w, S)[S] = Sums(v, T)[{f[x] : x \in S}]
  BY <1>1, <1>2, SumsImage
<1> QED BY <1>3, <1>4, SumIsSums

LEMMA SumEmpty ==
  ASSUME NEW w
  PROVE  SumFunctionOnSet(w, {}) = 0
<1>1. IsFiniteSet({})
  BY FS_EmptySet
<1> QED BY <1>1, SumIsSums, SumsSplit

\* One element taken out.
LEMMA SumWithout ==
  ASSUME NEW T, IsFiniteSet(T), NEW v, \A y \in T : v[y] \in Nat, NEW z \in T,
         NEW w, \A x \in T \ {z} : w[x] = v[x]
  PROVE  SumFunctionOnSet(v, T) = v[z] + SumFunctionOnSet(w, T \ {z})
<1>1. T \ {z} \in SUBSET T
  OBVIOUS
<1>2. SumFunctionOnSet(w, T \ {z}) = Sums(v, T)[T \ {z}]
  BY <1>1, SumsAgree
<1>3. Sums(v, T)[T] = v[z] + Sums(v, T)[T \ {z}]
  BY SumsSplit
<1> QED BY <1>2, <1>3, SumIsSums

\* Weights of 0 added.
LEMMA SumZeros ==
  ASSUME NEW T, IsFiniteSet(T), NEW v, \A y \in T : v[y] \in Nat,
         NEW S \in SUBSET T, NEW w, \A x \in S : w[x] = v[x],
         \A x \in T \ S : v[x] = 0
  PROVE  SumFunctionOnSet(v, T) = SumFunctionOnSet(w, S)
<1> DEFINE g == Sums(v, T)
           C == {s \in SUBSET T : g[s] = g[s \cap S]}
<1>1. /\ \A s \in SUBSET T : g[s] \in Nat
      /\ \A s \in SUBSET T : \A x \in s : g[s] = v[x] + g[s \ {x}]
  <2>1. ASSUME NEW s \in SUBSET T PROVE g[s] \in Nat
    BY SumsSplit
  <2>2. ASSUME NEW s \in SUBSET T, NEW x \in s PROVE g[s] = v[x] + g[s \ {x}]
    BY SumsSplit
  <2> QED BY <2>1, <2>2
<1> HIDE DEF g
<1>2. ASSUME NEW s \in SUBSET T, \A x \in s : s \ {x} \in C
      PROVE  s \in C
  <2>1. CASE s \subseteq S
    <3>1. s \cap S = s
      BY <2>1
    <3> QED BY <3>1
  <2>2. CASE ~(s \subseteq S)
    <3>1. PICK x \in s : x \notin S
      BY <2>2
    <3>2. (s \ {x}) \cap S = s \cap S
      BY <3>1
    <3>3. g[s] = v[x] + g[s \ {x}] /\ v[x] = 0 /\ g[s \ {x}] \in Nat
      BY <1>1, <3>1
    <3>4. g[s \ {x}] = g[(s \ {x}) \cap S]
      BY <1>2
    <3>5. g[s] = g[s \ {x}]
      BY <3>3
    <3> QED BY <3>2, <3>4, <3>5
  <2> QED BY <2>1, <2>2
<1>3. SUBSET T \subseteq C
  <2> HIDE DEF C
  <2> QED BY <1>2, SubsetInduction
<1>4. g[T] = g[S]
  <2>1. T \in C /\ T \cap S = S
    BY <1>3
  <2> QED BY <2>1
<1>5. SumFunctionOnSet(w, S) = g[S]
  BY SumsAgree DEF g
<1> QED BY <1>4, <1>5, SumIsSums DEF g

-----------------------------------------------------------------------------
(* The transactions of one shard in the order they were generated.         *)

IsInOrder(q, S) ==
  q \in [1..Cardinality(S) -> S] /\ \A i, j \in DOMAIN q : i < j => q[i] < q[j]

LEMMA OrderExists ==
  ASSUME NEW a \in Nat, NEW n \in Nat, NEW S \in SUBSET (a + 1..a + n)
  PROVE  \E q : IsInOrder(q, S)
<1> DEFINE K == {m \in Nat : \A T \in SUBSET (a + 1..a + m) : \E q : IsInOrder(q, T)}
<1>0. ASSUME NEW m \in Nat, NEW T \in SUBSET (a + 1..a + m)
      PROVE  IsFiniteSet(T) /\ Cardinality(T) \in Nat
  <2>1. IsFiniteSet(a + 1..a + m)
    BY FS_Interval
  <2> QED BY <2>1, FS_Subset, FS_CardinalityType
<1>1. 0 \in K
  <2>1. ASSUME NEW T \in SUBSET (a + 1..a + 0) PROVE \E q : IsInOrder(q, T)
    <3>1. T = {}
      OBVIOUS
    <3>2. Cardinality(T) = 0
      BY <3>1, FS_EmptySet
    <3> DEFINE q == [i \in 1..0 |-> 0]
    <3>3. IsInOrder(q, T)
      BY <3>2 DEF IsInOrder
    <3> QED BY <3>3
  <2> QED BY <2>1
<1>2. ASSUME NEW m \in Nat, m \in K PROVE m + 1 \in K
  <2>1. ASSUME NEW T \in SUBSET (a + 1..a + (m + 1)) PROVE \E q : IsInOrder(q, T)
    <3> DEFINE z == a + (m + 1)
               R == T \ {z}
    <3>1. R \in SUBSET (a + 1..a + m)
      OBVIOUS
    <3>2. PICK p : IsInOrder(p, R)
      BY <1>2, <3>1
    <3>3. CASE z \notin T
      <4>1. R = T
        BY <3>3
      <4> QED BY <3>2, <4>1
    <3>4. CASE z \in T
      <4> DEFINE c == Cardinality(R)
                 q == [i \in 1..c + 1 |-> IF i = c + 1 THEN z ELSE p[i]]
      <4>1. c \in Nat /\ Cardinality(T) = c + 1
        <5>1. T = R \cup {z} /\ z \notin R
          BY <3>4
        <5>2. IsFiniteSet(R) /\ c \in Nat
          BY <1>0, <3>1
        <5> HIDE DEF R
        <5> QED BY <5>1, <5>2, FS_AddElement
      <4>2. p \in [1..c -> R] /\ \A i, j \in 1..c : i < j => p[i] < p[j]
        BY <3>2 DEF IsInOrder
      <4>3. \A x \in R : x \in T /\ x \in Nat /\ x < z
        BY <3>1
      <4> HIDE DEF c, R
      <4>4. q \in [1..c + 1 -> T]
        BY <3>4, <4>1, <4>2, <4>3
      <4>5. ASSUME NEW i \in 1..c + 1, NEW j \in 1..c + 1, i < j
            PROVE  q[i] < q[j]
        <5>1. i \in 1..c
          BY <4>1, <4>5
        <5>2. q[i] = p[i] /\ p[i] \in R
          BY <4>1, <4>2, <5>1
        <5>3. CASE j = c + 1
          BY <4>3, <5>2, <5>3
        <5>4. CASE j # c + 1
          <6>1. j \in 1..c
            BY <4>1, <5>4
          <6>2. q[j] = p[j]
            BY <4>1, <6>1
          <6> QED BY <4>2, <4>5, <5>1, <5>2, <6>1, <6>2
        <5> QED BY <5>3, <5>4
      <4>6. IsInOrder(q, T)
        BY <4>1, <4>4, <4>5 DEF IsInOrder
      <4> QED BY <4>6
    <3> QED BY <3>3, <3>4
  <2> QED BY <2>1
<1>3. Nat \subseteq K
  <2> HIDE DEF K
  <2> QED BY <1>1, <1>2, NatSetInduction
<1> QED BY <1>3

\* What the generator sends to a shard is a sequence of different
\* transactions of the tick.
LEMMA InOrderSequence ==
  ASSUME NEW a \in Nat, NEW n \in Nat, NEW S \in SUBSET (a + 1..a + n)
  PROVE  /\ InOrder(S) \in Seq(Nat)
         /\ \A i \in DOMAIN InOrder(S) : InOrder(S)[i] \in S
         /\ \A i, j \in DOMAIN InOrder(S) : InOrder(S)[i] = InOrder(S)[j] => i = j
<1> DEFINE q == InOrder(S)
<1>1. q \in [1..Cardinality(S) -> S] /\ \A i, j \in DOMAIN q : i < j => q[i] < q[j]
  <2>1. \E p \in [1..Cardinality(S) -> S] : \A i, j \in DOMAIN p : i < j => p[i] < p[j]
    BY OrderExists DEF IsInOrder
  <2> QED BY <2>1 DEF InOrder
<1> HIDE DEF q
<1>2. Cardinality(S) \in Nat
  <2>1. IsFiniteSet(a + 1..a + n)
    BY FS_Interval
  <2> QED BY <2>1, FS_Subset, FS_CardinalityType
<1>3. \A x \in S : x \in Nat
  OBVIOUS
<1>4. q \in Seq(Nat)
  <2>1. q \in [1..Cardinality(S) -> Nat]
    BY <1>1, <1>3
  <2> QED BY <1>2, <2>1
<1>5. ASSUME NEW i \in DOMAIN q, NEW j \in DOMAIN q, q[i] = q[j] PROVE i = j
  <2>0. DOMAIN q = 1..Cardinality(S)
    BY <1>1
  <2>1. i \in Nat /\ j \in Nat /\ q[i] \in Nat /\ q[j] \in Nat
    <3>1. q[i] \in S /\ q[j] \in S
      BY <1>1, <2>0, Zenon
    <3>2. q[i] \in Nat /\ q[j] \in Nat
      BY <1>3, <3>1, Zenon
    <3> QED BY <1>2, <2>0, <3>2
  <2>2. ~(i < j) /\ ~(j < i)
    BY <1>1, <1>5, <2>1
  <2> QED BY <2>1, <2>2
<1> QED BY <1>1, <1>4, <1>5 DEF q

-----------------------------------------------------------------------------
(* Order in the pool.                                                      *)

\* What the order of the transactions rests on: the four places a
\* transaction passes are sequences, and the order itself.
FlowInv ==
  /\ pool \in [Shard -> Seq(Nat)] /\ taken \in [Shard -> Seq(Nat)]
  /\ arrived \in [Shard -> Seq(Nat)] /\ proposed \in [Shard -> Seq(Nat)]
  /\ PoolKeepsOrder

flowVars == <<pool, taken, arrived, proposed>>

LEMMA NatConcat ==
  ASSUME NEW a \in Seq(Nat), NEW b \in Seq(Nat), NEW c \in Seq(Nat)
  PROVE  (a \o b) \o c = a \o (b \o c)
<1>1. a \o b \in Seq(Nat) /\ b \o c \in Seq(Nat)
  BY ConcatProperties
<1>2. (a \o b) \o c \in Seq(Nat) /\ a \o (b \o c) \in Seq(Nat)
  BY <1>1, ConcatProperties
<1>3. Len((a \o b) \o c) = Len(a \o (b \o c))
  BY <1>1, ConcatProperties, LenProperties
<1>4. ASSUME NEW i \in 1..Len((a \o b) \o c)
      PROVE  ((a \o b) \o c)[i] = (a \o (b \o c))[i]
  BY <1>1, ConcatProperties, LenProperties
<1> QED BY <1>2, <1>3, <1>4, SeqEqual

\* What the pool gives is there: GetEnoughTxs and GetBatchofTxs never ask for
\* more than its length.
LEMMA CountFits ==
  ASSUME NEW txs \in Seq(Nat)
  PROVE  Count(txs) \in 0..Len(txs)
<1>1. Len(txs) \in Nat
  BY LenProperties
<1>2. GetEnoughTxs(txs) \in 0..Len(txs)
  BY <1>1, FlowAssumption DEF GetEnoughTxs, GetEnough
<1>3. GetBatchofTxs(txs) \in 0..Len(txs)
  BY <1>1, FlowAssumption DEF GetBatchofTxs
<1> QED BY <1>2, <1>3 DEF Count

\* A sequence cut in two is the concatenation of its parts.
LEMMA CutInTwo ==
  ASSUME NEW txs \in Seq(Nat), NEW n \in 0..Len(txs)
  PROVE  /\ SubSeq(txs, 1, n) \in Seq(Nat)
         /\ SubSeq(txs, n + 1, Len(txs)) \in Seq(Nat)
         /\ SubSeq(txs, 1, n) \o SubSeq(txs, n + 1, Len(txs)) = txs
<1>1. Len(txs) \in Nat /\ n \in Nat /\ n <= Len(txs)
      /\ \A i \in 1..Len(txs) : txs[i] \in Nat
  BY LenProperties, ElementOfSeq
<1>2. SubSeq(txs, 1, n) \in Seq(Nat) /\ Len(SubSeq(txs, 1, n)) = n
      /\ \A i \in 1..n : SubSeq(txs, 1, n)[i] = txs[i]
  <2>1. \A i \in 1..n : txs[i] \in Nat
    BY <1>1
  <2> QED BY <1>1, <2>1, SubSeqProperties
<1> DEFINE rest == SubSeq(txs, n + 1, Len(txs))
<1>3. rest \in Seq(Nat) /\ Len(rest) = Len(txs) - n
      /\ \A i \in 1..Len(txs) - n : rest[i] = txs[n + i]
  <2>1. \A i \in n + 1..Len(txs) : txs[i] \in Nat
    BY <1>1
  <2> QED BY <1>1, <2>1, SubSeqProperties
<1> HIDE DEF rest
<1>4. /\ SubSeq(txs, 1, n) \o rest \in Seq(Nat)
      /\ Len(SubSeq(txs, 1, n) \o rest) = Len(txs)
      /\ \A i \in 1..Len(txs) : (SubSeq(txs, 1, n) \o rest)[i] = txs[i]
  BY <1>1, <1>2, <1>3, ConcatProperties
<1>5. SubSeq(txs, 1, n) \o rest = txs
  BY <1>4, SeqEqual
<1> QED BY <1>2, <1>3, <1>5 DEF rest

LEMMA FlowInit == Init => FlowInv
<1> SUFFICES ASSUME Init PROVE FlowInv
  OBVIOUS
<1>1. <<>> \in Seq(Nat) /\ <<>> \o <<>> \o <<>> = <<>>
  BY EmptySeq, ConcatEmptySeq
<1> QED BY <1>1 DEF Init, FlowInv, PoolKeepsOrder

\* A step of anything but the view's inject handler and proposer.
LEMMA FlowStutters ==
  ASSUME FlowInv, UNCHANGED flowVars
  PROVE  FlowInv'
BY DEF FlowInv, PoolKeepsOrder, flowVars

LEMMA FlowInject ==
  ASSUME FlowInv, NEW m \in inject, HandleInject(m)
  PROVE  FlowInv'
<1> DEFINE more == Decode(m.txs)
<1>1. more \in Seq(Nat)
  BY EmptySeq DEF Decode
<1> HIDE DEF more
<1>2. /\ pool' = [pool EXCEPT ![m.sid] = @ \o more]
      /\ arrived' = [arrived EXCEPT ![m.sid] = @ \o more]
      /\ UNCHANGED <<taken, proposed>>
  BY DEF HandleInject, AddTxs, more
<1>3. pool' \in [Shard -> Seq(Nat)] /\ arrived' \in [Shard -> Seq(Nat)]
  BY <1>1, <1>2, ConcatProperties DEF FlowInv
<1>4. ASSUME NEW s \in Shard
      PROVE  proposed'[s] \o taken'[s] \o pool'[s] = arrived'[s]
  <2>1. CASE s # m.sid
    BY <1>2, <2>1 DEF FlowInv, PoolKeepsOrder
  <2>2. CASE s = m.sid
    <3>1. pool'[s] = pool[s] \o more /\ arrived'[s] = arrived[s] \o more
      BY <1>2, <2>2 DEF FlowInv
    <3>2. proposed[s] \o taken[s] \in Seq(Nat) /\ pool[s] \in Seq(Nat)
      BY ConcatProperties DEF FlowInv
    <3>3. (proposed[s] \o taken[s]) \o (pool[s] \o more)
          = ((proposed[s] \o taken[s]) \o pool[s]) \o more
      BY <1>1, <3>2, NatConcat
    <3> QED BY <1>2, <3>1, <3>3 DEF FlowInv, PoolKeepsOrder
  <2> QED BY <2>1, <2>2
<1> QED BY <1>2, <1>3, <1>4 DEF FlowInv, PoolKeepsOrder

LEMMA FlowTake ==
  ASSUME FlowInv, NEW s \in Shard, TakeTxs(s)
  PROVE  FlowInv'
<1> DEFINE n == Count(pool[s])
           first == SubSeq(pool[s], 1, n)
           rest == SubSeq(pool[s], n + 1, Len(pool[s]))
<1>1. /\ taken[s] = <<>>
      /\ taken' = [taken EXCEPT ![s] = first]
      /\ pool' = [pool EXCEPT ![s] = rest]
      /\ UNCHANGED <<arrived, proposed>>
  BY DEF TakeTxs
<1>2. pool[s] \in Seq(Nat) /\ proposed[s] \in Seq(Nat)
  BY DEF FlowInv
<1>3. n \in 0..Len(pool[s])
  BY <1>2, CountFits
<1> HIDE DEF n
<1>4. first \in Seq(Nat) /\ rest \in Seq(Nat) /\ first \o rest = pool[s]
  BY <1>2, <1>3, CutInTwo
<1> HIDE DEF first, rest
<1>5. taken' \in [Shard -> Seq(Nat)] /\ pool' \in [Shard -> Seq(Nat)]
  BY <1>1, <1>4 DEF FlowInv
<1>6. (proposed[s] \o first) \o rest = (proposed[s] \o taken[s]) \o pool[s]
  <2>1. (proposed[s] \o first) \o rest = proposed[s] \o (first \o rest)
    BY <1>2, <1>4, NatConcat
  <2>2. proposed[s] \o taken[s] = proposed[s]
    BY <1>1, <1>2, ConcatEmptySeq
  <2> QED BY <1>4, <2>1, <2>2
<1>7. ASSUME NEW t \in Shard
      PROVE  proposed'[t] \o taken'[t] \o pool'[t] = arrived'[t]
  <2>1. CASE t # s
    BY <1>1, <2>1 DEF FlowInv, PoolKeepsOrder
  <2>2. CASE t = s
    <3>1. taken'[s] = first /\ pool'[s] = rest
      BY <1>1 DEF FlowInv
    <3> QED BY <1>1, <1>6, <2>2, <3>1 DEF FlowInv, PoolKeepsOrder
  <2> QED BY <2>1, <2>2
<1> QED BY <1>1, <1>5, <1>7 DEF FlowInv, PoolKeepsOrder

LEMMA FlowPropose ==
  ASSUME FlowInv, NEW s \in Shard, Propose(s)
  PROVE  FlowInv'
<1>1. /\ proposed' = [proposed EXCEPT ![s] = @ \o taken[s]]
      /\ taken' = [taken EXCEPT ![s] = <<>>]
      /\ UNCHANGED <<pool, arrived>>
  BY DEF Propose
<1>2. pool[s] \in Seq(Nat) /\ proposed[s] \in Seq(Nat) /\ taken[s] \in Seq(Nat)
  BY DEF FlowInv
<1>3. proposed[s] \o taken[s] \in Seq(Nat) /\ <<>> \in Seq(Nat)
  BY <1>2, ConcatProperties, EmptySeq
<1>4. proposed' \in [Shard -> Seq(Nat)] /\ taken' \in [Shard -> Seq(Nat)]
  BY <1>1, <1>3 DEF FlowInv
<1>5. (proposed[s] \o taken[s]) \o <<>> = proposed[s] \o taken[s]
  BY <1>3, ConcatEmptySeq
<1>6. ASSUME NEW t \in Shard
      PROVE  proposed'[t] \o taken'[t] \o pool'[t] = arrived'[t]
  <2>1. CASE t # s
    BY <1>1, <2>1 DEF FlowInv, PoolKeepsOrder
  <2>2. CASE t = s
    <3>1. proposed'[s] = proposed[s] \o taken[s] /\ taken'[s] = <<>>
      BY <1>1 DEF FlowInv
    <3> QED BY <1>1, <1>5, <2>2, <3>1 DEF FlowInv, PoolKeepsOrder
  <2> QED BY <2>1, <2>2
<1> QED BY <1>1, <1>4, <1>6 DEF FlowInv, PoolKeepsOrder

\* setup.shards only narrows the shards of a scenario down.
LEMMA FlowNext ==
  ASSUME FlowInv, setup.shards \subseteq Shard, [Next]_vars
  PROVE  FlowInv'
<1>1. CASE UNCHANGED vars
  <2>1. UNCHANGED flowVars
    BY <1>1 DEF vars, viewVars, flowVars
  <2> QED BY <2>1, FlowStutters
<1>2. CASE Generate
  <2>1. UNCHANGED flowVars
    BY <1>2 DEF Generate, GenReady, GenTick, GenStop, viewVars, flowVars
  <2> QED BY <2>1, FlowStutters
<1>3. CASE Lose
  <2>1. UNCHANGED flowVars
    BY <1>3 DEF Lose, viewVars, flowVars
  <2> QED BY <2>1, FlowStutters
<1>4. CASE Measure
  <2>1. UNCHANGED flowVars
    BY <1>4 DEF Measure, NewMeasureAddon, SecondPasses, MeasureStop, WriteResult,
       HandleReply, HandleReplyStep, viewVars, flowVars
  <2> QED BY <2>1, FlowStutters
<1>5. CASE Interrupt
  <2>1. UNCHANGED flowVars
    BY <1>5 DEF Interrupt, viewVars, flowVars
  <2> QED BY <2>1, FlowStutters
<1>6. ASSUME NEW m \in inject, HandleInject(m) PROVE FlowInv'
  BY <1>6, FlowInject
<1>7. ASSUME NEW s \in Shard, Pbft(s) \/ StopView(s) PROVE FlowInv'
  <2>1. UNCHANGED flowVars
    BY <1>7 DEF Pbft, PbftDispatch, PbftApply, PbftApplyAgain, StopView, viewVars,
       flowVars
  <2> QED BY <2>1, FlowStutters
<1> QED BY <1>1, <1>2, <1>3, <1>4, <1>5, <1>6, <1>7, FlowTake, FlowPropose DEF Next

\* The scenario is fixed at start.
LEMMA SetupFixed == ASSUME [Next]_vars PROVE setup' = setup
BY DEF Next, vars, Generate, GenReady, GenTick, GenStop, Lose, Measure,
   NewMeasureAddon, SecondPasses, MeasureStop, WriteResult, HandleReply,
   HandleReplyStep, Interrupt, HandleInject, TakeTxs, Propose, Pbft, PbftDispatch,
   PbftApply, PbftApplyAgain, StopView

\* PoolKeepsOrder holds in every behaviour: between handleInject and the
\* proposal to PBFT no transaction is lost, doubled or overtaken, whatever the
\* limits of the pool and however injections and proposals interleave.
THEOREM FlowKeepsOrder == Spec => []PoolKeepsOrder
<1> DEFINE Inv == FlowInv /\ setup.shards \subseteq Shard
<1>1. Init => Inv
  <2>1. Init => setup.shards \subseteq Shard
    BY FlowAssumption DEF Init, Scenario
  <2> QED BY <2>1, FlowInit
<1>2. Inv /\ [Next]_vars => Inv'
  BY FlowNext, SetupFixed
<1>3. Inv => PoolKeepsOrder
  BY DEF FlowInv
<1> QED BY <1>1, <1>2, <1>3, PTL DEF Spec

-----------------------------------------------------------------------------
(* Types.                                                                  *)

ReplyMsg == [sid : Shard, txs : Seq(Nat), copy : {1, 2}, ReqQueueLen : Nat]
Handler == [rep : ReplyMsg, next : Nat, last : Nat]

\* TypeOK, and what it needs: the generator counts in whole ticks, and
\* replies are replies on the network and in the hands of HandleReply.
WholeTicks == \E k \in 0..setup.ticks : sent = k * Speed
TypeInv ==
  TypeOK /\ WholeTicks /\ replies \subseteq ReplyMsg /\ handling \subseteq Handler

LEMMA ScenarioTyped ==
  ASSUME setup \in Scenarios
  PROVE  /\ setup.shards \subseteq Shard /\ setup.ticks \in Nat
         /\ Speed \in Nat \ {0} /\ setup.ticks * Speed \in Nat
<1>1. setup \in Scenario
  BY FlowAssumption
<1>2. setup.shards \subseteq Shard /\ setup.ticks \in Nat
  BY <1>1 DEF Scenario
<1> QED BY <1>2, FlowAssumption

LEMMA TypeInit == Init => TypeInv
<1> SUFFICES ASSUME Init PROVE TypeInv
  OBVIOUS
<1>1. setup \in Scenarios
  BY DEF Init
<1>2. Speed \in Nat /\ setup.ticks \in Nat /\ setup.ticks * Speed \in Nat
  BY <1>1, ScenarioTyped
<1>3. sent = 0 /\ sent \in 0..setup.ticks * Speed
  BY <1>2 DEF Init
<1>4. WholeTicks
  <2>1. 0 \in 0..setup.ticks /\ sent = 0 * Speed
    BY <1>2, <1>3
  <2> QED BY <2>1 DEF WholeTicks
<1>5. <<>> \in Seq(Nat) /\ <<>> \in Seq(Seq(Nat))
  BY EmptySeq
<1>6. Len(MeasureMethod) = 3
  BY DEF MeasureMethod
<1>7. /\ clientDone \in BOOLEAN /\ viewDone \in [Shard -> BOOLEAN]
      /\ genPc \in {"wait", "send", "end"} /\ inject = {} /\ replies = {} /\ handling = {}
  BY DEF Init
<1>8. /\ pool \in [Shard -> Seq(Nat)] /\ taken \in [Shard -> Seq(Nat)]
      /\ arrived \in [Shard -> Seq(Nat)] /\ proposed \in [Shard -> Seq(Nat)]
  BY <1>5 DEF Init
<1>9. /\ requestQueue \in [Shard -> Seq(Seq(Nat))]
      /\ current \in [Shard -> Seq(Seq(Nat))]
      /\ applied \in [Shard -> SUBSET (Seq(Nat) \X {1, 2})]
  BY <1>5 DEF Init
<1>10. /\ measureAddons \in 0..Len(MeasureMethod) /\ second \in Nat
       /\ TPS \in Seq(Nat) /\ writePc \in 0..Len(MeasureMethod) + 1
  BY <1>5, <1>6 DEF Init
<1> QED BY <1>1, <1>3, <1>4, <1>7, <1>8, <1>9, <1>10 DEF TypeOK, TypeInv

\* One tick of the generator.
LEMMA TypeGenTick ==
  ASSUME TypeInv, NEW f \in [1..Speed -> setup.shards], GenTick(f)
  PROVE  TypeInv'
<1>1. setup \in Scenarios /\ sent \in Nat /\ inject \subseteq [sid : Shard, txs : Seq(Nat)]
  BY ScenarioTyped DEF TypeInv, TypeOK
<1>2. setup.shards \subseteq Shard /\ setup.ticks \in Nat /\ Speed \in Nat \ {0}
  BY <1>1, ScenarioTyped
<1> DEFINE Own(s) == {t \in sent + 1..sent + Speed : f[t - sent] = s}
           new == {[sid |-> s, txs |-> InOrder(Own(s))] : s \in {f[i] : i \in 1..Speed}}
<1>3. /\ sent < setup.ticks * Speed /\ sent' = sent + Speed /\ inject' = inject \cup new
      /\ UNCHANGED <<setup, clientDone, viewDone, genPc, replies, viewVars, pbftVars,
                     measureVars>>
  BY DEF GenTick
<1>4. WholeTicks' /\ sent' \in 0..setup.ticks * Speed
  <2>1. PICK k \in 0..setup.ticks : sent = k * Speed
    BY DEF TypeInv, WholeTicks
  <2>2. k \in Nat /\ k < setup.ticks
    <3> SUFFICES ASSUME k = setup.ticks PROVE FALSE
      BY <1>2, <2>1
    <3>1. sent = setup.ticks * Speed
      BY <2>1
    <3> QED BY <1>1, <1>3, <3>1
  <2>3. sent' = (k + 1) * Speed
    BY <1>2, <1>3, <2>1, <2>2
  <2>4. k + 1 \in 0..setup.ticks /\ (k + 1) * Speed <= setup.ticks * Speed
    BY <1>2, <2>2
  <2> QED BY <1>1, <1>2, <1>3, <2>3, <2>4 DEF WholeTicks
<1>5. new \subseteq [sid : Shard, txs : Seq(Nat)]
  <2>1. ASSUME NEW s \in {f[i] : i \in 1..Speed}
        PROVE  s \in Shard /\ InOrder(Own(s)) \in Seq(Nat)
    <3>1. s \in Shard
      BY <1>2
    <3>2. Own(s) \in SUBSET (sent + 1..sent + Speed)
      OBVIOUS
    <3> HIDE DEF Own
    <3> QED BY <1>1, <1>2, <3>1, <3>2, InOrderSequence
  <2> HIDE DEF Own
  <2> QED BY <2>1
<1>6. inject' \subseteq [sid : Shard, txs : Seq(Nat)]
  BY <1>1, <1>3, <1>5
<1> HIDE DEF new
<1> QED BY <1>3, <1>4, <1>6
     DEF TypeInv, TypeOK, viewVars, pbftVars, measureVars, recordVars

LEMMA TypeInject ==
  ASSUME TypeInv, NEW m \in inject, HandleInject(m)
  PROVE  TypeInv'
<1> DEFINE more == Decode(m.txs)
<1>1. more \in Seq(Nat)
  BY EmptySeq DEF Decode
<1> HIDE DEF more
<1>2. /\ pool' = [pool EXCEPT ![m.sid] = @ \o more]
      /\ arrived' = [arrived EXCEPT ![m.sid] = @ \o more]
  BY DEF HandleInject, AddTxs, more
<1>3. pool' \in [Shard -> Seq(Nat)] /\ arrived' \in [Shard -> Seq(Nat)]
  BY <1>1, <1>2, ConcatProperties DEF TypeInv, TypeOK
<1>4. inject' \subseteq inject
      /\ UNCHANGED <<setup, clientDone, viewDone, replies, clientVars,
                     taken, proposed, pbftVars, measureVars>>
  BY DEF HandleInject
<1> QED BY <1>3, <1>4
     DEF TypeInv, TypeOK, WholeTicks, clientVars, pbftVars, measureVars, recordVars

LEMMA TypeTake ==
  ASSUME TypeInv, NEW s \in Shard, TakeTxs(s)
  PROVE  TypeInv'
<1> DEFINE n == Count(pool[s])
           first == SubSeq(pool[s], 1, n)
           rest == SubSeq(pool[s], n + 1, Len(pool[s]))
<1>1. /\ taken' = [taken EXCEPT ![s] = first]
      /\ pool' = [pool EXCEPT ![s] = rest]
      /\ UNCHANGED <<setup, clientDone, viewDone, inject, replies, clientVars,
                     arrived, proposed, pbftVars, measureVars>>
  BY DEF TakeTxs
<1>2. pool[s] \in Seq(Nat)
  BY DEF TypeInv, TypeOK
<1>3. n \in 0..Len(pool[s])
  BY <1>2, CountFits
<1> HIDE DEF n
<1>4. first \in Seq(Nat) /\ rest \in Seq(Nat)
  BY <1>2, <1>3, CutInTwo
<1> HIDE DEF first, rest
<1>5. taken' \in [Shard -> Seq(Nat)] /\ pool' \in [Shard -> Seq(Nat)]
  BY <1>1, <1>4 DEF TypeInv, TypeOK
<1> QED BY <1>1, <1>5
     DEF TypeInv, TypeOK, WholeTicks, clientVars, pbftVars, measureVars, recordVars

LEMMA TypePropose ==
  ASSUME TypeInv, NEW s \in Shard, Propose(s)
  PROVE  TypeInv'
<1>1. /\ requestQueue' = [requestQueue EXCEPT ![s] = Append(@, taken[s])]
      /\ proposed' = [proposed EXCEPT ![s] = @ \o taken[s]]
      /\ taken' = [taken EXCEPT ![s] = <<>>]
      /\ UNCHANGED <<setup, clientDone, viewDone, inject, replies, clientVars,
                     pool, arrived, current, applied, measureVars>>
  BY DEF Propose
<1>2. proposed[s] \in Seq(Nat) /\ taken[s] \in Seq(Nat)
      /\ requestQueue[s] \in Seq(Seq(Nat))
  BY DEF TypeInv, TypeOK
<1>3. /\ proposed[s] \o taken[s] \in Seq(Nat) /\ <<>> \in Seq(Nat)
      /\ Append(requestQueue[s], taken[s]) \in Seq(Seq(Nat))
  BY <1>2, ConcatProperties, AppendProperties, EmptySeq
<1>4. /\ proposed' \in [Shard -> Seq(Nat)] /\ taken' \in [Shard -> Seq(Nat)]
      /\ requestQueue' \in [Shard -> Seq(Seq(Nat))]
  BY <1>1, <1>3 DEF TypeInv, TypeOK
<1> QED BY <1>1, <1>4
     DEF TypeInv, TypeOK, WholeTicks, clientVars, measureVars, recordVars

LEMMA TypeReply ==
  ASSUME TypeInv, NEW s \in Shard, NEW txs \in Seq(Nat), NEW copy \in {1, 2},
         Reply(s, txs, copy)
  PROVE  replies' \subseteq ReplyMsg
<1>1. Len(requestQueue[s]) \in Nat
  BY LenProperties DEF TypeInv, TypeOK
<1>2. [sid |-> s, txs |-> txs, copy |-> copy, ReqQueueLen |-> Len(requestQueue[s])]
      \in ReplyMsg
  BY <1>1 DEF ReplyMsg
<1> QED BY <1>2 DEF Reply, TypeInv

LEMMA TypePbft ==
  ASSUME TypeInv, NEW s \in Shard, Pbft(s)
  PROVE  TypeInv'
<1>1. /\ requestQueue \in [Shard -> Seq(Seq(Nat))]
      /\ current \in [Shard -> Seq(Seq(Nat))]
      /\ applied \in [Shard -> SUBSET (Seq(Nat) \X {1, 2})]
  BY DEF TypeInv, TypeOK
<1>2. /\ requestQueue' \in [Shard -> Seq(Seq(Nat))]
      /\ current' \in [Shard -> Seq(Seq(Nat))]
      /\ applied' \in [Shard -> SUBSET (Seq(Nat) \X {1, 2})]
      /\ replies' \subseteq ReplyMsg
  <2>1. CASE PbftDispatch(s)
    <3>1. requestQueue[s] \in Seq(Seq(Nat)) /\ requestQueue[s] # <<>>
      BY <1>1, <2>1 DEF PbftDispatch
    <3>2. Head(requestQueue[s]) \in Seq(Nat) /\ Tail(requestQueue[s]) \in Seq(Seq(Nat))
      BY <3>1, HeadTailProperties
    <3>3. <<Head(requestQueue[s])>> \in Seq(Seq(Nat))
      BY <3>2
    <3> QED BY <1>1, <2>1, <3>2, <3>3 DEF PbftDispatch, TypeInv
  <2>2. CASE PbftApply(s)
    <3>1. current[s] \in Seq(Seq(Nat)) /\ current[s] # <<>>
      BY <1>1, <2>2 DEF PbftApply
    <3>2. current[s][1] \in Seq(Nat)
      BY <3>1
    <3>3. <<current[s][1], 1>> \in Seq(Nat) \X {1, 2}
      BY <3>2
    <3>4. Reply(s, current[s][1], 1)
      BY <2>2 DEF PbftApply
    <3>5. replies' \subseteq ReplyMsg
      BY <3>2, <3>4, TypeReply
    <3>6. <<>> \in Seq(Seq(Nat))
      BY EmptySeq
    <3> QED BY <1>1, <2>2, <3>3, <3>5, <3>6 DEF PbftApply
  <2>3. CASE PbftApplyAgain(s)
    <3>1. PICK a \in applied[s] :
             /\ applied' = [applied EXCEPT ![s] = @ \cup {<<a[1], 2>>}]
             /\ Reply(s, a[1], 2)
      BY <2>3 DEF PbftApplyAgain
    <3>2. a \in Seq(Nat) \X {1, 2}
      BY <1>1
    <3>3. a[1] \in Seq(Nat) /\ <<a[1], 2>> \in Seq(Nat) \X {1, 2}
      BY <3>2
    <3>4. replies' \subseteq ReplyMsg
      BY <3>1, <3>3, TypeReply
    <3> QED BY <1>1, <2>3, <3>1, <3>3, <3>4 DEF PbftApplyAgain
  <2> QED BY <2>1, <2>2, <2>3 DEF Pbft
<1>3. UNCHANGED <<setup, clientDone, viewDone, inject, clientVars, viewVars, measureVars>>
  BY DEF Pbft, PbftDispatch, PbftApply, PbftApplyAgain
<1> QED BY <1>2, <1>3
     DEF TypeInv, TypeOK, WholeTicks, clientVars, viewVars, measureVars, recordVars

\* The longer TPS slice.
LEMMA TPSExtended ==
  ASSUME TPS \in Seq(Nat), second \in Nat
  PROVE  /\ ExtendTPS(TPS) \in Seq(Nat) /\ second + 1 \in DOMAIN ExtendTPS(TPS)
         /\ DOMAIN TPS \subseteq DOMAIN ExtendTPS(TPS)
         /\ \A i \in DOMAIN ExtendTPS(TPS) :
              ExtendTPS(TPS)[i] = IF i \in DOMAIN TPS THEN TPS[i] ELSE 0
<1>1. Len(TPS) \in Nat /\ DOMAIN TPS = 1..Len(TPS) /\ \A i \in 1..Len(TPS) : TPS[i] \in Nat
  BY LenProperties, ElementOfSeq
<1>2. CASE second < Len(TPS)
  <2>1. ExtendTPS(TPS) = TPS
    BY <1>1, <1>2 DEF ExtendTPS
  <2> QED BY <1>1, <1>2, <2>1
<1>3. CASE second >= Len(TPS)
  <2> DEFINE long == [i \in 1..second + 1 |-> IF i <= Len(TPS) THEN TPS[i] ELSE 0]
  <2>1. ExtendTPS(TPS) = long
    BY <1>3 DEF ExtendTPS
  <2>2. long \in [1..second + 1 -> Nat]
    BY <1>1
  <2>3. long \in Seq(Nat) /\ DOMAIN long = 1..second + 1
    BY <2>2
  <2> QED BY <1>1, <1>3, <2>1, <2>3
<1> QED BY <1>1, <1>2, <1>3

LEMMA TPSUpdated ==
  ASSUME TPS \in Seq(Nat), second \in Nat, NEW rep \in ReplyMsg, UpdateTPS(rep)
  PROVE  /\ TPS' \in Seq(Nat) /\ DOMAIN TPS \subseteq DOMAIN TPS'
         /\ second + 1 \in DOMAIN TPS'
         /\ \A i \in DOMAIN TPS' :
              TPS'[i] = (IF i \in DOMAIN TPS THEN TPS[i] ELSE 0)
                        + (IF i = second + 1 THEN Len(rep.txs) ELSE 0)
<1> DEFINE e == ExtendTPS(TPS)
<1>1. /\ e \in Seq(Nat) /\ second + 1 \in DOMAIN e /\ DOMAIN TPS \subseteq DOMAIN e
      /\ \A i \in DOMAIN e : e[i] = IF i \in DOMAIN TPS THEN TPS[i] ELSE 0
  BY TPSExtended
<1>2. Len(rep.txs) \in Nat
  BY LenProperties DEF ReplyMsg
<1>3. TPS' = [e EXCEPT ![second + 1] = @ + Len(rep.txs)]
  BY DEF UpdateTPS
<1> HIDE DEF e
<1>4. \A i \in DOMAIN e : e[i] \in Nat
  BY <1>1, ElementOfSeq, LenProperties
<1>5. DOMAIN TPS' = DOMAIN e
  BY <1>3
<1>6. ASSUME NEW i \in DOMAIN e
      PROVE  TPS'[i] = e[i] + IF i = second + 1 THEN Len(rep.txs) ELSE 0
  BY <1>3, <1>4
<1>7. TPS' \in Seq(Nat)
  <2>1. Len(e) \in Nat /\ DOMAIN e = 1..Len(e)
    BY <1>1, LenProperties
  <2>2. e \in [1..Len(e) -> Nat]
    BY <1>1, <2>1
  <2>3. e[second + 1] + Len(rep.txs) \in Nat
    BY <1>1, <1>2, <1>4
  <2>4. TPS' \in [1..Len(e) -> Nat]
    BY <1>3, <2>2, <2>3
  <2> QED BY <2>1, <2>4
<1> QED BY <1>1, <1>5, <1>6, <1>7

LEMMA ThreeAddons == Len(MeasureMethod) = 3
BY DEF MeasureMethod

LEMMA TypeHandleReply ==
  ASSUME TypeInv, NEW rep \in replies, HandleReply(rep)
  PROVE  TypeInv'
<1>1. rep \in ReplyMsg /\ measureAddons \in 0..3
  BY ThreeAddons DEF TypeInv, TypeOK
<1> DEFINE h == [rep |-> rep, next |-> 1, last |-> measureAddons]
<1>2. handling' \subseteq handling \cup {h} /\ (measureAddons = 0 => handling' = handling)
  BY DEF HandleReply
<1>3. h \in Handler /\ (measureAddons # 0 => h.next \in 1..h.last /\ h.last <= measureAddons)
  BY <1>1 DEF Handler
<1> HIDE DEF h
<1>4. handling' \subseteq Handler
  BY <1>2, <1>3 DEF TypeInv
<1>5. \A k \in handling' : k.next \in 1..k.last /\ k.last <= measureAddons
  BY <1>2, <1>3 DEF TypeInv, TypeOK
<1>6. replies' \subseteq replies
      /\ UNCHANGED <<setup, clientDone, viewDone, inject, clientVars, viewVars,
                     pbftVars, measureAddons, second, recordVars, writePc>>
  BY DEF HandleReply
<1> QED BY <1>4, <1>5, <1>6
     DEF TypeInv, TypeOK, WholeTicks, clientVars, viewVars, pbftVars, recordVars

LEMMA TypeHandleReplyStep ==
  ASSUME TypeInv, NEW h \in handling, HandleReplyStep(h)
  PROVE  TypeInv'
<1>1. h \in Handler /\ h.next \in 1..h.last /\ h.last <= measureAddons
  BY DEF TypeInv, TypeOK
<1>2. h.rep \in ReplyMsg /\ h.next \in Nat /\ h.last \in Nat
  BY <1>1 DEF Handler
<1> DEFINE k == [h EXCEPT !.next = @ + 1]
<1>3. handling' = (handling \ {h}) \cup (IF IsLast(h) THEN {} ELSE {k})
  BY DEF HandleReplyStep
<1>4. k \in Handler /\ (~IsLast(h) => k.next \in 1..k.last /\ k.last <= measureAddons)
  BY <1>1, <1>2 DEF Handler, IsLast
<1> HIDE DEF k
<1>5. handling' \subseteq Handler
  BY <1>3, <1>4 DEF TypeInv
<1>6. \A j \in handling' : j.next \in 1..j.last /\ j.last <= measureAddons
  BY <1>3, <1>4 DEF TypeInv, TypeOK
<1>7. TPS' \in Seq(Nat)
  <2>1. TPS \in Seq(Nat) /\ second \in Nat
    BY DEF TypeInv, TypeOK
  <2>2. UpdateTPS(h.rep) \/ UpdateTCL(h.rep) \/ UpdateWaitLen(h.rep)
    BY DEF HandleReplyStep, UpdateRecord
  <2> QED BY <1>2, <2>1, <2>2, TPSUpdated DEF UpdateTCL, UpdateWaitLen
<1>8. UNCHANGED <<setup, clientDone, viewDone, inject, replies, clientVars,
                  viewVars, pbftVars, measureAddons, second, writePc>>
  BY DEF HandleReplyStep
<1> QED BY <1>5, <1>6, <1>7, <1>8
     DEF TypeInv, TypeOK, WholeTicks, clientVars, viewVars, pbftVars

\* The other steps of the measure module.
LEMMA TypeMeasure ==
  ASSUME TypeInv, NewMeasureAddon \/ SecondPasses \/ MeasureStop \/ WriteResult
  PROVE  TypeInv'
<1>1. measureAddons \in 0..3 /\ second \in Nat /\ writePc \in 0..4
  BY ThreeAddons DEF TypeInv, TypeOK
<1>2. /\ measureAddons' \in 0..3 /\ measureAddons <= measureAddons'
      /\ second' \in Nat /\ writePc' \in 0..4
  BY <1>1, ThreeAddons DEF NewMeasureAddon, SecondPasses, MeasureStop, WriteResult,
     WriteLeft
<1>3. UNCHANGED <<setup, clientDone, viewDone, inject, replies, clientVars,
                  viewVars, pbftVars, handling, recordVars>>
  BY DEF NewMeasureAddon, SecondPasses, MeasureStop, WriteResult
<1>4. \A h \in handling' : h.next \in 1..h.last /\ h.last <= measureAddons'
  <2>1. \A h \in handling : h.next \in 1..h.last /\ h.last <= measureAddons /\ h.last \in Nat
    BY DEF TypeInv, TypeOK, Handler
  <2> QED BY <1>1, <1>2, <1>3, <2>1
<1> QED BY <1>2, <1>3, <1>4, ThreeAddons
     DEF TypeInv, TypeOK, WholeTicks, clientVars, viewVars, pbftVars, recordVars

\* Steps that change nothing but where the generator is, whether a context
\* is cancelled, and which messages are under way.
LEMMA TypeOutside ==
  ASSUME TypeInv,
         \/ GenReady \/ GenStop \/ Lose \/ Interrupt \/ UNCHANGED vars
         \/ \E s \in Shard : StopView(s)
  PROVE  TypeInv'
<1>1. /\ UNCHANGED <<setup, sent, viewVars, pbftVars, measureVars>>
      /\ inject' \subseteq inject /\ replies' \subseteq replies
  BY DEF GenReady, GenStop, Lose, Interrupt, StopView, vars, clientVars
<1>2. genPc' \in {"wait", "send", "end"}
  BY DEF GenReady, GenStop, Lose, Interrupt, StopView, vars, clientVars, TypeInv, TypeOK
<1>3. clientDone' \in BOOLEAN
  BY DEF GenReady, GenStop, Lose, Interrupt, StopView, vars, TypeInv, TypeOK
<1>4. viewDone' \in [Shard -> BOOLEAN]
  BY DEF GenReady, GenStop, Lose, Interrupt, StopView, vars, TypeInv, TypeOK
<1> QED BY <1>1, <1>2, <1>3, <1>4
     DEF TypeInv, TypeOK, WholeTicks, viewVars, pbftVars, measureVars, recordVars

LEMMA TypeNext ==
  ASSUME TypeInv, [Next]_vars
  PROVE  TypeInv'
<1>1. setup.shards \subseteq Shard
  BY ScenarioTyped DEF TypeInv, TypeOK
<1>2. CASE Generate
  BY <1>2, TypeGenTick, TypeOutside DEF Generate
<1>3. CASE Measure
  BY <1>3, TypeMeasure, TypeHandleReply, TypeHandleReplyStep DEF Measure
<1> QED BY <1>1, <1>2, <1>3, TypeOutside, TypeInject, TypeTake, TypePropose, TypePbft
     DEF Next

LEMMA TypeInvariance == Spec => []TypeInv
BY TypeInit, TypeNext, PTL DEF Spec

\* TypeOK holds in every behaviour, for any shards, speed, limits and
\* scenario: the generator keeps to its ticks, no handler of a reply goes
\* past the addons it has seen, and what passes through pool, requests and
\* messages are sequences of transactions.
THEOREM FlowTyped == Spec => []TypeOK
BY TypeInvariance, PTL DEF TypeInv

-----------------------------------------------------------------------------
(* No transaction is in two requests.                                      *)

Disjoint(p, q) == Range(p) \cap Range(q) = {}

\* A transaction that is on its way to a shard has not arrived there, and
\* what arrives arrives once.
ArrivesOnce ==
  /\ \A m \in inject : /\ IsInjective(m.txs) /\ Range(m.txs) \subseteq 1..sent
                       /\ Disjoint(m.txs, arrived[m.sid])
  /\ \A m, o \in inject : m.sid = o.sid /\ m # o => Disjoint(m.txs, o.txs)
  /\ \A s \in Shard : IsInjective(arrived[s]) /\ Range(arrived[s]) \subseteq 1..sent

\* The requests of a shard, queued, in consensus and applied.
AppliedReqs(s) == {a[1] : a \in applied[s]}
Reqs(s) == Range(requestQueue[s]) \cup Range(current[s]) \cup AppliedReqs(s)

\* They hold proposed transactions and share none.
ShardDiffers(s) ==
  /\ Len(current[s]) <= 1
  /\ \A r \in Reqs(s) : r # <<>> /\ Range(r) \subseteq Range(proposed[s])
  /\ \A i, j \in DOMAIN requestQueue[s] :
       i # j => Disjoint(requestQueue[s][i], requestQueue[s][j])
  /\ \A q \in Range(requestQueue[s]) :
       \A r \in Range(current[s]) \cup AppliedReqs(s) : Disjoint(q, r)
  /\ \A q \in Range(current[s]) : \A r \in AppliedReqs(s) : Disjoint(q, r)
RequestsDiffer == \A s \in Shard : ShardDiffers(s)

UniqueInv == TypeInv /\ PoolKeepsOrder /\ ArrivesOnce /\ RequestsDiffer

\* Where the elements of a concatenation come from.
LEMMA ConcatParts ==
  ASSUME NEW p \in Seq(Nat), NEW q \in Seq(Nat)
  PROVE  /\ Len(p) \in Nat /\ DOMAIN p \subseteq Nat /\ DOMAIN q \subseteq Nat
         /\ DOMAIN (p \o q) \subseteq Nat
         /\ \A i \in DOMAIN p : i <= Len(p) /\ i \in DOMAIN (p \o q) /\ (p \o q)[i] = p[i]
         /\ \A i \in DOMAIN q : /\ i > 0 /\ i + Len(p) \in DOMAIN (p \o q)
                                /\ (p \o q)[i + Len(p)] = q[i]
         /\ \A i \in DOMAIN (p \o q) :
              \/ i \in DOMAIN p /\ (p \o q)[i] = p[i]
              \/ i - Len(p) \in DOMAIN q /\ (p \o q)[i] = q[i - Len(p)]
<1> DEFINE c == p \o q
<1>1. /\ Len(p) \in Nat /\ Len(q) \in Nat /\ DOMAIN p = 1..Len(p) /\ DOMAIN q = 1..Len(q)
      /\ DOMAIN c = 1..Len(p) + Len(q)
      /\ \A i \in 1..Len(p) + Len(q) :
            c[i] = IF i <= Len(p) THEN p[i] ELSE q[i - Len(p)]
  BY ConcatProperties, LenProperties
<1> HIDE DEF c
<1>2. ASSUME NEW i \in DOMAIN q
      PROVE  i > 0 /\ i + Len(p) \in DOMAIN c /\ c[i + Len(p)] = q[i]
  <2> DEFINE k == i + Len(p)
  <2>1. i > 0 /\ k \in 1..Len(p) + Len(q) /\ ~(k <= Len(p)) /\ k - Len(p) = i
    BY <1>1
  <2> HIDE DEF k
  <2>2. c[k] = q[k - Len(p)]
    BY <1>1, <2>1
  <2> QED BY <1>1, <2>1, <2>2 DEF k
<1>3. ASSUME NEW i \in DOMAIN c
      PROVE  \/ i \in DOMAIN p /\ c[i] = p[i]
             \/ i - Len(p) \in DOMAIN q /\ c[i] = q[i - Len(p)]
  BY <1>1
<1>4. \A i \in DOMAIN p : i <= Len(p) /\ i \in DOMAIN c /\ c[i] = p[i]
  BY <1>1
<1> QED BY <1>1, <1>2, <1>3, <1>4 DEF c

LEMMA ConcatRange ==
  ASSUME NEW p \in Seq(Nat), NEW q \in Seq(Nat)
  PROVE  Range(p \o q) = Range(p) \cup Range(q)
<1> DEFINE c == p \o q
<1>1. /\ \A i \in DOMAIN p : i \in DOMAIN c /\ c[i] = p[i]
      /\ \A i \in DOMAIN q : i + Len(p) \in DOMAIN c /\ c[i + Len(p)] = q[i]
      /\ \A i \in DOMAIN c : \/ i \in DOMAIN p /\ c[i] = p[i]
                             \/ i - Len(p) \in DOMAIN q /\ c[i] = q[i - Len(p)]
  BY ConcatParts
<1> HIDE DEF c
<1>2. Range(c) \subseteq Range(p) \cup Range(q)
  BY <1>1 DEF Range
<1>3. Range(p) \subseteq Range(c) /\ Range(q) \subseteq Range(c)
  BY <1>1 DEF Range
<1> QED BY <1>2, <1>3 DEF c

\* A concatenation repeats nothing when neither part does and they share
\* nothing.
LEMMA ConcatInjective ==
  ASSUME NEW p \in Seq(Nat), NEW q \in Seq(Nat)
  PROVE  IsInjective(p \o q) <=> IsInjective(p) /\ IsInjective(q) /\ Disjoint(p, q)
<1> DEFINE c == p \o q
<1>1. Len(p) \in Nat /\ DOMAIN p \subseteq Nat /\ DOMAIN q \subseteq Nat /\ DOMAIN c \subseteq Nat
  BY ConcatParts
<1>2. \A i \in DOMAIN p : i <= Len(p) /\ i \in DOMAIN c /\ c[i] = p[i]
  BY ConcatParts
<1>3. \A i \in DOMAIN q : i > 0 /\ i + Len(p) \in DOMAIN c /\ c[i + Len(p)] = q[i]
  BY ConcatParts
<1>4. ASSUME NEW i \in DOMAIN c
      PROVE  \/ i \in DOMAIN p /\ c[i] = p[i]
             \/ i - Len(p) \in DOMAIN q /\ c[i] = q[i - Len(p)]
  BY ConcatParts
<1> HIDE DEF c
<1>5. ASSUME IsInjective(c) PROVE IsInjective(p) /\ IsInjective(q) /\ Disjoint(p, q)
  <2>1. IsInjective(p)
    BY <1>2, <1>5 DEF IsInjective
  <2>2. IsInjective(q)
    <3>1. ASSUME NEW i \in DOMAIN q, NEW j \in DOMAIN q, q[i] = q[j] PROVE i = j
      <4>1. i + Len(p) = j + Len(p)
        BY <1>3, <1>5, <3>1 DEF IsInjective
      <4> QED BY <1>1, <4>1
    <3> QED BY <3>1 DEF IsInjective
  <2>3. ASSUME NEW i \in DOMAIN p, NEW j \in DOMAIN q, p[i] = q[j] PROVE FALSE
    <3>1. i = j + Len(p)
      BY <1>2, <1>3, <1>5, <2>3 DEF IsInjective
    <3> QED BY <1>1, <1>2, <1>3, <3>1
  <2>4. Disjoint(p, q)
    BY <2>3 DEF Disjoint, Range
  <2> QED BY <2>1, <2>2, <2>4
<1>6. ASSUME IsInjective(p), IsInjective(q), Disjoint(p, q) PROVE IsInjective(c)
  <2>1. ASSUME NEW i \in DOMAIN c, NEW j \in DOMAIN c, c[i] = c[j] PROVE i = j
    <3>1. \A k \in DOMAIN p, l \in DOMAIN q : p[k] # q[l]
      BY <1>6 DEF Disjoint, Range
    <3>2. CASE i \in DOMAIN p /\ c[i] = p[i] /\ j \in DOMAIN p /\ c[j] = p[j]
      BY <1>6, <2>1, <3>2 DEF IsInjective
    <3>3. CASE /\ i - Len(p) \in DOMAIN q /\ c[i] = q[i - Len(p)]
               /\ j - Len(p) \in DOMAIN q /\ c[j] = q[j - Len(p)]
      <4>1. i - Len(p) = j - Len(p)
        BY <1>6, <2>1, <3>3 DEF IsInjective
      <4>2. i \in Int /\ j \in Int
        BY <1>1
      <4> QED BY <1>1, <4>1, <4>2
    <3> QED BY <1>4, <2>1, <3>1, <3>2, <3>3
  <2> QED BY <2>1 DEF IsInjective
<1> QED BY <1>5, <1>6 DEF c

LEMMA UniqueInit == Init => ArrivesOnce /\ RequestsDiffer
<1> SUFFICES ASSUME Init PROVE ArrivesOnce /\ RequestsDiffer
  OBVIOUS
<1>1. DOMAIN <<>> = {} /\ Len(<<>>) = 0
  OBVIOUS
<1>2. Range(<<>>) = {} /\ IsInjective(<<>>)
  BY <1>1 DEF Range, IsInjective
<1>3. inject = {} /\ \A s \in Shard : arrived[s] = <<>>
  BY DEF Init
<1>4. \A s \in Shard : requestQueue[s] = <<>> /\ current[s] = <<>> /\ applied[s] = {}
  BY DEF Init
<1>5. ArrivesOnce
  BY <1>2, <1>3 DEF ArrivesOnce
<1>6. RequestsDiffer
  BY <1>1, <1>2, <1>4 DEF RequestsDiffer, ShardDiffers, Reqs, AppliedReqs
<1> QED BY <1>5, <1>6

\* A tick sends transactions with new numbers, each to one shard.
LEMMA GenTickOnce ==
  ASSUME TypeInv, ArrivesOnce, NEW f \in [1..Speed -> setup.shards], GenTick(f)
  PROVE  ArrivesOnce'
<1>1. sent \in Nat /\ Speed \in Nat \ {0} /\ setup.shards \subseteq Shard
  BY ScenarioTyped DEF TypeInv, TypeOK
<1> DEFINE Own(s) == {t \in sent + 1..sent + Speed : f[t - sent] = s}
           new == {[sid |-> s, txs |-> InOrder(Own(s))] : s \in {f[i] : i \in 1..Speed}}
<1>2. sent' = sent + Speed /\ inject' = inject \cup new /\ arrived' = arrived
  BY DEF GenTick, viewVars
<1>3. ASSUME NEW m \in new
      PROVE  /\ IsInjective(m.txs) /\ Range(m.txs) \subseteq sent + 1..sent + Speed
             /\ m.sid \in Shard
  <2>1. PICK s \in {f[i] : i \in 1..Speed} : m = [sid |-> s, txs |-> InOrder(Own(s))]
    OBVIOUS
  <2>2. s \in Shard
    BY <1>1
  <2>3. Own(s) \in SUBSET (sent + 1..sent + Speed)
    OBVIOUS
  <2>4. m.txs = InOrder(Own(s)) /\ m.sid = s
    BY <2>1
  <2> HIDE DEF Own
  <2>5. /\ \A i \in DOMAIN m.txs : m.txs[i] \in Own(s)
        /\ \A i, j \in DOMAIN m.txs : m.txs[i] = m.txs[j] => i = j
    BY <1>1, <2>3, <2>4, InOrderSequence
  <2> QED BY <2>2, <2>3, <2>4, <2>5 DEF IsInjective, Range
<1>4. ASSUME NEW m \in new, NEW o \in new, m.sid = o.sid PROVE m = o
  <2> HIDE DEF Own
  <2>1. PICK s \in {f[i] : i \in 1..Speed} : m = [sid |-> s, txs |-> InOrder(Own(s))]
    OBVIOUS
  <2>2. PICK t \in {f[i] : i \in 1..Speed} : o = [sid |-> t, txs |-> InOrder(Own(t))]
    OBVIOUS
  <2>3. s = t
    BY <1>4, <2>1, <2>2
  <2> QED BY <2>1, <2>2, <2>3
<1> HIDE DEF new
<1>5. ASSUME NEW S \in SUBSET (1..sent) PROVE S \subseteq 1..sent'
  BY <1>1, <1>2
<1>6. ASSUME NEW m \in new PROVE Range(m.txs) \cap (1..sent) = {} /\ Range(m.txs) \subseteq 1..sent'
  BY <1>1, <1>2, <1>3
<1>7. ASSUME NEW m \in inject'
      PROVE  /\ IsInjective(m.txs) /\ Range(m.txs) \subseteq 1..sent'
             /\ Disjoint(m.txs, arrived'[m.sid])
  <2>1. CASE m \in inject
    BY <1>2, <1>5, <2>1 DEF ArrivesOnce
  <2>2. CASE m \in new
    <3>1. Range(arrived[m.sid]) \subseteq 1..sent
      BY <1>3, <2>2 DEF ArrivesOnce
    <3> QED BY <1>2, <1>3, <1>6, <2>2, <3>1 DEF Disjoint
  <2> QED BY <1>2, <2>1, <2>2
<1>8. ASSUME NEW m \in inject', NEW o \in inject', m.sid = o.sid, m # o
      PROVE  Disjoint(m.txs, o.txs)
  <2>1. CASE m \in inject /\ o \in inject
    BY <1>8, <2>1 DEF ArrivesOnce
  <2>2. CASE m \in inject /\ o \in new
    <3>1. Range(m.txs) \subseteq 1..sent
      BY <2>2 DEF ArrivesOnce
    <3> QED BY <1>6, <2>2, <3>1 DEF Disjoint
  <2>3. CASE m \in new /\ o \in inject
    <3>1. Range(o.txs) \subseteq 1..sent
      BY <2>3 DEF ArrivesOnce
    <3> QED BY <1>6, <2>3, <3>1 DEF Disjoint
  <2> QED BY <1>2, <1>4, <1>8, <2>1, <2>2, <2>3
<1>9. ASSUME NEW s \in Shard
      PROVE  IsInjective(arrived'[s]) /\ Range(arrived'[s]) \subseteq 1..sent'
  BY <1>2, <1>5 DEF ArrivesOnce
<1> QED BY <1>7, <1>8, <1>9 DEF ArrivesOnce

LEMMA InjectOnce ==
  ASSUME TypeInv, ArrivesOnce, NEW m \in inject, HandleInject(m)
  PROVE  ArrivesOnce'
<1>1. m.sid \in Shard /\ m.txs \in Seq(Nat) /\ arrived \in [Shard -> Seq(Nat)]
  BY DEF TypeInv, TypeOK
<1>2. /\ arrived' = [arrived EXCEPT ![m.sid] = @ \o m.txs]
      /\ inject' = inject \ {m} /\ sent' = sent
  BY <1>1 DEF HandleInject, Decode, clientVars
<1>3. arrived'[m.sid] = arrived[m.sid] \o m.txs
      /\ \A s \in Shard \ {m.sid} : arrived'[s] = arrived[s]
  BY <1>1, <1>2
<1>4. Range(arrived'[m.sid]) = Range(arrived[m.sid]) \cup Range(m.txs)
  BY <1>1, <1>3, ConcatRange
<1>5. IsInjective(arrived'[m.sid])
  <2>1. IsInjective(arrived[m.sid]) /\ IsInjective(m.txs) /\ Disjoint(m.txs, arrived[m.sid])
    BY <1>1 DEF ArrivesOnce
  <2>2. arrived[m.sid] \in Seq(Nat)
    BY <1>1
  <2>3. Disjoint(arrived[m.sid], m.txs)
    BY <2>1 DEF Disjoint
  <2> QED BY <1>1, <1>3, <2>1, <2>2, <2>3, ConcatInjective
<1>6. ASSUME NEW s \in Shard
      PROVE  IsInjective(arrived'[s]) /\ Range(arrived'[s]) \subseteq 1..sent'
  <2>1. Range(m.txs) \subseteq 1..sent
    BY DEF ArrivesOnce
  <2>2. CASE s = m.sid
    BY <1>2, <1>4, <1>5, <2>1, <2>2 DEF ArrivesOnce
  <2>3. CASE s # m.sid
    BY <1>2, <1>3, <2>3 DEF ArrivesOnce
  <2> QED BY <2>2, <2>3
<1>7. ASSUME NEW o \in inject' PROVE Disjoint(o.txs, arrived'[o.sid])
  <2>1. o \in inject /\ o # m /\ o.sid \in Shard
    BY <1>2 DEF TypeInv, TypeOK
  <2>2. Disjoint(o.txs, arrived[o.sid])
    BY <2>1 DEF ArrivesOnce
  <2>3. CASE o.sid = m.sid
    <3>1. Disjoint(o.txs, m.txs)
      BY <2>1, <2>3 DEF ArrivesOnce
    <3> QED BY <1>4, <2>2, <2>3, <3>1 DEF Disjoint
  <2>4. CASE o.sid # m.sid
    BY <1>3, <2>1, <2>2, <2>4
  <2> QED BY <2>3, <2>4
<1> QED BY <1>2, <1>6, <1>7 DEF ArrivesOnce

\* Every other step takes messages away at most.
LEMMA OtherwiseOnce ==
  ASSUME ArrivesOnce, inject' \subseteq inject, UNCHANGED <<sent, arrived>>
  PROVE  ArrivesOnce'
BY DEF ArrivesOnce

\* What the proposer hands over is in no request yet.
LEMMA ProposeDiffers ==
  ASSUME TypeInv, PoolKeepsOrder, ArrivesOnce, RequestsDiffer,
         NEW p \in Shard, Propose(p)
  PROVE  RequestsDiffer'
<1> DEFINE new == taken[p]
           queue == requestQueue[p]
<1>1. /\ requestQueue \in [Shard -> Seq(Seq(Nat))] /\ queue \in Seq(Seq(Nat))
      /\ proposed \in [Shard -> Seq(Nat)] /\ proposed[p] \in Seq(Nat)
      /\ new \in Seq(Nat) /\ pool[p] \in Seq(Nat)
  BY DEF TypeInv, TypeOK
<1>2. /\ requestQueue' = [requestQueue EXCEPT ![p] = Append(@, new)]
      /\ proposed' = [proposed EXCEPT ![p] = @ \o new]
      /\ UNCHANGED <<current, applied>> /\ new # <<>>
  BY DEF Propose
<1>3. Disjoint(new, proposed[p])
  <2>1. arrived[p] = (proposed[p] \o new) \o pool[p] /\ IsInjective(arrived[p])
    BY DEF PoolKeepsOrder, ArrivesOnce
  <2>2. proposed[p] \o new \in Seq(Nat)
    BY <1>1, ConcatProperties
  <2>3. IsInjective(proposed[p] \o new)
    <3> DEFINE front == proposed[p] \o new
    <3>1. front \in Seq(Nat) /\ IsInjective(front \o pool[p])
      BY <2>1, <2>2
    <3> HIDE DEF front
    <3>2. IsInjective(front)
      BY <1>1, <3>1, ConcatInjective
    <3> QED BY <3>2 DEF front
  <2>4. Disjoint(proposed[p], new)
    BY <1>1, <2>3, ConcatInjective
  <2> QED BY <2>4 DEF Disjoint
<1>4. Range(proposed'[p]) = Range(proposed[p]) \cup Range(new)
  <2>1. proposed'[p] = proposed[p] \o new
    BY <1>1, <1>2
  <2> QED BY <1>1, <2>1, ConcatRange
<1>5. /\ requestQueue'[p] = Append(queue, new)
      /\ \A s \in Shard \ {p} : /\ requestQueue'[s] = requestQueue[s]
                                /\ proposed'[s] = proposed[s]
  BY <1>1, <1>2
<1> DEFINE after == Append(queue, new)
<1>6. /\ Len(queue) \in Nat /\ DOMAIN queue = 1..Len(queue)
      /\ DOMAIN after = 1..Len(queue) + 1 /\ after[Len(queue) + 1] = new
      /\ \A i \in 1..Len(queue) : after[i] = queue[i]
  BY <1>1, AppendProperties, LenProperties
<1> HIDE DEF after, new, queue
<1>7. Range(after) = Range(queue) \cup {new}
  <2>1. ASSUME NEW i \in DOMAIN after PROVE after[i] \in Range(queue) \cup {new}
    <3>1. CASE i = Len(queue) + 1
      BY <1>6, <3>1
    <3>2. CASE i # Len(queue) + 1
      <4>1. i \in 1..Len(queue)
        BY <1>6, <3>2
      <4> QED BY <1>6, <4>1 DEF Range
    <3> QED BY <3>1, <3>2
  <2>2. new \in Range(after)
    <3>1. Len(queue) + 1 \in DOMAIN after
      BY <1>6
    <3> QED BY <1>6, <3>1 DEF Range
  <2>3. ASSUME NEW i \in DOMAIN queue PROVE queue[i] \in Range(after)
    <3>1. i \in DOMAIN after
      BY <1>6
    <3> QED BY <1>6, <3>1 DEF Range
  <2> QED BY <2>1, <2>2, <2>3 DEF Range
<1>8. ASSUME NEW r \in Reqs(p) PROVE Disjoint(new, r)
  <2>1. Range(r) \subseteq Range(proposed[p])
    BY DEF RequestsDiffer, ShardDiffers
  <2> QED BY <1>3, <2>1 DEF Disjoint
<1>9. ASSUME NEW i \in DOMAIN after, NEW j \in DOMAIN after, i # j
      PROVE  Disjoint(after[i], after[j])
  <2>1. CASE i \in 1..Len(queue) /\ j \in 1..Len(queue)
    BY <1>6, <1>9, <2>1 DEF RequestsDiffer, ShardDiffers, queue
  <2>2. CASE i = Len(queue) + 1 /\ j \in 1..Len(queue)
    <3>1. queue[j] \in Range(queue)
      BY <1>6, <2>2 DEF Range
    <3> QED BY <1>6, <1>8, <2>2, <3>1 DEF Reqs, queue
  <2>3. CASE j = Len(queue) + 1 /\ i \in 1..Len(queue)
    <3>1. queue[i] \in Range(queue)
      BY <1>6, <2>3 DEF Range
    <3>2. Disjoint(new, queue[i])
      BY <1>8, <3>1 DEF Reqs, queue
    <3> QED BY <1>6, <2>3, <3>2 DEF Disjoint
  <2>4. /\ i = Len(queue) + 1 \/ i \in 1..Len(queue)
        /\ j = Len(queue) + 1 \/ j \in 1..Len(queue)
    BY <1>6
  <2> QED BY <1>9, <2>1, <2>2, <2>3, <2>4
<1>10. ASSUME NEW s \in Shard PROVE ShardDiffers(s)'
  <2>1. CASE s # p
    BY <1>2, <1>5, <2>1 DEF RequestsDiffer, ShardDiffers, Reqs, AppliedReqs
  <2>2. CASE s = p
    <3>1. requestQueue'[p] = after
      BY <1>5 DEF after, new, queue
    <3>2. Reqs(p)' = Reqs(p) \cup {new}
      BY <1>2, <1>7, <3>1 DEF Reqs, AppliedReqs, queue
    <3>3. \A r \in Reqs(p)' : r # <<>> /\ Range(r) \subseteq Range(proposed'[p])
      <4>1. \A r \in Reqs(p) : r # <<>> /\ Range(r) \subseteq Range(proposed[p])
        BY DEF RequestsDiffer, ShardDiffers
      <4> QED BY <1>2, <1>4, <3>2, <4>1
    <3>4. \A q \in Range(after) :
             \A r \in Range(current[p]) \cup AppliedReqs(p) : Disjoint(q, r)
      <4>1. \A q \in Range(queue) :
               \A r \in Range(current[p]) \cup AppliedReqs(p) : Disjoint(q, r)
        BY DEF RequestsDiffer, ShardDiffers, queue
      <4>2. \A r \in Range(current[p]) \cup AppliedReqs(p) : Disjoint(new, r)
        BY <1>8 DEF Reqs
      <4> QED BY <1>7, <4>1, <4>2
    <3>5. current' = current /\ AppliedReqs(p)' = AppliedReqs(p)
      BY <1>2 DEF AppliedReqs
    <3>6. Len(current[p]) <= 1
          /\ \A q \in Range(current[p]) : \A r \in AppliedReqs(p) : Disjoint(q, r)
      BY DEF RequestsDiffer, ShardDiffers
    <3> QED BY <1>9, <2>2, <3>1, <3>3, <3>4, <3>5, <3>6 DEF ShardDiffers
  <2> QED BY <2>1, <2>2
<1> QED BY <1>10 DEF RequestsDiffer

LEMMA SingleRange ==
  ASSUME NEW x
  PROVE  Range(<<x>>) = {x} /\ Len(<<x>>) = 1
<1>1. DOMAIN <<x>> = {1} /\ <<x>>[1] = x /\ Len(<<x>>) = 1
  OBVIOUS
<1> QED BY <1>1 DEF Range

LEMMA EmptyRange == Range(<<>>) = {} /\ Len(<<>>) = 0
<1>1. DOMAIN <<>> = {} /\ Len(<<>>) = 0
  OBVIOUS
<1> QED BY <1>1 DEF Range

LEMMA DispatchDiffers ==
  ASSUME TypeInv, RequestsDiffer, NEW p \in Shard, PbftDispatch(p)
  PROVE  RequestsDiffer'
<1> DEFINE queue == requestQueue[p]
           head == Head(queue)
           tail == Tail(queue)
<1>1. /\ requestQueue \in [Shard -> Seq(Seq(Nat))] /\ current \in [Shard -> Seq(Seq(Nat))]
      /\ queue \in Seq(Seq(Nat)) /\ queue # <<>>
  BY DEF TypeInv, TypeOK, PbftDispatch
<1>2. /\ requestQueue' = [requestQueue EXCEPT ![p] = tail]
      /\ current' = [current EXCEPT ![p] = <<head>>]
      /\ UNCHANGED <<proposed, applied>>
  BY DEF PbftDispatch, viewVars
<1>3. /\ requestQueue'[p] = tail /\ current'[p] = <<head>>
      /\ \A s \in Shard \ {p} : requestQueue'[s] = requestQueue[s] /\ current'[s] = current[s]
  BY <1>1, <1>2
<1>4. /\ Len(queue) \in Nat \ {0} /\ DOMAIN queue = 1..Len(queue)
      /\ head = queue[1] /\ DOMAIN tail = 1..Len(queue) - 1
      /\ \A i \in 1..Len(queue) - 1 : tail[i] = queue[i + 1]
  BY <1>1, HeadTailProperties, LenProperties
<1> HIDE DEF queue, head, tail
<1>5. \A i \in DOMAIN tail : i + 1 \in DOMAIN queue /\ i + 1 # 1 /\ tail[i] = queue[i + 1]
  BY <1>4
<1>6. 1 \in DOMAIN queue /\ head = queue[1]
  BY <1>4
<1>7. Range(tail) \subseteq Range(queue) /\ head \in Range(queue)
  BY <1>5, <1>6 DEF Range
<1>8. ShardDiffers(p)
  BY DEF RequestsDiffer
<1>9. ASSUME NEW q \in Range(tail) PROVE Disjoint(q, head)
  <2>1. PICK i \in DOMAIN tail : q = tail[i]
    BY DEF Range
  <2> QED BY <1>5, <1>6, <1>8, <2>1 DEF ShardDiffers, queue
<1>10. ASSUME NEW i \in DOMAIN tail, NEW j \in DOMAIN tail, i # j
       PROVE  Disjoint(tail[i], tail[j])
  <2>1. i + 1 # j + 1
    BY <1>4, <1>10
  <2> QED BY <1>5, <1>8, <2>1 DEF ShardDiffers, queue
<1>11. AppliedReqs(p)' = AppliedReqs(p) /\ Range(current'[p]) = {head} /\ Len(current'[p]) = 1
  BY <1>2, <1>3, SingleRange DEF AppliedReqs
<1>12. \A q \in Range(queue) : \A r \in AppliedReqs(p) : Disjoint(q, r)
  BY <1>8 DEF ShardDiffers, queue
<1>13. Reqs(p)' \subseteq Reqs(p)
  BY <1>3, <1>7, <1>11 DEF Reqs, queue
<1>14. ShardDiffers(p)'
  <2>1. \A r \in Reqs(p)' : r # <<>> /\ Range(r) \subseteq Range(proposed'[p])
    BY <1>2, <1>8, <1>13 DEF ShardDiffers
  <2>2. \A q \in Range(tail) : \A r \in {head} \cup AppliedReqs(p) : Disjoint(q, r)
    BY <1>7, <1>9, <1>12
  <2>3. \A q \in {head} : \A r \in AppliedReqs(p) : Disjoint(q, r)
    BY <1>7, <1>12
  <2> QED BY <1>3, <1>10, <1>11, <2>1, <2>2, <2>3 DEF ShardDiffers
<1>15. ASSUME NEW s \in Shard, s # p PROVE ShardDiffers(s)'
  BY <1>2, <1>3, <1>15 DEF RequestsDiffer, ShardDiffers, Reqs, AppliedReqs
<1> QED BY <1>14, <1>15 DEF RequestsDiffer

\* The request in consensus has not been applied before.
LEMMA CurrentIsNew ==
  ASSUME TypeInv, RequestsDiffer, NEW p \in Shard, current[p] # <<>>
  PROVE  /\ current[p][1] \in Seq(Nat) /\ Range(current[p]) = {current[p][1]}
         /\ current[p][1] \notin AppliedReqs(p)
<1>1. current[p] \in Seq(Seq(Nat)) /\ ShardDiffers(p)
  BY DEF TypeInv, TypeOK, RequestsDiffer
<1>2. Len(current[p]) \in Nat /\ Len(current[p]) # 0 /\ DOMAIN current[p] = 1..Len(current[p])
  BY <1>1, LenProperties, EmptySeq
<1>3. Len(current[p]) = 1
  <2> DEFINE n == Len(current[p])
  <2>1. n <= 1
    BY <1>1 DEF ShardDiffers
  <2>2. n \in Nat /\ n # 0
    BY <1>2
  <2> HIDE DEF n
  <2>3. n = 1
    BY <2>1, <2>2
  <2> QED BY <2>3 DEF n
<1>4. DOMAIN current[p] = {1} /\ current[p][1] \in Seq(Nat)
  BY <1>1, <1>2, <1>3
<1>5. Range(current[p]) = {current[p][1]}
  BY <1>4 DEF Range
<1>6. Disjoint(current[p][1], current[p][1]) => current[p][1] = <<>>
  <2> DEFINE c == current[p][1]
  <2>1. c \in Seq(Nat) /\ Len(c) \in Nat /\ DOMAIN c = 1..Len(c) /\ (Len(c) = 0 => c = <<>>)
    BY <1>4, LenProperties, EmptySeq
  <2> HIDE DEF c
  <2>2. ASSUME c # <<>> PROVE Range(c) # {}
    <3>1. 1 \in DOMAIN c
      BY <2>1, <2>2
    <3> QED BY <3>1 DEF Range
  <2> QED BY <2>2 DEF Disjoint, c
<1>7. current[p][1] # <<>>
  BY <1>1, <1>5 DEF ShardDiffers, Reqs
<1> QED BY <1>1, <1>4, <1>5, <1>6, <1>7 DEF ShardDiffers

LEMMA ApplyDiffers ==
  ASSUME TypeInv, RequestsDiffer, NEW p \in Shard, PbftApply(p) \/ PbftApplyAgain(p)
  PROVE  RequestsDiffer'
<1>1. /\ applied \in [Shard -> SUBSET (Seq(Nat) \X {1, 2})]
      /\ current \in [Shard -> Seq(Seq(Nat))]
  BY DEF TypeInv, TypeOK
<1>2. UNCHANGED <<requestQueue, proposed>>
  BY DEF PbftApply, PbftApplyAgain, viewVars
<1>3. ShardDiffers(p)
  BY DEF RequestsDiffer
<1>4. CASE PbftApply(p)
  <2> DEFINE c == current[p][1]
  <2>1. /\ current[p] # <<>> /\ current' = [current EXCEPT ![p] = <<>>]
        /\ applied' = [applied EXCEPT ![p] = @ \cup {<<c, 1>>}]
    BY <1>4 DEF PbftApply
  <2>2. Range(current[p]) = {c}
    BY <2>1, CurrentIsNew
  <2> HIDE DEF c
  <2>3. /\ current'[p] = <<>> /\ applied'[p] = applied[p] \cup {<<c, 1>>}
        /\ \A s \in Shard \ {p} : current'[s] = current[s] /\ applied'[s] = applied[s]
    BY <1>1, <2>1
  <2>4. Range(current'[p]) = {} /\ Len(current'[p]) = 0
    BY <2>3, EmptyRange
  <2>5. AppliedReqs(p)' = AppliedReqs(p) \cup {c}
    <3>1. AppliedReqs(p)' = {a[1] : a \in applied[p] \cup {<<c, 1>>}}
      BY <2>3 DEF AppliedReqs
    <3>2. <<c, 1>>[1] = c
      OBVIOUS
    <3> QED BY <3>1, <3>2 DEF AppliedReqs
  <2>6. ShardDiffers(p)'
    <3>1. Reqs(p)' = Reqs(p)
      BY <1>2, <2>2, <2>4, <2>5 DEF Reqs
    <3>2. \A r \in Reqs(p)' : r # <<>> /\ Range(r) \subseteq Range(proposed'[p])
      BY <1>2, <1>3, <3>1 DEF ShardDiffers
    <3>3. \A q \in Range(requestQueue[p]) :
            \A r \in AppliedReqs(p) \cup {c} : Disjoint(q, r)
      BY <1>3, <2>2 DEF ShardDiffers
    <3> QED BY <1>2, <1>3, <2>4, <2>5, <3>2, <3>3 DEF ShardDiffers
  <2>7. ASSUME NEW s \in Shard, s # p PROVE ShardDiffers(s)'
    BY <1>2, <2>3, <2>7 DEF RequestsDiffer, ShardDiffers, Reqs, AppliedReqs
  <2> QED BY <2>6, <2>7 DEF RequestsDiffer
<1>5. CASE PbftApplyAgain(p)
  <2>1. PICK a \in applied[p] : applied' = [applied EXCEPT ![p] = @ \cup {<<a[1], 2>>}]
    BY <1>5 DEF PbftApplyAgain
  <2>2. current' = current
    BY <1>5 DEF PbftApplyAgain
  <2>3. /\ applied'[p] = applied[p] \cup {<<a[1], 2>>}
        /\ \A s \in Shard \ {p} : applied'[s] = applied[s]
    BY <1>1, <2>1
  <2>4. AppliedReqs(p)' = AppliedReqs(p)
    BY <2>3 DEF AppliedReqs
  <2>5. ASSUME NEW s \in Shard PROVE AppliedReqs(s)' = AppliedReqs(s)
    BY <2>3, <2>4 DEF AppliedReqs
  <2>6. ASSUME NEW s \in Shard PROVE ShardDiffers(s)'
    <3>1. Reqs(s)' = Reqs(s)
      BY <1>2, <2>2, <2>5 DEF Reqs
    <3>2. ShardDiffers(s)
      BY DEF RequestsDiffer
    <3> QED BY <1>2, <2>2, <2>5, <3>1, <3>2 DEF ShardDiffers
  <2> QED BY <2>6 DEF RequestsDiffer
<1> QED BY <1>4, <1>5

LEMMA OtherwiseDiffer ==
  ASSUME RequestsDiffer, UNCHANGED <<requestQueue, current, applied, proposed>>
  PROVE  RequestsDiffer'
BY DEF RequestsDiffer, ShardDiffers, Reqs, AppliedReqs

\* Requests differ in every behaviour.
LEMMA UniqueNext ==
  ASSUME UniqueInv, [Next]_vars
  PROVE  UniqueInv'
<1>1. TypeInv /\ PoolKeepsOrder /\ ArrivesOnce /\ RequestsDiffer
      /\ setup.shards \subseteq Shard
  BY ScenarioTyped DEF UniqueInv, TypeInv, TypeOK
<1>2. TypeInv'
  BY <1>1, TypeNext
<1>3. PoolKeepsOrder'
  BY <1>1, FlowNext DEF FlowInv, TypeInv, TypeOK
<1>4. ArrivesOnce'
  <2>1. CASE /\ ~\E f \in [1..Speed -> setup.shards] : GenTick(f)
             /\ ~\E m \in inject : HandleInject(m)
    <3>1. inject' \subseteq inject /\ UNCHANGED <<sent, arrived>>
      BY <2>1 DEF Next, vars, Generate, GenReady, GenStop, Lose, Measure,
         NewMeasureAddon, SecondPasses, MeasureStop, WriteResult, HandleReply,
         HandleReplyStep, Interrupt, TakeTxs, Propose, Pbft, PbftDispatch,
         PbftApply, PbftApplyAgain, StopView, clientVars, viewVars
    <3> QED BY <1>1, <3>1, OtherwiseOnce
  <2> QED BY <1>1, <2>1, GenTickOnce, InjectOnce
<1>5. RequestsDiffer'
  <2>1. CASE ~\E s \in setup.shards : Propose(s) \/ Pbft(s)
    <3>1. UNCHANGED <<requestQueue, current, applied, proposed>>
      BY <2>1 DEF Next, vars, Generate, GenReady, GenTick, GenStop, Lose, Measure,
         NewMeasureAddon, SecondPasses, MeasureStop, WriteResult, HandleReply,
         HandleReplyStep, Interrupt, HandleInject, TakeTxs, StopView, viewVars,
         pbftVars
    <3> QED BY <1>1, <3>1, OtherwiseDiffer
  <2> QED BY <1>1, <2>1, ProposeDiffers, DispatchDiffers, ApplyDiffers DEF Pbft
<1> QED BY <1>2, <1>3, <1>4, <1>5 DEF UniqueInv

\* No transaction is in two requests, queued, in consensus or applied, and no
\* request is empty: the pool gives what it gives once (AddTxs, GetEnoughTxs,
\* GetBatchofTxs), and a request that PBFT has applied does not come back
\* through the queue.
THEOREM RequestsAreApart == Spec => []RequestsDiffer
<1>1. Init => UniqueInv
  BY TypeInit, FlowInit, UniqueInit DEF UniqueInv, FlowInv
<1>2. UniqueInv /\ [Next]_vars => UniqueInv'
  BY UniqueNext
<1>3. UniqueInv => RequestsDiffer
  BY DEF UniqueInv
<1> QED BY <1>1, <1>2, <1>3, PTL DEF Spec

-----------------------------------------------------------------------------
(* The report of the measure module.                                       *)

\* What tells one reply from another: its shard, its request and whether the
\* request was applied for the first or the second time.
RepId(r) == <<r.sid, r.txs, r.copy>>
Ids == {<<s, q, c>> : s \in Shard, q \in Seq(Nat), c \in {1, 2}}

ReplyTotal(S) == TotalTxs(S, LAMBDA r : r.txs)
AppliedTotal(S) == TotalTxs(S, LAMBDA a : a[2])

LEMMA TotalIsSum ==
  ASSUME NEW S
  PROVE  /\ ReplyTotal(S) = SumFunctionOnSet([r \in S |-> Len(r.txs)], S)
         /\ AppliedTotal(S) = SumFunctionOnSet([r \in S |-> Len(r[2])], S)
BY DEF ReplyTotal, AppliedTotal, TotalTxs, SumFunction

LEMMA IdTyped ==
  ASSUME NEW r \in ReplyMsg
  PROVE  RepId(r) \in Ids /\ RepId(r)[2] = r.txs /\ Len(r.txs) \in Nat
<1>1. r.sid \in Shard /\ r.txs \in Seq(Nat) /\ r.copy \in {1, 2}
  BY DEF ReplyMsg
<1> QED BY <1>1, LenProperties DEF RepId, Ids

LEMMA IdLength ==
  ASSUME NEW a \in Ids
  PROVE  Len(a[2]) \in Nat
<1>1. a[2] \in Seq(Nat)
  BY DEF Ids
<1> QED BY <1>1, LenProperties

\* More replies, or more applied requests, hold no fewer transactions.
LEMMA ReplyTotalGrows ==
  ASSUME NEW T \in SUBSET ReplyMsg, IsFiniteSet(T), NEW S \in SUBSET T
  PROVE  ReplyTotal(S) <= ReplyTotal(T)
<1> DEFINE w == [r \in S |-> Len(r.txs)]
           v == [r \in T |-> Len(r.txs)]
           f == [r \in S |-> r]
<1>1. IsFiniteSet(S)
  BY FS_Subset
<1>2. \A x \in S : w[x] \in Nat /\ w[x] = v[f[x]]
  BY IdTyped
<1>3. \A y \in T : v[y] \in Nat
  BY IdTyped
<1>4. f \in [S -> T] /\ \A x, y \in S : f[x] = f[y] => x = y
  OBVIOUS
<1>5. ReplyTotal(S) = SumFunctionOnSet(w, S) /\ ReplyTotal(T) = SumFunctionOnSet(v, T)
  BY TotalIsSum
<1> HIDE DEF w, v, f
<1>6. SumFunctionOnSet(w, S) <= SumFunctionOnSet(v, T)
  BY <1>1, <1>2, <1>3, <1>4, SumInjection
<1> QED BY <1>5, <1>6

LEMMA AppliedTotalGrows ==
  ASSUME NEW T \in SUBSET Ids, IsFiniteSet(T), NEW S \in SUBSET T
  PROVE  AppliedTotal(S) <= AppliedTotal(T) /\ AppliedTotal(S) \in Nat
         /\ AppliedTotal(T) \in Nat
<1> DEFINE w == [r \in S |-> Len(r[2])]
           v == [r \in T |-> Len(r[2])]
           f == [r \in S |-> r]
<1>1. IsFiniteSet(S)
  BY FS_Subset
<1>2. \A x \in S : w[x] \in Nat /\ w[x] = v[f[x]]
  BY IdLength
<1>3. \A y \in T : v[y] \in Nat
  BY IdLength
<1>4. f \in [S -> T] /\ \A x, y \in S : f[x] = f[y] => x = y
  OBVIOUS
<1>5. AppliedTotal(S) = SumFunctionOnSet(w, S) /\ AppliedTotal(T) = SumFunctionOnSet(v, T)
  BY TotalIsSum
<1> HIDE DEF w, v, f
<1>6. SumFunctionOnSet(w, S) <= SumFunctionOnSet(v, T)
  BY <1>1, <1>2, <1>3, <1>4, SumInjection
<1>7. SumFunctionOnSet(w, S) \in Nat
  BY <1>1, <1>2, SumNatural
<1>8. SumFunctionOnSet(v, T) \in Nat
  BY <1>3, SumNatural
<1> QED BY <1>5, <1>6, <1>7, <1>8

\* Replies to different applications hold no more than these.
LEMMA RepliesFitApplied ==
  ASSUME NEW T \in SUBSET Ids, IsFiniteSet(T),
         NEW S \in SUBSET ReplyMsg, IsFiniteSet(S),
         \A r \in S : RepId(r) \in T,
         \A r, q \in S : RepId(r) = RepId(q) => r = q
  PROVE  ReplyTotal(S) <= AppliedTotal(T)
<1> DEFINE w == [r \in S |-> Len(r.txs)]
           v == [r \in T |-> Len(r[2])]
           f == [r \in S |-> RepId(r)]
<1>1. \A x \in S : w[x] \in Nat /\ w[x] = v[f[x]]
  BY IdTyped
<1>2. \A y \in T : v[y] \in Nat
  BY IdLength
<1>3. f \in [S -> T] /\ \A x, y \in S : f[x] = f[y] => x = y
  OBVIOUS
<1>4. ReplyTotal(S) = SumFunctionOnSet(w, S) /\ AppliedTotal(T) = SumFunctionOnSet(v, T)
  BY TotalIsSum
<1> HIDE DEF w, v, f
<1>5. SumFunctionOnSet(w, S) <= SumFunctionOnSet(v, T)
  BY <1>1, <1>2, <1>3, SumInjection
<1> QED BY <1>4, <1>5

\* One more reply.
LEMMA ReplyTotalAdds ==
  ASSUME NEW S \in SUBSET ReplyMsg, IsFiniteSet(S), NEW z \in ReplyMsg, z \notin S
  PROVE  ReplyTotal(S \cup {z}) = Len(z.txs) + ReplyTotal(S)
<1> DEFINE T == S \cup {z}
           v == [r \in T |-> Len(r.txs)]
           w == [r \in S |-> Len(r.txs)]
<1>1. IsFiniteSet(T) /\ z \in T /\ T \ {z} = S /\ v[z] = Len(z.txs)
  BY FS_AddElement
<1>2. \A y \in T : v[y] \in Nat
  BY IdTyped
<1>3. \A x \in T \ {z} : w[x] = v[x]
  BY <1>1
<1>4. ReplyTotal(S) = SumFunctionOnSet(w, S) /\ ReplyTotal(T) = SumFunctionOnSet(v, T)
  BY TotalIsSum
<1> HIDE DEF w, v, T
<1>5. SumFunctionOnSet(v, T) = v[z] + SumFunctionOnSet(w, T \ {z})
  BY <1>1, <1>2, <1>3, SumWithout
<1>6. ReplyTotal(T) = Len(z.txs) + ReplyTotal(S)
  BY <1>1, <1>4, <1>5
<1> QED BY <1>6 DEF T

\* UpdateRecord of the TPS addon adds the transactions of the reply, whether
\* or not the slice grows.
LEMMA TPSSumUpdated ==
  ASSUME TPS \in Seq(Nat), second \in Nat, NEW rep \in ReplyMsg, UpdateTPS(rep)
  PROVE  SumFunction(TPS') = Len(rep.txs) + SumFunction(TPS)
<1> DEFINE z == second + 1
           D == DOMAIN TPS
           E == DOMAIN TPS'
           v == TPS'
           u == [i \in E |-> IF i \in D THEN TPS[i] ELSE 0]
           n == Len(rep.txs)
<1>1. /\ TPS' \in Seq(Nat) /\ D \subseteq E /\ z \in E
      /\ \A i \in E : v[i] = u[i] + (IF i = z THEN n ELSE 0)
  BY TPSUpdated
<1>2. IsFiniteSet(D) /\ IsFiniteSet(E)
  <2>1. /\ Len(TPS) \in Nat /\ D = 1..Len(TPS)
        /\ Len(TPS') \in Nat /\ E = 1..Len(TPS')
    BY <1>1, LenProperties
  <2> QED BY <2>1, FS_Interval
<1>3. n \in Nat /\ \A i \in D : TPS[i] \in Nat
  BY IdTyped, LenProperties, ElementOfSeq
<1>4. \A i \in E : u[i] \in Nat
  BY <1>3
<1>5. \A i \in D : TPS[i] = u[i]
  BY <1>1
<1>6. \A i \in E \ D : u[i] = 0
  OBVIOUS
<1>7. SumFunction(TPS) = SumFunctionOnSet(TPS, D) /\ SumFunction(TPS') = SumFunctionOnSet(v, E)
  BY DEF SumFunction
<1> HIDE DEF z, D, E, v, u, n
<1>8. SumFunctionOnSet(u, E) = SumFunctionOnSet(TPS, D)
  BY <1>1, <1>2, <1>4, <1>5, <1>6, SumZeros
<1>9. v[z] = u[z] + n /\ \A i \in E \ {z} : v[i] = u[i]
  <2>1. ASSUME NEW i \in E, i # z PROVE v[i] = u[i]
    BY <1>1, <1>4, <2>1
  <2>2. v[z] = u[z] + n
    BY <1>1
  <2> QED BY <2>1, <2>2
<1>10. \A i \in E : v[i] \in Nat
  BY <1>1, <1>3, <1>4
<1>11. SumFunctionOnSet(v, E) = v[z] + SumFunctionOnSet(u, E \ {z})
  <2>1. z \in E /\ IsFiniteSet(E) /\ \A i \in E \ {z} : u[i] = v[i]
    BY <1>1, <1>2, <1>9
  <2> QED BY ONLY <1>10, <2>1, SumWithout
<1>12. SumFunctionOnSet(u, E) = u[z] + SumFunctionOnSet(u, E \ {z})
  <2>1. z \in E /\ IsFiniteSet(E) /\ \A i \in E \ {z} : u[i] = u[i]
    BY <1>1, <1>2
  <2> QED BY ONLY <1>4, <2>1, SumWithout
<1>13. SumFunctionOnSet(u, E \ {z}) \in Nat /\ u[z] \in Nat
  <2>1. IsFiniteSet(E \ {z})
    BY <1>2, FS_Subset
  <2>2. \A i \in E \ {z} : u[i] \in Nat
    BY <1>4
  <2> QED BY <1>1, <1>4, <2>1, <2>2, SumNatural
<1>14. SumFunctionOnSet(v, E) = n + SumFunctionOnSet(TPS, D)
  BY <1>3, <1>8, <1>9, <1>11, <1>12, <1>13
<1> QED BY <1>7, <1>14 DEF n

\* The last row of TPS.csv holds the sum of the slice.
TotalOf(rows) == IF rows = <<>> THEN 0 ELSE rows[Len(rows)].total

LEMMA RowsTotal ==
  ASSUME TPS \in Seq(Nat)
  PROVE  TotalOf(TPSRows) = SumFunction(TPS)
<1> DEFINE rows == TPSRows
           n == Len(TPS)
           S == {rows[i] : i \in 1..n}
<1>1. n \in Nat /\ DOMAIN TPS = 1..n
  BY LenProperties
<1>2. rows = [i \in 1..n |-> [tps |-> TPS[i], total |-> SumOf(SubSeq(TPS, 1, i)),
                              seconds |-> Cardinality({j \in 1..i : TPS[j] # 0})]]
  BY <1>1 DEF TPSRows
<1>3. rows \in [1..n -> S]
  BY <1>2
<1>4. n # 0 => rows[n].total = SumOf(SubSeq(TPS, 1, n))
  BY <1>1, <1>2
<1>5. SubSeq(TPS, 1, n) = TPS
  <2>1. \A i \in 1..n : TPS[i] \in Nat
    BY ElementOfSeq
  <2> DEFINE t == SubSeq(TPS, 1, n)
  <2>2. t \in Seq(Nat) /\ Len(t) = n /\ \A i \in 1..n : t[i] = TPS[i]
    BY <1>1, <2>1, SubSeqProperties
  <2> HIDE DEF t
  <2>3. t = TPS
    BY <2>2, SeqEqual
  <2> QED BY <2>3 DEF t
<1> HIDE DEF rows, S
<1>6. rows \in Seq(S) /\ Len(rows) = n /\ (rows = <<>> <=> n = 0)
  <2>1. rows \in Seq(S)
    BY <1>1, <1>3
  <2>2. Len(rows) = n
    BY <1>1, <1>3, <2>1, LenProperties
  <2> QED BY <2>1, <2>2, EmptySeq
<1>7. CASE n = 0
  <2>1. DOMAIN TPS = {}
    BY <1>1, <1>7
  <2>2. SumFunction(TPS) = 0
    BY <2>1, SumEmpty DEF SumFunction
  <2> QED BY <1>6, <1>7, <2>2 DEF TotalOf, rows
<1>8. CASE n # 0
  BY <1>4, <1>5, <1>6, <1>8 DEF TotalOf, rows, SumOf
<1> QED BY <1>7, <1>8

\* The replies in the hands of HandleReply, and those that the TPS addon has
\* not counted.
Held == {h.rep : h \in handling}
NotCounted == replies \cup {h.rep : h \in {k \in handling : k.next = 1}}

\* Every reply is to an applied request and no two are to the same one.
RepliesDiffer ==
  /\ IsFiniteSet(Applied)
  /\ \A r \in replies \cup Held : RepId(r) \in Applied
  /\ \A r, q \in replies \cup Held : RepId(r) = RepId(q) => r = q
  /\ replies \cap Held = {}
  /\ \A h, k \in handling : h.rep = k.rep => h = k

\* rec is the set of replies in the TPS slice.
Counted(rec) ==
  /\ IsFiniteSet(rec) /\ rec \subseteq ReplyMsg
  /\ \A r \in rec : RepId(r) \in Applied
  /\ \A r, q \in rec : RepId(r) = RepId(q) => r = q
  /\ \A r \in rec, w \in NotCounted : RepId(r) # RepId(w)
  /\ handled \subseteq rec
  /\ \A h \in handling : h.next > 1 => h.rep \in rec
  /\ SumFunction(TPS) = ReplyTotal(rec)

\* What the other addons have, and the files.
Recorded ==
  /\ handled \subseteq latencys
  /\ \A h \in handling : h.next = 3 => h.rep \in latencys
  /\ \A r \in handled : r.sid \in DOMAIN WaitLen
Written ==
  /\ writePc = 0 => DOMAIN files = {}
  /\ "TPS" \in DOMAIN files =>
       /\ TotalOf(files["TPS"]) >= ReplyTotal(handled)
       /\ TotalOf(files["TPS"]) \in Nat
       /\ TotalOf(files["TPS"]) <= AppliedTotal(Applied)
  /\ "TCL" \in DOMAIN files => handled \subseteq files["TCL"]
  /\ "WaitLen" \in DOMAIN files => \A r \in handled : r.sid \in DOMAIN files["WaitLen"]

ReportInv == UniqueInv /\ RepliesDiffer /\ (\E rec : Counted(rec)) /\ Recorded /\ Written

LEMMA ReportGood == Written => ReportMatchesReplies
BY DEF Written, ReportMatchesReplies, TotalOf, ReplyTotal, AppliedTotal

LEMMA ReportInit == Init => RepliesDiffer /\ (\E rec : Counted(rec)) /\ Recorded /\ Written
<1> SUFFICES ASSUME Init
             PROVE  RepliesDiffer /\ (\E rec : Counted(rec)) /\ Recorded /\ Written
  OBVIOUS
<1>1. /\ replies = {} /\ handling = {} /\ TPS = <<>> /\ handled = {} /\ DOMAIN files = {}
      /\ \A s \in Shard : applied[s] = {}
  BY DEF Init
<1>2. Applied = {} /\ Held = {} /\ NotCounted = {}
  BY <1>1 DEF Applied, Held, NotCounted
<1>3. RepliesDiffer
  BY <1>1, <1>2, FS_EmptySet DEF RepliesDiffer
<1>4. SumFunction(TPS) = ReplyTotal({})
  <2>1. DOMAIN TPS = {}
    BY <1>1
  <2> QED BY <2>1, SumEmpty, TotalIsSum DEF SumFunction
<1>5. Counted({})
  BY <1>1, <1>2, <1>4, FS_EmptySet DEF Counted
<1> QED BY <1>1, <1>3, <1>5 DEF Recorded, Written

LEMMA AppliedTyped ==
  ASSUME NEW a \in [Shard -> SUBSET (Seq(Nat) \X {1, 2})]
  PROVE  UNION {{<<s, q[1], q[2]>> : q \in a[s]} : s \in Shard} \in SUBSET Ids
<1>1. ASSUME NEW s \in Shard, NEW q \in a[s] PROVE <<s, q[1], q[2]>> \in Ids
  <2>1. q \in Seq(Nat) \X {1, 2}
    OBVIOUS
  <2> QED BY <2>1 DEF Ids
<1> QED BY <1>1

\* The files stay right when nothing is written and, once ctx.Done is seen,
\* no reply is handled to the end.
LEMMA FilesStayRight ==
  ASSUME TypeInv, Written, UNCHANGED <<files, writePc>>, TypeInv', IsFiniteSet(Applied'),
         Applied \subseteq Applied', writePc = 0 \/ handled' = handled
  PROVE  Written'
<1>1. CASE writePc = 0
  BY <1>1 DEF Written
<1>2. CASE handled' = handled
  <2>1. Applied' \in SUBSET Ids
    BY AppliedTyped DEF Applied, TypeInv, TypeOK
  <2>2. /\ AppliedTotal(Applied) <= AppliedTotal(Applied')
        /\ AppliedTotal(Applied) \in Nat /\ AppliedTotal(Applied') \in Nat
    BY <2>1, AppliedTotalGrows
  <2>3. ASSUME "TPS" \in DOMAIN files
        PROVE  TotalOf(files["TPS"]) <= AppliedTotal(Applied')
    <3>1. TotalOf(files["TPS"]) \in Nat /\ TotalOf(files["TPS"]) <= AppliedTotal(Applied)
      BY <2>3 DEF Written
    <3> QED BY <2>2, <3>1
  <2>4. AppliedTotal(Applied)' = AppliedTotal(Applied') /\ ReplyTotal(handled)' = ReplyTotal(handled)
    BY <1>2 DEF AppliedTotal, ReplyTotal, TotalTxs
  <2> QED BY <1>2, <2>3, <2>4 DEF Written
<1> QED BY <1>1, <1>2

\* The handlers stay, messages are lost at most.
LEMMA QuietReplies ==
  ASSUME RepliesDiffer, replies' \subseteq replies, UNCHANGED <<handling, applied>>
  PROVE  RepliesDiffer' /\ Applied' = Applied
<1>1. Applied' = Applied /\ Held' = Held
  BY DEF Applied, Held
<1> QED BY <1>1 DEF RepliesDiffer

LEMMA QuietCount ==
  ASSUME NEW rec, Counted(rec), replies' \subseteq replies,
         UNCHANGED <<handling, applied, TPS, handled>>
  PROVE  Counted(rec)'
<1>1. Applied' = Applied /\ NotCounted' \subseteq NotCounted
  BY DEF Applied, NotCounted
<1> QED BY <1>1 DEF Counted, ReplyTotal, TotalTxs

LEMMA QuietRecords ==
  ASSUME Recorded, UNCHANGED <<handling, handled, latencys, WaitLen>>
  PROVE  Recorded'
BY DEF Recorded

\* A reply to what had not been applied before.
LEMMA NewReply ==
  ASSUME RepliesDiffer, NEW rec, Counted(rec), NEW w \in ReplyMsg, RepId(w) \notin Applied,
         Applied' = Applied \cup {RepId(w)}, replies' \subseteq replies \cup {w},
         UNCHANGED <<handling, TPS, handled>>
  PROVE  RepliesDiffer' /\ Counted(rec)'
<1>1. Held' = Held /\ NotCounted' \subseteq NotCounted \cup {w}
  BY DEF Held, NotCounted
<1>2. \A r \in replies \cup Held : RepId(r) \in Applied
  BY DEF RepliesDiffer
<1>3. \A r \in replies \cup Held : RepId(r) # RepId(w)
  BY <1>2
<1>4. \A r, q \in replies' \cup Held' : RepId(r) = RepId(q) => r = q
  <2>1. \A r, q \in replies \cup Held : RepId(r) = RepId(q) => r = q
    BY DEF RepliesDiffer
  <2>2. replies' \cup Held' \subseteq (replies \cup Held) \cup {w}
    BY <1>1
  <2> QED BY <1>3, <2>1, <2>2
<1>5. replies' \cap Held' = {}
  BY <1>1, <1>3 DEF RepliesDiffer
<1>6. IsFiniteSet(Applied') /\ \A r \in replies' \cup Held' : RepId(r) \in Applied'
  BY <1>1, <1>2, FS_AddElement DEF RepliesDiffer
<1>7. \A h, k \in handling' : h.rep = k.rep => h = k
  BY DEF RepliesDiffer
<1>8. RepliesDiffer'
  BY <1>4, <1>5, <1>6, <1>7 DEF RepliesDiffer
<1>9. \A r \in rec : RepId(r) \in Applied /\ RepId(r) # RepId(w)
  BY DEF Counted
<1>10. \A r \in rec, q \in NotCounted' : RepId(r) # RepId(q)
  <2>1. \A r \in rec, q \in NotCounted : RepId(r) # RepId(q)
    BY DEF Counted
  <2> QED BY <1>1, <1>9, <2>1
<1>11. Counted(rec)'
  BY <1>9, <1>10 DEF Counted, ReplyTotal, TotalTxs
<1> QED BY <1>8, <1>11

\* HandleReply takes a reply from the network into its hands.
LEMMA TakesReply ==
  ASSUME RepliesDiffer, NEW rec, Counted(rec), Recorded, NEW rep \in replies, HandleReply(rep)
  PROVE  RepliesDiffer' /\ Counted(rec)' /\ Recorded'
<1> DEFINE new == [rep |-> rep, next |-> 1, last |-> measureAddons]
<1>1. /\ replies' = replies \ {rep} /\ handling' \subseteq handling \cup {new}
      /\ UNCHANGED <<applied, TPS, latencys, WaitLen, handled>>
  BY DEF HandleReply, pbftVars, recordVars
<1>2. new.rep = rep /\ new.next = 1
  OBVIOUS
<1> HIDE DEF new
<1>3. Applied' = Applied
  BY <1>1 DEF Applied
<1>4. Held' \subseteq Held \cup {rep} /\ NotCounted' \subseteq NotCounted
  <2>1. ASSUME NEW h \in handling' PROVE h.rep \in Held \cup {rep}
    BY <1>1, <1>2 DEF Held
  <2>2. ASSUME NEW h \in handling', h.next = 1 PROVE h.rep \in NotCounted
    BY <1>1, <1>2, <2>2 DEF NotCounted
  <2> QED BY <1>1, <2>1, <2>2 DEF Held, NotCounted
<1>5. rep \notin Held /\ replies' \cup Held' \subseteq replies \cup Held
  BY <1>1, <1>4 DEF RepliesDiffer
<1>6. \A h, k \in handling' : h.rep = k.rep => h = k
  <2>1. \A h \in handling : h.rep # rep
    BY <1>5 DEF Held
  <2>2. \A h, k \in handling : h.rep = k.rep => h = k
    BY DEF RepliesDiffer
  <2> QED BY <1>1, <1>2, <2>1, <2>2
<1>7. replies' \cap Held' = {}
  BY <1>1, <1>4 DEF RepliesDiffer
<1>8. RepliesDiffer'
  <2>1. \A r \in replies' \cup Held' : RepId(r) \in Applied'
    BY <1>3, <1>5 DEF RepliesDiffer
  <2>2. \A r, q \in replies' \cup Held' : RepId(r) = RepId(q) => r = q
    BY <1>5 DEF RepliesDiffer
  <2>3. IsFiniteSet(Applied')
    BY <1>3 DEF RepliesDiffer
  <2> QED BY <1>6, <1>7, <2>1, <2>2, <2>3 DEF RepliesDiffer
<1>9. Counted(rec)'
  <2>1. \A h \in handling' : h.next > 1 => h.rep \in rec
    <3>1. ~(new.next > 1)
      BY <1>2
    <3> QED BY <1>1, <3>1 DEF Counted
  <2>2. \A r \in rec, q \in NotCounted' : RepId(r) # RepId(q)
    BY <1>4 DEF Counted
  <2> QED BY <1>1, <1>3, <2>1, <2>2 DEF Counted, ReplyTotal, TotalTxs
<1>10. Recorded'
  <2>1. new.next # 3
    BY <1>2
  <2> QED BY <1>1, <2>1 DEF Recorded
<1> QED BY <1>8, <1>9, <1>10

\* A turn of HandleReply's loop takes the handler one addon on, or ends it.
LEMMA TurnMoves ==
  ASSUME TypeInv, NEW h \in handling, HandleReplyStep(h)
  PROVE  /\ h.next \in 1..3 /\ h.rep \in ReplyMsg
         /\ MeasureMethod[1] = "TPS" /\ MeasureMethod[2] = "TCL" /\ MeasureMethod[3] = "WaitLen"
         /\ \A k \in handling' : \/ k \in handling /\ k # h
                                 \/ k.rep = h.rep /\ k.next = h.next + 1
         /\ \A k, l \in handling' \ handling : k = l
         /\ h \notin handling'
         /\ UNCHANGED <<replies, applied, files, writePc>>
<1>1. h \in Handler /\ h.next \in 1..h.last /\ h.last <= measureAddons /\ measureAddons \in 0..3
  BY ThreeAddons DEF TypeInv, TypeOK
<1>2. h.next \in 1..3 /\ h.rep \in ReplyMsg
  <2>1. h.next \in Nat /\ h.last \in Nat /\ h.rep \in ReplyMsg
    BY <1>1 DEF Handler
  <2> QED BY <1>1, <2>1
<1> DEFINE new == [h EXCEPT !.next = @ + 1]
<1>3. new.rep = h.rep /\ new.next = h.next + 1 /\ new # h
  BY <1>1, <1>2 DEF Handler
<1> HIDE DEF new
<1>4. handling' \subseteq (handling \ {h}) \cup {new}
  BY DEF HandleReplyStep, new
<1>5. UNCHANGED <<replies, applied, files, writePc>>
  BY DEF HandleReplyStep, pbftVars
<1>6. MeasureMethod[1] = "TPS" /\ MeasureMethod[2] = "TCL" /\ MeasureMethod[3] = "WaitLen"
  BY DEF MeasureMethod
<1> QED BY <1>2, <1>3, <1>4, <1>5, <1>6

\* No other reply has the identity of one in a handler's hands.
LEMMA TurnReplies ==
  ASSUME TypeInv, RepliesDiffer, NEW h \in handling, HandleReplyStep(h)
  PROVE  /\ RepliesDiffer' /\ Applied' = Applied
         /\ \A w \in NotCounted' : w \in NotCounted /\ RepId(w) # RepId(h.rep)
<1>1. /\ h.next \in 1..3
      /\ \A k \in handling' : \/ k \in handling /\ k # h
                              \/ k.rep = h.rep /\ k.next = h.next + 1
      /\ \A k, l \in handling' \ handling : k = l
      /\ h \notin handling' /\ UNCHANGED <<replies, applied>>
  BY TurnMoves
<1>2. Applied' = Applied
  BY <1>1 DEF Applied
<1>3. Held' \subseteq Held /\ h.rep \in Held
  BY <1>1 DEF Held
<1>4. \A k, l \in handling : k.rep = l.rep => k = l
  BY DEF RepliesDiffer
<1>5. ASSUME NEW k \in handling', NEW l \in handling', k.rep = l.rep PROVE k = l
  <2>1. CASE k \in handling /\ l \in handling
    BY <1>4, <1>5, <2>1
  <2>2. CASE k \in handling /\ l \notin handling
    <3>1. k # h /\ l.rep = h.rep
      BY <1>1, <2>2
    <3> QED BY <1>4, <1>5, <2>2, <3>1
  <2>3. CASE k \notin handling /\ l \in handling
    <3>1. l # h /\ k.rep = h.rep
      BY <1>1, <2>3
    <3> QED BY <1>4, <1>5, <2>3, <3>1
  <2>4. CASE k \notin handling /\ l \notin handling
    BY <1>1, <2>4
  <2> QED BY <2>1, <2>2, <2>3, <2>4
<1>6. RepliesDiffer'
  <2>1. \A r \in replies' \cup Held' : RepId(r) \in Applied'
    BY <1>1, <1>2, <1>3 DEF RepliesDiffer
  <2>2. \A r, q \in replies' \cup Held' : RepId(r) = RepId(q) => r = q
    BY <1>1, <1>3 DEF RepliesDiffer
  <2>3. IsFiniteSet(Applied') /\ replies' \cap Held' = {}
    BY <1>1, <1>2, <1>3 DEF RepliesDiffer
  <2> QED BY <1>5, <2>1, <2>2, <2>3 DEF RepliesDiffer
<1>7. ASSUME NEW w \in NotCounted' PROVE w \in NotCounted /\ RepId(w) # RepId(h.rep)
  <2>1. CASE w \in replies
    <3>1. w # h.rep
      BY <1>3, <2>1 DEF RepliesDiffer
    <3>2. RepId(w) # RepId(h.rep)
      BY <1>3, <2>1, <3>1 DEF RepliesDiffer
    <3> QED BY <2>1, <3>2 DEF NotCounted
  <2>2. CASE w \notin replies
    <3>1. PICK k \in handling' : k.next = 1 /\ w = k.rep
      BY <1>1, <2>2 DEF NotCounted
    <3>2. h.next + 1 # 1
      BY <1>1
    <3>3. k \in handling /\ k # h
      BY <1>1, <3>1, <3>2
    <3>4. w # h.rep /\ w \in Held
      BY <1>4, <3>1, <3>3 DEF Held
    <3>5. RepId(w) # RepId(h.rep)
      BY <1>3, <3>4 DEF RepliesDiffer
    <3> QED BY <3>1, <3>3, <3>5 DEF NotCounted
  <2> QED BY <2>1, <2>2
<1> QED BY <1>2, <1>6, <1>7

LEMMA ReplyTotalNatural ==
  ASSUME NEW S \in SUBSET ReplyMsg, IsFiniteSet(S)
  PROVE  ReplyTotal(S) \in Nat
<1> DEFINE w == [r \in S |-> Len(r.txs)]
<1>1. \A x \in S : w[x] \in Nat
  BY IdTyped
<1>2. ReplyTotal(S) = SumFunctionOnSet(w, S)
  BY TotalIsSum
<1> HIDE DEF w
<1> QED BY <1>1, <1>2, SumNatural

\* Which addon a turn is about.
LEMMA TurnUpdates ==
  ASSUME TypeInv, NEW h \in handling, HandleReplyStep(h)
  PROVE  /\ h.next = 1 => UpdateTPS(h.rep) /\ handled' = handled
         /\ h.next = 2 => UpdateTCL(h.rep) /\ handled' = handled
         /\ h.next = 3 => /\ UpdateWaitLen(h.rep) /\ handled' \subseteq handled \cup {h.rep}
                          /\ writePc = 0 \/ handled' = handled
<1>1. MeasureMethod[1] = "TPS" /\ MeasureMethod[2] = "TCL" /\ MeasureMethod[3] = "WaitLen"
  BY TurnMoves
<1>2. UpdateRecord(MeasureMethod[h.next], h.rep)
      /\ handled' = IF h.next = 3 /\ writePc = 0 THEN handled \cup {h.rep} ELSE handled
  BY ThreeAddons DEF HandleReplyStep
<1>3. h.next = 1 => UpdateTPS(h.rep) /\ handled' = handled
  BY <1>1, <1>2 DEF UpdateRecord
<1>4. h.next = 2 => UpdateTCL(h.rep) /\ handled' = handled
  BY <1>1, <1>2 DEF UpdateRecord
<1>5. h.next = 3 => UpdateWaitLen(h.rep)
  BY <1>1, <1>2 DEF UpdateRecord
<1> QED BY <1>2, <1>3, <1>4, <1>5

\* The first turn counts the reply, the others do not count it again.
LEMMA TurnCounts ==
  ASSUME TypeInv, RepliesDiffer, NEW rec, Counted(rec), NEW h \in handling, HandleReplyStep(h)
  PROVE  \E new : Counted(new)'
<1> DEFINE new == rec \cup {h.rep}
<1>1. /\ h.next \in 1..3 /\ h.rep \in ReplyMsg
      /\ \A k \in handling' : k \in handling \/ k.rep = h.rep
  BY TurnMoves
<1>2. /\ Applied' = Applied
      /\ \A w \in NotCounted' : w \in NotCounted /\ RepId(w) # RepId(h.rep)
  BY TurnReplies
<1>3. /\ rec \subseteq ReplyMsg /\ IsFiniteSet(rec)
      /\ \A r \in rec : RepId(r) \in Applied
      /\ \A r, q \in rec : RepId(r) = RepId(q) => r = q
      /\ \A r \in rec, w \in NotCounted : RepId(r) # RepId(w)
      /\ SumFunction(TPS) = ReplyTotal(rec) /\ handled \subseteq rec
      /\ \A k \in handling : k.next > 1 => k.rep \in rec
  BY DEF Counted
<1>4. \A w \in NotCounted' : \A r \in new : RepId(r) # RepId(w)
  BY <1>2, <1>3
<1>5. RepId(h.rep) \in Applied
  BY DEF RepliesDiffer, Held
<1>6. handled' \subseteq new
  BY <1>1, <1>3, TurnUpdates
<1>7. /\ IsFiniteSet(new) /\ new \subseteq ReplyMsg
      /\ \A r \in new : RepId(r) \in Applied'
  BY <1>1, <1>2, <1>3, <1>5, FS_AddElement
<1>8. \A k \in handling' : k.next > 1 => k.rep \in new
  BY <1>1, <1>3
<1>9. (\A r, q \in new : RepId(r) = RepId(q) => r = q) /\ SumFunction(TPS') = ReplyTotal(new)
  <2>1. CASE h.next = 1
    <3>1. h.rep \in NotCounted
      BY <2>1 DEF NotCounted
    <3>2. \A r \in rec : RepId(r) # RepId(h.rep)
      BY <1>3, <3>1
    <3>3. SumFunction(TPS') = Len(h.rep.txs) + SumFunction(TPS)
      BY <1>1, <2>1, TurnUpdates, TPSSumUpdated DEF TypeInv, TypeOK
    <3>4. ReplyTotal(new) = Len(h.rep.txs) + ReplyTotal(rec)
      BY <1>1, <1>3, <3>2, ReplyTotalAdds
    <3> QED BY <1>3, <3>2, <3>3, <3>4
  <2>2. CASE h.next # 1
    <3>1. h.next > 1 /\ (h.next = 2 \/ h.next = 3)
      BY <1>1, <2>2
    <3>2. new = rec
      BY <1>3, <3>1
    <3>3. TPS' = TPS
      BY <3>1, TurnUpdates DEF UpdateTCL, UpdateWaitLen
    <3> QED BY <1>3, <3>2, <3>3
  <2> QED BY <2>1, <2>2
<1> HIDE DEF new
<1>10. Counted(new)'
  BY <1>4, <1>6, <1>7, <1>8, <1>9 DEF Counted, ReplyTotal, TotalTxs
<1> QED BY <1>10

LEMMA TurnRecords ==
  ASSUME TypeInv, Recorded, NEW h \in handling, HandleReplyStep(h)
  PROVE  Recorded'
<1>1. /\ h.next \in 1..3 /\ h.rep \in ReplyMsg
      /\ \A k \in handling' : \/ k \in handling /\ k # h
                              \/ k.rep = h.rep /\ k.next = h.next + 1
  BY TurnMoves
<1>2. /\ handled \subseteq latencys
      /\ \A k \in handling : k.next = 3 => k.rep \in latencys
      /\ \A r \in handled : r.sid \in DOMAIN WaitLen
  BY DEF Recorded
<1>3. CASE h.next = 1
  <2>1. UNCHANGED <<latencys, WaitLen, handled>>
    BY <1>3, TurnUpdates DEF UpdateTPS
  <2>2. h.next + 1 # 3
    BY <1>3
  <2>3. \A k \in handling' : k.next = 3 => k.rep \in latencys
    BY <1>1, <1>2, <2>2
  <2> QED BY <1>2, <2>1, <2>3 DEF Recorded
<1>4. CASE h.next = 2
  <2>1. latencys' = latencys \cup {h.rep} /\ UNCHANGED <<WaitLen, handled>>
    BY <1>4, TurnUpdates DEF UpdateTCL
  <2>2. \A k \in handling' : k.next = 3 => k.rep \in latencys'
    BY <1>1, <1>2, <2>1
  <2> QED BY <1>2, <2>1, <2>2 DEF Recorded
<1>5. CASE h.next = 3
  <2>1. latencys' = latencys /\ DOMAIN WaitLen' = DOMAIN WaitLen \cup {h.rep.sid}
        /\ handled' \subseteq handled \cup {h.rep}
    BY <1>5, TurnUpdates DEF UpdateWaitLen
  <2>2. h.next + 1 # 3
    BY <1>5
  <2>3. \A k \in handling' : k.next = 3 => k.rep \in latencys
    BY <1>1, <1>2, <2>2
  <2>4. handled' \subseteq latencys /\ \A r \in handled' : r.sid \in DOMAIN WaitLen'
    BY <1>2, <1>5, <2>1
  <2> QED BY <2>1, <2>3, <2>4 DEF Recorded
<1> QED BY <1>1, <1>3, <1>4, <1>5

\* WriteResult writes what is recorded.
LEMMA WriteIsRight ==
  ASSUME TypeInv, IsFiniteSet(Applied), NEW rec, Counted(rec), Recorded, Written, WriteResult
  PROVE  Written'
<1>1. writePc \in 1..3 /\ writePc' = writePc + 1 /\ UNCHANGED <<applied, handled>>
  BY ThreeAddons DEF WriteResult, WriteLeft, pbftVars
<1>2. Applied' = Applied
  BY <1>1 DEF Applied
<1> DEFINE addon == MeasureMethod[writePc]
           text == CASE addon = "TPS" -> TPSRows
                     [] addon = "TCL" -> TCLRows
                     [] addon = "WaitLen" -> WaitLenRow
<1>3. files' = [a \in DOMAIN files \cup {addon} |-> IF a = addon THEN text ELSE files[a]]
  BY DEF WriteResult
<1>4. addon \in {"TPS", "TCL", "WaitLen"}
  BY <1>1 DEF MeasureMethod
<1>5. /\ addon = "TPS" => text = TPSRows
      /\ addon = "TCL" => text = latencys
      /\ addon = "WaitLen" => text = WaitLen
  BY DEF TCLRows, WaitLenRow
<1> HIDE DEF addon, text
<1>6. /\ DOMAIN files' = DOMAIN files \cup {addon} /\ files'[addon] = text
      /\ \A a \in DOMAIN files : a # addon => files'[a] = files[a]
  BY <1>3
<1>7. ASSUME "TPS" \in DOMAIN files'
      PROVE  /\ TotalOf(files'["TPS"]) >= ReplyTotal(handled)
             /\ TotalOf(files'["TPS"]) \in Nat
             /\ TotalOf(files'["TPS"]) <= AppliedTotal(Applied)
  <2>1. CASE addon = "TPS"
    <3>1. TotalOf(files'["TPS"]) = ReplyTotal(rec)
      BY <1>5, <1>6, <2>1, RowsTotal DEF Counted, TypeInv, TypeOK
    <3>2. rec \in SUBSET ReplyMsg /\ IsFiniteSet(rec) /\ handled \in SUBSET rec
      BY DEF Counted
    <3>3. ReplyTotal(handled) <= ReplyTotal(rec)
      BY <3>2, ReplyTotalGrows
    <3>4. Applied \in SUBSET Ids
      BY AppliedTyped DEF Applied, TypeInv, TypeOK
    <3>5. ReplyTotal(rec) <= AppliedTotal(Applied)
      <4>1. /\ \A r \in rec : RepId(r) \in Applied
            /\ \A r, q \in rec : RepId(r) = RepId(q) => r = q
        BY DEF Counted
      <4> QED BY <3>2, <3>4, <4>1, RepliesFitApplied
    <3>6. ReplyTotal(rec) \in Nat /\ ReplyTotal(handled) \in Nat
      BY <3>2, ReplyTotalNatural, FS_Subset
    <3> QED BY <3>1, <3>3, <3>5, <3>6
  <2>2. CASE addon # "TPS"
    BY <1>6, <1>7, <2>2 DEF Written
  <2> QED BY <2>1, <2>2
<1>8. "TCL" \in DOMAIN files' => handled \subseteq files'["TCL"]
  <2>1. CASE addon = "TCL"
    BY <1>5, <1>6, <2>1 DEF Recorded
  <2>2. CASE addon # "TCL"
    BY <1>6, <2>2 DEF Written
  <2> QED BY <2>1, <2>2
<1>9. "WaitLen" \in DOMAIN files' => \A r \in handled : r.sid \in DOMAIN files'["WaitLen"]
  <2>1. CASE addon = "WaitLen"
    BY <1>5, <1>6, <2>1 DEF Recorded
  <2>2. CASE addon # "WaitLen"
    BY <1>6, <2>2 DEF Written
  <2> QED BY <2>1, <2>2
<1>10. writePc' # 0
  BY <1>1
<1>11. ReplyTotal(handled)' = ReplyTotal(handled) /\ AppliedTotal(Applied)' = AppliedTotal(Applied)
  BY <1>1, <1>2 DEF ReplyTotal, AppliedTotal, TotalTxs
<1> QED BY <1>1, <1>7, <1>8, <1>9, <1>10, <1>11 DEF Written

\* What PBFT applies, for the first or the second time, it had not applied
\* so before, and it replies to that at most.
LEMMA ApplyReplies ==
  ASSUME TypeInv, RequestsDiffer, NEW s \in Shard, PbftApply(s) \/ PbftApplyAgain(s)
  PROVE  \E w \in ReplyMsg : /\ RepId(w) \notin Applied
                             /\ Applied' = Applied \cup {RepId(w)}
                             /\ replies' \subseteq replies \cup {w}
<1>1. /\ applied \in [Shard -> SUBSET (Seq(Nat) \X {1, 2})]
      /\ requestQueue[s] \in Seq(Seq(Nat))
  BY DEF TypeInv, TypeOK
<1>2. \E q \in Seq(Nat), c \in {1, 2} :
        /\ <<q, c>> \notin applied[s] /\ Reply(s, q, c)
        /\ applied' = [applied EXCEPT ![s] = @ \cup {<<q, c>>}]
  <2>1. CASE PbftApply(s)
    <3> DEFINE q == current[s][1]
    <3>1. /\ current[s] # <<>> /\ Reply(s, q, 1)
          /\ applied' = [applied EXCEPT ![s] = @ \cup {<<q, 1>>}]
      BY <2>1 DEF PbftApply
    <3>2. q \in Seq(Nat) /\ q \notin AppliedReqs(s)
      BY <3>1, CurrentIsNew
    <3> HIDE DEF q
    <3>3. <<q, 1>> \notin applied[s]
      <4>1. <<q, 1>>[1] = q
        OBVIOUS
      <4> QED BY <3>2, <4>1 DEF AppliedReqs
    <3> QED BY <3>1, <3>2, <3>3
  <2>2. CASE PbftApplyAgain(s)
    <3>1. PICK a \in applied[s] :
            /\ <<a[1], 2>> \notin applied[s] /\ Reply(s, a[1], 2)
            /\ applied' = [applied EXCEPT ![s] = @ \cup {<<a[1], 2>>}]
      BY <2>2 DEF PbftApplyAgain
    <3>2. a[1] \in Seq(Nat)
      BY <1>1
    <3> QED BY <3>1, <3>2
  <2> QED BY <2>1, <2>2
<1>3. PICK q \in Seq(Nat), c \in {1, 2} :
        /\ <<q, c>> \notin applied[s] /\ Reply(s, q, c)
        /\ applied' = [applied EXCEPT ![s] = @ \cup {<<q, c>>}]
  BY <1>2
<1> DEFINE w == [sid |-> s, txs |-> q, copy |-> c, ReqQueueLen |-> Len(requestQueue[s])]
<1>4. w \in ReplyMsg /\ RepId(w) = <<s, q, c>>
  <2>1. Len(requestQueue[s]) \in Nat
    BY <1>1, LenProperties
  <2> QED BY <2>1 DEF ReplyMsg, RepId
<1>5. replies' \subseteq replies \cup {w}
  BY <1>3 DEF Reply
<1> HIDE DEF w
<1>6. applied'[s] = applied[s] \cup {<<q, c>>}
      /\ \A t \in Shard \ {s} : applied'[t] = applied[t]
  BY <1>1, <1>3
<1>7. \A x : x \in Applied <=> \E t \in Shard : \E a \in applied[t] : x = <<t, a[1], a[2]>>
  BY DEF Applied
<1>8. \A x : x \in Applied' <=> \E t \in Shard : \E a \in applied'[t] : x = <<t, a[1], a[2]>>
  BY DEF Applied
<1>9. <<q, c>>[1] = q /\ <<q, c>>[2] = c
  OBVIOUS
<1>10. <<s, q, c>> \notin Applied
  <2> SUFFICES ASSUME NEW t \in Shard, NEW a \in applied[t], <<s, q, c>> = <<t, a[1], a[2]>>
               PROVE  FALSE
    BY <1>7
  <2>1. t = s /\ a[1] = q /\ a[2] = c
    OBVIOUS
  <2>2. a \in Seq(Nat) \X {1, 2}
    BY <1>1
  <2>3. a = <<q, c>>
    BY <2>1, <2>2
  <2> QED BY <1>3, <2>1, <2>3
<1>11. Applied' = Applied \cup {<<s, q, c>>}
  <2>1. ASSUME NEW x \in Applied' PROVE x \in Applied \cup {<<s, q, c>>}
    <3>1. PICK t \in Shard : \E a \in applied'[t] : x = <<t, a[1], a[2]>>
      BY <1>8
    <3>2. PICK a \in applied'[t] : x = <<t, a[1], a[2]>>
      BY <3>1
    <3>3. CASE a \in applied[t]
      BY <1>7, <3>2, <3>3
    <3>4. CASE a \notin applied[t]
      <4>1. t = s /\ a = <<q, c>>
        BY <1>6, <3>4
      <4> QED BY <1>9, <3>2, <4>1
    <3> QED BY <3>3, <3>4
  <2>2. ASSUME NEW x \in Applied PROVE x \in Applied'
    <3>1. PICK t \in Shard : \E a \in applied[t] : x = <<t, a[1], a[2]>>
      BY <1>7
    <3>2. PICK a \in applied[t] : x = <<t, a[1], a[2]>>
      BY <3>1
    <3>3. a \in applied'[t]
      BY <1>6
    <3> QED BY <1>8, <3>2, <3>3
  <2>3. <<s, q, c>> \in Applied'
    <3>1. <<q, c>> \in applied'[s]
      BY <1>6
    <3> QED BY <1>8, <1>9, <3>1
  <2> QED BY <2>1, <2>2, <2>3
<1> QED BY <1>4, <1>5, <1>10, <1>11

LEMMA ReportNext ==
  ASSUME ReportInv, [Next]_vars
  PROVE  ReportInv'
<1>1. /\ UniqueInv /\ TypeInv /\ RequestsDiffer /\ RepliesDiffer /\ Recorded /\ Written
      /\ setup.shards \subseteq Shard
  BY ScenarioTyped DEF ReportInv, UniqueInv, TypeInv, TypeOK
<1>2. PICK rec : Counted(rec)
  BY DEF ReportInv
<1>3. UniqueInv' /\ TypeInv'
  BY <1>1, UniqueNext DEF UniqueInv
<1> DEFINE Rest == RepliesDiffer' /\ (\E r : Counted(r)') /\ Recorded' /\ Written'
<1>4. ASSUME NEW s \in Shard, PbftApply(s) \/ PbftApplyAgain(s) PROVE Rest
  <2>1. UNCHANGED <<handling, TPS, handled, latencys, WaitLen, files, writePc>>
    BY <1>4 DEF PbftApply, PbftApplyAgain, measureVars, recordVars
  <2>2. PICK w \in ReplyMsg : /\ RepId(w) \notin Applied
                              /\ Applied' = Applied \cup {RepId(w)}
                              /\ replies' \subseteq replies \cup {w}
    BY <1>1, <1>4, ApplyReplies
  <2>3. RepliesDiffer' /\ Counted(rec)'
    BY <1>1, <1>2, <2>1, <2>2, NewReply
  <2>4. Recorded'
    BY <1>1, <2>1, QuietRecords
  <2>5. Written'
    <3>1. IsFiniteSet(Applied') /\ Applied \subseteq Applied'
      BY <2>2, <2>3 DEF RepliesDiffer
    <3> QED BY <1>1, <1>3, <2>1, <3>1, FilesStayRight
  <2> QED BY <2>3, <2>4, <2>5
<1>5. ASSUME NEW rep \in replies, HandleReply(rep) PROVE Rest
  <2>1. RepliesDiffer' /\ Counted(rec)' /\ Recorded'
    BY <1>1, <1>2, <1>5, TakesReply
  <2>2. UNCHANGED <<applied, files, writePc, handled>>
    BY <1>5 DEF HandleReply, pbftVars
  <2>3. IsFiniteSet(Applied') /\ Applied \subseteq Applied'
    BY <2>1, <2>2 DEF RepliesDiffer, Applied
  <2> QED BY <1>1, <1>3, <2>1, <2>2, <2>3, FilesStayRight
<1>6. ASSUME NEW h \in handling, HandleReplyStep(h) PROVE Rest
  <2>1. RepliesDiffer' /\ Applied' = Applied
    BY <1>1, <1>6, TurnReplies
  <2>2. \E r : Counted(r)'
    BY <1>1, <1>2, <1>6, TurnCounts
  <2>3. Recorded'
    BY <1>1, <1>6, TurnRecords
  <2>4. UNCHANGED <<files, writePc>> /\ (writePc = 0 \/ handled' = handled)
    <3>1. h.next = 1 \/ h.next = 2 \/ h.next = 3
      BY <1>1, <1>6, TurnMoves
    <3> QED BY <1>1, <1>6, <3>1, TurnMoves, TurnUpdates
  <2>5. IsFiniteSet(Applied') /\ Applied \subseteq Applied'
    BY <2>1 DEF RepliesDiffer
  <2> QED BY <1>1, <1>3, <2>1, <2>2, <2>3, <2>4, <2>5, FilesStayRight
<1>7. ASSUME WriteResult PROVE Rest
  <2>1. UNCHANGED <<replies, handling, applied, TPS, handled, latencys, WaitLen>>
    BY <1>7 DEF WriteResult, pbftVars, recordVars
  <2>2. Written'
    BY <1>1, <1>2, <1>7, WriteIsRight DEF RepliesDiffer
  <2>3. RepliesDiffer'
    BY <1>1, <2>1, QuietReplies
  <2>4. Counted(rec)'
    BY <1>2, <2>1, QuietCount
  <2>5. Recorded'
    BY <1>1, <2>1, QuietRecords
  <2> QED BY <2>2, <2>3, <2>4, <2>5
<1>8. ASSUME MeasureStop PROVE Rest
  <2>1. /\ UNCHANGED <<replies, handling, applied, TPS, handled, latencys, WaitLen, files>>
        /\ writePc' # 0
    BY <1>8 DEF MeasureStop, pbftVars, recordVars
  <2>2. Applied' = Applied
    BY <2>1 DEF Applied
  <2>3. Written'
    BY <1>1, <2>1, <2>2 DEF Written, ReplyTotal, AppliedTotal, TotalTxs
  <2>4. RepliesDiffer'
    BY <1>1, <2>1, QuietReplies
  <2>5. Counted(rec)'
    BY <1>2, <2>1, QuietCount
  <2>6. Recorded'
    BY <1>1, <2>1, QuietRecords
  <2> QED BY <2>3, <2>4, <2>5, <2>6
<1>9. ASSUME replies' \subseteq replies,
             UNCHANGED <<handling, applied, TPS, handled, latencys, WaitLen, files, writePc>>
      PROVE  Rest
  <2>1. RepliesDiffer' /\ Applied' = Applied
    BY <1>1, <1>9, QuietReplies
  <2>2. IsFiniteSet(Applied')
    BY <2>1 DEF RepliesDiffer
  <2>3. Counted(rec)'
    BY <1>2, <1>9, QuietCount
  <2>4. Recorded'
    BY <1>1, <1>9, QuietRecords
  <2>5. Written'
    BY <1>1, <1>3, <1>9, <2>1, <2>2, FilesStayRight
  <2> QED BY <2>1, <2>3, <2>4, <2>5
<1> HIDE DEF Rest
<1>10. ASSUME Generate \/ Lose \/ Interrupt \/ UNCHANGED vars
              \/ (\E m \in inject : HandleInject(m))
       PROVE  Rest
  <2>1. replies' \subseteq replies /\ UNCHANGED <<applied, measureVars>>
    BY <1>10 DEF Generate, GenReady, GenTick, GenStop, Lose, Interrupt, vars, HandleInject,
       pbftVars
  <2> QED BY <1>9, <2>1 DEF measureVars, recordVars
<1>11. ASSUME NEW s \in Shard, TakeTxs(s) \/ Propose(s) \/ PbftDispatch(s) \/ StopView(s)
       PROVE  Rest
  <2>1. replies' = replies /\ UNCHANGED <<applied, measureVars>>
    BY <1>11 DEF TakeTxs, Propose, PbftDispatch, StopView, pbftVars
  <2> QED BY <1>9, <2>1 DEF measureVars, recordVars
<1>12. ASSUME NewMeasureAddon \/ SecondPasses PROVE Rest
  <2>1. /\ replies' = replies
        /\ UNCHANGED <<handling, applied, TPS, handled, latencys, WaitLen, files, writePc>>
    BY <1>12 DEF NewMeasureAddon, SecondPasses, pbftVars, recordVars
  <2> QED BY <1>9, <2>1
<1>13. ASSUME Measure PROVE Rest
  BY <1>5, <1>6, <1>7, <1>8, <1>12, <1>13 DEF Measure
<1>14. ASSUME NEW s \in Shard, Pbft(s) PROVE Rest
  BY <1>4, <1>11, <1>14 DEF Pbft
<1>15. Rest
  BY <1>1, <1>10, <1>11, <1>13, <1>14 DEF Next
<1> QED BY <1>3, <1>15 DEF ReportInv, Rest

\* ReportMatchesReplies holds in every behaviour, for any number of shards,
\* ticks, seconds, repeated applications and losses: TPS.csv counts every
\* reply that all addons recorded before ctx.Done and no transaction more
\* than PBFT applied, and the replies are in the other two files.
THEOREM ReportIsRight == Spec => []ReportMatchesReplies
<1>1. Init => ReportInv
  BY TypeInit, FlowInit, UniqueInit, ReportInit DEF ReportInv, UniqueInv, FlowInv
<1>2. ReportInv /\ [Next]_vars => ReportInv'
  BY ReportNext
<1>3. ReportInv => ReportMatchesReplies
  BY ReportGood DEF ReportInv
<1> QED BY <1>1, <1>2, <1>3, PTL DEF Spec
=============================================================================
