----------------------------- MODULE DataLemmas -----------------------------
(***************************************************************************)
(* Facts about data that the proofs need, whatever the data means:         *)
(* sequences that come from other ones, greatest and least elements,       *)
(* induction over finite sets, and what the sum of a function over a set   *)
(* is (SumFunctionOnSet of the community modules, which takes the elements *)
(* in any order), and that a fold from the left is defined.                *)
(***************************************************************************)
EXTENDS Integers, SequencesExt, SeqFilter, FiniteSetTheorems, SequenceTheorems, WellFoundedInduction, TLAPS

-----------------------------------------------------------------------------
(* sequences *)

Sequence(s) == \E n \in Nat : s \in [1..n -> {s[i] : i \in DOMAIN s}]

LEMMA SeqFacts ==
  ASSUME NEW s
  PROVE  /\ Sequence(s) => /\ s \in Seq({s[i] : i \in DOMAIN s}) /\ Len(s) \in Nat /\ DOMAIN s = 1..Len(s)
         /\ \A S : s \in Seq(S) => Sequence(s)
<1>1. ASSUME NEW n \in Nat, s \in [1..n -> {s[i] : i \in DOMAIN s}]
      PROVE  s \in Seq({s[i] : i \in DOMAIN s}) /\ Len(s) \in Nat /\ DOMAIN s = 1..Len(s)
  BY <1>1, LenProperties DEF Seq
<1>2. ASSUME NEW S, s \in Seq(S) PROVE Sequence(s)
  <2>1. Len(s) \in Nat /\ DOMAIN s = 1..Len(s) /\ s \in [1..Len(s) -> S]
    BY <1>2, LenProperties
  <2> QED BY <2>1 DEF Sequence
<1> QED BY <1>1, <1>2 DEF Sequence

\* A sequence is one of any set that has its elements.
LEMMA SeqIn ==
  ASSUME NEW s, Sequence(s), NEW S, \A i \in DOMAIN s : s[i] \in S
  PROVE  s \in Seq(S)
<1>1. PICK n \in Nat : s \in [1..n -> {s[i] : i \in DOMAIN s}]
  BY DEF Sequence
<1>2. s \in [1..n -> S]
  BY <1>1
<1> QED BY <1>2

LEMMA FunctionIsSeq ==
  ASSUME NEW s, NEW n \in Nat, NEW S, s \in [1..n -> S]
  PROVE  Sequence(s) /\ Len(s) = n /\ DOMAIN s = 1..n
<1>1. s \in Seq(S)
  OBVIOUS
<1>2. Len(s) \in Nat /\ DOMAIN s = 1..Len(s) /\ DOMAIN s = 1..n
  BY <1>1, LenProperties
<1>3. Len(s) = n
  BY <1>2
<1> QED BY <1>1, <1>2, <1>3, SeqFacts

LEMMA AppendIs ==
  ASSUME NEW s, Sequence(s), NEW x
  PROVE  LET t == Append(s, x)
         IN  /\ Sequence(t) /\ DOMAIN t = 1..(Len(s) + 1) /\ Len(t) = Len(s) + 1
             /\ t[Len(s) + 1] = x /\ \A i \in 1..Len(s) : t[i] = s[i]
<1> DEFINE S == {s[i] : i \in DOMAIN s} \cup {x}
           t == Append(s, x)
<1>1. s \in Seq(S) /\ x \in S
  BY SeqIn
<1> HIDE DEF S
<1>2. t \in Seq(S) /\ Len(t) = Len(s) + 1 /\ t[Len(s) + 1] = x /\ \A i \in 1..Len(s) : t[i] = s[i]
  BY <1>1, AppendProperties
<1> QED BY <1>2, SeqFacts

LEMMA RemoveAtIs ==
  ASSUME NEW s, Sequence(s), NEW k \in DOMAIN s
  PROVE  LET t == RemoveAt(s, k)
         IN  /\ Sequence(t) /\ DOMAIN t = 1..(Len(s) - 1)
             /\ \A i \in 1..(Len(s) - 1) : t[i] = s[IF i < k THEN i ELSE i + 1]
<1> DEFINE S == {s[i] : i \in DOMAIN s}
           a == SubSeq(s, 1, k - 1)
           b == SubSeq(s, k + 1, Len(s))
           t == a \o b
<1>1. s \in Seq(S) /\ Len(s) \in Nat /\ k \in 1..Len(s)
  BY SeqFacts
<1> HIDE DEF S
<1>2. a \in Seq(S) /\ Len(a) = k - 1 /\ \A i \in 1..(k - 1) : a[i] = s[i]
  BY <1>1
<1>3. b \in Seq(S) /\ Len(b) = Len(s) - k /\ \A i \in 1..(Len(s) - k) : b[i] = s[k + i]
  BY <1>1
<1> HIDE DEF a, b
<1>4. /\ t \in Seq(S) /\ Len(t) = Len(s) - 1
      /\ \A i \in 1..(Len(s) - 1) : t[i] = IF i < k THEN a[i] ELSE b[i - (k - 1)]
  <2>1. /\ t \in Seq(S) /\ Len(t) = Len(a) + Len(b)
        /\ \A i \in 1..(Len(a) + Len(b)) : t[i] = IF i <= Len(a) THEN a[i] ELSE b[i - Len(a)]
    BY <1>2, <1>3, ConcatProperties
  <2>2. Len(a) + Len(b) = Len(s) - 1
    BY <1>1, <1>2, <1>3
  <2>3. \A i \in 1..(Len(s) - 1) : (i <= Len(a)) <=> (i < k)
    BY <1>1, <1>2
  <2> HIDE DEF t
  <2>4. \A i \in 1..(Len(s) - 1) : t[i] = IF i < k THEN a[i] ELSE b[i - (k - 1)]
    <3> SUFFICES ASSUME NEW i \in 1..(Len(s) - 1)
                 PROVE  t[i] = IF i < k THEN a[i] ELSE b[i - (k - 1)]
      OBVIOUS
    <3>1. t[i] = IF i <= Len(a) THEN a[i] ELSE b[i - Len(a)]
      BY <2>1, <2>2
    <3> QED BY ONLY <1>2, <2>3, <3>1, i \in 1..(Len(s) - 1)
  <2> QED BY <2>1, <2>2, <2>4
<1>5. \A i \in 1..(Len(s) - 1) : t[i] = s[IF i < k THEN i ELSE i + 1]
  <2> SUFFICES ASSUME NEW i \in 1..(Len(s) - 1) PROVE t[i] = s[IF i < k THEN i ELSE i + 1]
    OBVIOUS
  <2>1. CASE i < k
    BY <1>1, <1>2, <1>4, <2>1
  <2>2. CASE ~(i < k)
    <3>1. b[i - (k - 1)] = s[k + (i - (k - 1))]
      BY <1>1, <1>3, <2>2
    <3> QED BY <1>1, <1>4, <2>2, <3>1
  <2> QED BY <2>1, <2>2
<1>6. RemoveAt(s, k) = t
  BY DEF RemoveAt, a, b
<1> QED BY <1>4, <1>5, <1>6, SeqFacts, LenProperties

LEMMA ConcatIs ==
  ASSUME NEW s, NEW t, Sequence(s), Sequence(t)
  PROVE  Sequence(s \o t)
<1> DEFINE S == {s[i] : i \in DOMAIN s} \cup {t[i] : i \in DOMAIN t}
<1>1. s \in Seq(S) /\ t \in Seq(S)
  BY SeqIn
<1> HIDE DEF S
<1>2. s \o t \in Seq(S)
  BY <1>1, ConcatProperties
<1> QED BY <1>2, SeqFacts

LEMMA MappedIsSeq ==
  ASSUME NEW s, Sequence(s), NEW t, t = [i \in DOMAIN s |-> t[i]]
  PROVE  Sequence(t) /\ DOMAIN t = DOMAIN s /\ Len(t) = Len(s)
<1>1. DOMAIN s = 1..Len(s) /\ Len(s) \in Nat
  BY SeqFacts
<1>2. DOMAIN t = 1..Len(s)
  BY <1>1
<1>3. t \in [1..Len(s) -> {t[i] : i \in DOMAIN t}]
  BY <1>1, <1>2
<1>4. Len(t) = Len(s)
  BY <1>1, <1>3, FunctionIsSeq
<1> QED BY <1>1, <1>2, <1>3, <1>4 DEF Sequence

LEMMA EmptyIs == Sequence(<<>>) /\ DOMAIN <<>> = {} /\ Len(<<>>) = 0 /\ ToSet(<<>>) = {} /\ IsInjective(<<>>)
<1>1. <<>> \in Seq({}) /\ Len(<<>>) = 0 /\ DOMAIN <<>> = {}
  BY EmptySeq
<1> QED BY <1>1, SeqFacts DEF ToSet, IsInjective

LEMMA OneIsSeq == ASSUME NEW x PROVE LET s == <<x>> IN Sequence(s) /\ Len(s) = 1 /\ DOMAIN s = {1} /\ s[1] = x
<1>1. <<x>> \in [1..1 -> {x}] /\ <<x>>[1] = x
  OBVIOUS
<1> DEFINE s == <<x>>
<1> HIDE DEF s
<1>2. s \in [1..1 -> {x}] /\ s[1] = x
  BY <1>1 DEF s
<1>3. Sequence(s) /\ Len(s) = 1 /\ DOMAIN s = 1..1
  BY <1>2, FunctionIsSeq
<1> QED BY <1>2, <1>3 DEF s

\* Two sequences that share no element.
LEMMA ConcatSets ==
  ASSUME NEW a, NEW b, Sequence(a), Sequence(b)
  PROVE  /\ Sequence(a \o b) /\ ToSet(a \o b) = ToSet(a) \cup ToSet(b)
         /\ IsInjective(a) /\ IsInjective(b) /\ ToSet(a) \cap ToSet(b) = {} => IsInjective(a \o b)
<1> DEFINE S == ToSet(a) \cup ToSet(b)
           c == a \o b
<1>1. a \in Seq(S) /\ b \in Seq(S)
  BY SeqIn DEF ToSet
<1>2. /\ Len(a) \in Nat /\ Len(b) \in Nat /\ DOMAIN a = 1..Len(a) /\ DOMAIN b = 1..Len(b)
  BY SeqFacts
<1> HIDE DEF S
<1>3. c \in Seq(S) /\ Len(c) = Len(a) + Len(b)
      /\ \A i \in 1..(Len(a) + Len(b)) : c[i] = IF i <= Len(a) THEN a[i] ELSE b[i - Len(a)]
  BY <1>1, ConcatProperties
<1> HIDE DEF c
<1>4. DOMAIN c = 1..(Len(a) + Len(b)) /\ Sequence(c)
  BY <1>3, SeqFacts
<1>5. \A i \in DOMAIN a : i \in DOMAIN c /\ c[i] = a[i]
  BY <1>2, <1>3, <1>4
<1>6. \A i \in DOMAIN b : Len(a) + i \in DOMAIN c /\ c[Len(a) + i] = b[i]
  BY <1>2, <1>3, <1>4
<1>7. \A i \in DOMAIN c : (i \in DOMAIN a /\ c[i] = a[i]) \/ (i - Len(a) \in DOMAIN b /\ c[i] = b[i - Len(a)])
  BY <1>2, <1>3, <1>4
<1>8. ToSet(c) = ToSet(a) \cup ToSet(b)
  BY <1>5, <1>6, <1>7 DEF ToSet
<1>9. ASSUME IsInjective(a), IsInjective(b), ToSet(a) \cap ToSet(b) = {} PROVE IsInjective(c)
  <2> SUFFICES ASSUME NEW i \in DOMAIN c, NEW j \in DOMAIN c, c[i] = c[j] PROVE i = j
    BY DEF IsInjective
  <2>1. \A k \in DOMAIN a, l \in DOMAIN b : a[k] # b[l]
    BY <1>9 DEF ToSet
  <2>2. CASE i \in DOMAIN a /\ c[i] = a[i] /\ j \in DOMAIN a /\ c[j] = a[j]
    BY <1>9, <2>2 DEF IsInjective
  <2>3. CASE i - Len(a) \in DOMAIN b /\ c[i] = b[i - Len(a)] /\ j - Len(a) \in DOMAIN b /\ c[j] = b[j - Len(a)]
    <3>1. i - Len(a) = j - Len(a)
      BY <1>9, <2>3 DEF IsInjective
    <3> QED BY <1>2, <1>4, <3>1
  <2> QED BY <1>7, <2>1, <2>2, <2>3
<1> QED BY <1>4, <1>8, <1>9 DEF c

-----------------------------------------------------------------------------
(* numbers, and induction over finite sets, for a set of sets *)

LEMMA Least ==
  ASSUME NEW T \in SUBSET Nat, T # {}
  PROVE  \E n \in T : \A m \in T : n <= m
<1> DEFINE R == OpToRel(<, Nat)
<1>1. IsWellFoundedOn(R, Nat)
  BY NatLessThanWellFounded
<1>2. PICK n \in T : \A m \in T : ~(<<m, n>> \in R)
  <2> HIDE DEF R
  <2> QED BY <1>1, WFMin
<1>3. \A m \in T : ~(m < n)
  BY <1>2 DEF OpToRel
<1> QED BY <1>3

LEMMA SetInduction ==
  ASSUME NEW U, IsFiniteSet(U), NEW G,
         \A s \in SUBSET U : (\A x \in s : s \ {x} \in G) => s \in G
  PROVE  \A s \in SUBSET U : s \in G
<1> DEFINE Bad == {s \in SUBSET U : s \notin G}
           Sizes == {Cardinality(s) : s \in Bad}
<1>1. \A s \in SUBSET U : IsFiniteSet(s) /\ Cardinality(s) \in Nat
  BY FS_Subset, FS_CardinalityType
<1>2. CASE Bad = {}
  BY <1>2
<1>3. CASE Bad # {}
  <2>1. Sizes \in SUBSET Nat /\ Sizes # {}
    BY <1>1, <1>3
  <2>2. PICK s \in Bad : \A t \in Bad : Cardinality(s) <= Cardinality(t)
    <3>1. PICK n \in Sizes : \A m \in Sizes : n <= m
      <4> HIDE DEF Sizes
      <4> QED BY <2>1, Least
    <3> QED BY <3>1
  <2>3. ASSUME NEW x \in s PROVE s \ {x} \in G
    <3>1. IsFiniteSet(s) /\ Cardinality(s \ {x}) = Cardinality(s) - 1 /\ Cardinality(s) \in Nat
      BY <1>1, FS_RemoveElement
    <3>2. s \ {x} \notin Bad
      BY <2>2, <3>1
    <3> QED BY <3>2
  <2> QED BY <2>2, <2>3
<1> QED BY <1>2, <1>3

\* A set of numbers up to n has a greatest one.
LEMMA HasMax ==
  ASSUME NEW n \in Nat, NEW S \in SUBSET (1..n), S # {}
  PROVE  Max(S) \in S
<1> DEFINE T == {n - x : x \in S}
           R == OpToRel(<, Nat)
<1>1. T \subseteq Nat
  OBVIOUS
<1>2. T # {}
  OBVIOUS
<1>3. IsWellFoundedOn(R, Nat)
  BY NatLessThanWellFounded
<1>4. PICK t \in T : \A u \in T : ~(<<u, t>> \in R)
  <2> HIDE DEF R, T
  <2> QED BY <1>1, <1>2, <1>3, WFMin
<1>5. \A u \in T : ~(u < t)
  BY <1>1, <1>4 DEF OpToRel
<1>6. PICK x \in S : t = n - x
  BY DEF T
<1>7. \A y \in S : n - y \in T
  BY DEF T
<1>8. \A y \in S : x >= y
  BY <1>5, <1>6, <1>7
<1> QED BY <1>8 DEF Max

\* A set whose elements are all the same has one at most.
Alone(S) == \A j, k \in S : j = k
LEMMA AloneIsOne == ASSUME NEW S, Alone(S) PROVE Cardinality(S) <= 1
<1>1. CASE S = {}
  BY <1>1, FS_EmptySet
<1>2. CASE S # {}
  <2>1. PICK x : S = {x}
    BY <1>2 DEF Alone
  <2> QED BY <2>1, FS_Singleton
<1> QED BY <1>1, <1>2

-----------------------------------------------------------------------------
(* the recursive definition behind a sum *)

Choice(s) == CHOOSE x \in s : TRUE
Sums(g, f, D) == g = [s \in D |-> IF s = {} THEN 0 ELSE f[Choice(s)] + g[s \ {Choice(s)}]]
Iter(f, S) == CHOOSE g : Sums(g, f, SUBSET S)

LEMMA SumIsIter == ASSUME NEW f, NEW S PROVE SumFunctionOnSet(f, S) = Iter(f, S)[S]
BY DEF SumFunctionOnSet, FoldFunctionOnSet, MapThenFoldSet, Iter, Choice, Sums

LEMMA ChoiceIn == ASSUME NEW s, s # {} PROVE Choice(s) \in s
BY DEF Choice

LEMMA IterSums == ASSUME NEW f, NEW S, IsFiniteSet(S) PROVE Sums(Iter(f, S), f, SUBSET S)
<1> DEFINE D(n) == {s \in SUBSET S : Cardinality(s) <= n}
           Bad == {n \in Nat : ~\E g : Sums(g, f, D(n))}
<1>1. \A s \in SUBSET S : IsFiniteSet(s) /\ Cardinality(s) \in Nat /\ Cardinality(s) <= Cardinality(S)
  BY FS_Subset, FS_CardinalityType
<1>2. Bad = {}
  <2> SUFFICES ASSUME Bad # {} PROVE FALSE
    OBVIOUS
  <2>1. PICK n \in Bad : \A m \in Bad : n <= m
    <3>1. Bad \in SUBSET Nat
      OBVIOUS
    <3> HIDE DEF Bad
    <3> QED BY <3>1, Least
  <2>2. CASE n = 0
    <3>1. \A s \in D(0) : s = {}
      BY <1>1, FS_EmptySet
    <3> DEFINE g == [s \in D(0) |-> 0]
    <3>2. Sums(g, f, D(0))
      BY <3>1 DEF Sums
    <3> HIDE DEF g
    <3> QED BY <2>1, <2>2, <3>2
  <2>3. CASE n # 0
    <3>1. n \in Nat /\ n - 1 \in Nat /\ n - 1 \notin Bad
      <4>1. Bad \subseteq Nat
        OBVIOUS
      <4> HIDE DEF Bad
      <4> QED BY <2>1, <2>3, <4>1
    <3>2. PICK g : Sums(g, f, D(n - 1))
      BY <3>1
    <3> DEFINE E == D(n - 1)
               F == D(n)
               h == [s \in F |-> IF s = {} THEN 0 ELSE f[Choice(s)] + g[s \ {Choice(s)}]]
    <3>3. E \subseteq F
      BY <1>1, <3>1
    <3>4. \A s \in F : s # {} => s \ {Choice(s)} \in E
      <4> SUFFICES ASSUME NEW s \in F, s # {} PROVE s \ {Choice(s)} \in E
        OBVIOUS
      <4>1. Cardinality(s \ {Choice(s)}) = Cardinality(s) - 1
        BY <1>1, FS_RemoveElement, ChoiceIn
      <4> QED BY <1>1, <3>1, <4>1
    <3>5. Sums(g, f, E)
      BY <3>2
    <3>6. ~\E k : Sums(k, f, F)
      BY <2>1
    <3> HIDE DEF E, F
    <3>7. \A s \in E : h[s] = g[s]
      BY <3>3, <3>5 DEF Sums
    <3>8. Sums(h, f, F)
      BY <3>4, <3>7 DEF Sums
    <3> HIDE DEF h
    <3> QED BY <3>6, <3>8
  <2> QED BY <2>2, <2>3
<1>3. Cardinality(S) \in Nat /\ D(Cardinality(S)) = SUBSET S
  BY <1>1, FS_CardinalityType
<1>4. \E g : Sums(g, f, SUBSET S)
  <2>1. \E g : Sums(g, f, D(Cardinality(S)))
    BY <1>2, <1>3
  <2> HIDE DEF D
  <2> QED BY <1>3, <2>1
<1> QED BY <1>4 DEF Iter

\* The sums of two functions that agree are the same, whatever set they are parts of.
LEMMA IterAgree ==
  ASSUME NEW f, NEW g, NEW S, NEW T, IsFiniteSet(S), T \subseteq S, \A x \in T : f[x] = g[x]
  PROVE  \A s \in SUBSET T : Iter(f, S)[s] = Iter(g, T)[s]
<1> DEFINE a == Iter(f, S)
           b == Iter(g, T)
           G == {s \in SUBSET T : a[s] = b[s]}
<1>1. IsFiniteSet(T)
  BY FS_Subset
<1>2. Sums(a, f, SUBSET S) /\ Sums(b, g, SUBSET T)
  BY <1>1, IterSums
<1> HIDE DEF a, b
<1>3. ASSUME NEW s \in SUBSET T, \A x \in s : s \ {x} \in G PROVE s \in G
  <2>1. s \in SUBSET S
    OBVIOUS
  <2>2. /\ a[s] = IF s = {} THEN 0 ELSE f[Choice(s)] + a[s \ {Choice(s)}]
        /\ b[s] = IF s = {} THEN 0 ELSE g[Choice(s)] + b[s \ {Choice(s)}]
    BY <1>2, <2>1 DEF Sums
  <2>3. CASE s = {}
    BY <2>2, <2>3
  <2>4. CASE s # {}
    <3>1. Choice(s) \in s
      BY <2>4, ChoiceIn
    <3>2. a[s \ {Choice(s)}] = b[s \ {Choice(s)}] /\ f[Choice(s)] = g[Choice(s)]
      BY <1>3, <3>1
    <3> QED BY <2>2, <2>4, <3>2
  <2> QED BY <2>3, <2>4
<1>4. \A s \in SUBSET T : s \in G
  <2> HIDE DEF G
  <2> QED BY <1>1, <1>3, SetInduction
<1> QED BY <1>4 DEF a, b

-----------------------------------------------------------------------------
(* sums *)

LEMMA SumSame ==
  ASSUME NEW f, NEW g, NEW S, IsFiniteSet(S), \A x \in S : f[x] = g[x]
  PROVE  SumFunctionOnSet(f, S) = SumFunctionOnSet(g, S)
<1>1. Iter(f, S)[S] = Iter(g, S)[S]
  BY IterAgree
<1> QED BY <1>1, SumIsIter

LEMMA SumEmpty == ASSUME NEW f PROVE SumFunctionOnSet(f, {}) = 0
<1>1. IsFiniteSet({}) /\ {} \in SUBSET {}
  BY FS_EmptySet
<1> DEFINE a == Iter(f, {})
<1>2. Sums(a, f, SUBSET {})
  BY <1>1, IterSums
<1>3. SumFunctionOnSet(f, {}) = a[{}]
  BY SumIsIter
<1> HIDE DEF a
<1> QED BY <1>1, <1>2, <1>3 DEF Sums

LEMMA SumChoice ==
  ASSUME NEW f, NEW S, IsFiniteSet(S), S # {}
  PROVE  SumFunctionOnSet(f, S) = f[Choice(S)] + SumFunctionOnSet(f, S \ {Choice(S)})
<1> DEFINE T == S \ {Choice(S)}
           a == Iter(f, S)
           b == Iter(f, T)
<1>1. a[T] = b[T]
  <2> HIDE DEF T
  <2>1. T \subseteq S
    BY DEF T
  <2> QED BY <2>1, IterAgree
<1>2. Sums(a, f, SUBSET S)
  BY IterSums
<1>3. SumFunctionOnSet(f, S) = a[S] /\ SumFunctionOnSet(f, T) = b[T]
  BY SumIsIter
<1> HIDE DEF a, b
<1>4. a[S] = f[Choice(S)] + a[T]
  BY <1>2 DEF Sums
<1> QED BY <1>1, <1>3, <1>4

LEMMA SumInt ==
  ASSUME NEW f, NEW S, IsFiniteSet(S), \A x \in S : f[x] \in Int
  PROVE  \A s \in SUBSET S : SumFunctionOnSet(f, s) \in Int
<1> DEFINE G == {s \in SUBSET S : SumFunctionOnSet(f, s) \in Int}
<1>1. ASSUME NEW s \in SUBSET S, \A x \in s : s \ {x} \in G PROVE s \in G
  <2>1. CASE s = {}
    BY <2>1, SumEmpty
  <2>2. CASE s # {}
    <3>1. Choice(s) \in s /\ IsFiniteSet(s)
      BY <2>2, ChoiceIn, FS_Subset
    <3>2. SumFunctionOnSet(f, s) = f[Choice(s)] + SumFunctionOnSet(f, s \ {Choice(s)})
      BY <2>2, <3>1, SumChoice
    <3>3. f[Choice(s)] \in Int /\ SumFunctionOnSet(f, s \ {Choice(s)}) \in Int
      BY <1>1, <3>1
    <3> QED BY <3>2, <3>3
  <2> QED BY <2>1, <2>2
<1>2. \A s \in SUBSET S : s \in G
  <2> HIDE DEF G
  <2> QED BY <1>1, SetInduction
<1> QED BY <1>2

\* Any element may be taken out first.
LEMMA SumRemove ==
  ASSUME NEW f, NEW S, IsFiniteSet(S), \A x \in S : f[x] \in Int, NEW x \in S
  PROVE  SumFunctionOnSet(f, S) = f[x] + SumFunctionOnSet(f, S \ {x})
<1> DEFINE W(s) == SumFunctionOnSet(f, s)
           G == {s \in SUBSET S : \A y \in s : W(s) = f[y] + W(s \ {y})}
<1>1. ASSUME NEW s \in SUBSET S, \A y \in s : s \ {y} \in G PROVE s \in G
  <2> SUFFICES ASSUME NEW y \in s PROVE W(s) = f[y] + W(s \ {y})
    OBVIOUS
  <2> DEFINE z == Choice(s)
  <2>1. z \in s /\ IsFiniteSet(s) /\ W(s) = f[z] + W(s \ {z})
    BY ChoiceIn, FS_Subset, SumChoice
  <2>2. CASE y = z
    BY <2>1, <2>2
  <2>3. CASE y # z
    <3> DEFINE t == (s \ {z}) \ {y}
    <3>1. t = (s \ {y}) \ {z} /\ y \in s \ {z} /\ z \in s \ {y}
      BY <2>1, <2>3
    <3>2. W(s \ {z}) = f[y] + W(t) /\ W(s \ {y}) = f[z] + W(t)
      BY <1>1, <2>1, <3>1
    <3>3. f[y] \in Int /\ f[z] \in Int /\ W(t) \in Int
      BY <2>1, SumInt
    <3> HIDE DEF W, z, t
    <3> QED BY <2>1, <3>2, <3>3
  <2> QED BY <2>2, <2>3
<1>2. \A s \in SUBSET S : s \in G
  <2> HIDE DEF G
  <2> QED BY <1>1, SetInduction
<1> QED BY <1>2

LEMMA SumNat ==
  ASSUME NEW f, NEW S, IsFiniteSet(S), \A x \in S : f[x] \in Nat
  PROVE  \A s \in SUBSET S : SumFunctionOnSet(f, s) \in Nat
<1> DEFINE G == {s \in SUBSET S : SumFunctionOnSet(f, s) \in Nat}
<1>1. ASSUME NEW s \in SUBSET S, \A x \in s : s \ {x} \in G PROVE s \in G
  <2>1. CASE s = {}
    BY <2>1, SumEmpty
  <2>2. CASE s # {}
    <3>1. Choice(s) \in s /\ IsFiniteSet(s)
      BY <2>2, ChoiceIn, FS_Subset
    <3>2. SumFunctionOnSet(f, s) = f[Choice(s)] + SumFunctionOnSet(f, s \ {Choice(s)})
      BY <2>2, <3>1, SumChoice
    <3>3. f[Choice(s)] \in Nat /\ SumFunctionOnSet(f, s \ {Choice(s)}) \in Nat
      BY <1>1, <3>1
    <3> QED BY <3>2, <3>3
  <2> QED BY <2>1, <2>2
<1>2. \A s \in SUBSET S : s \in G
  <2> HIDE DEF G
  <2> QED BY <1>1, SetInduction
<1> QED BY <1>2

\* A sum over a part and one over the rest.
LEMMA SumSplit ==
  ASSUME NEW f, NEW S, IsFiniteSet(S), \A x \in S : f[x] \in Int, NEW T \in SUBSET S
  PROVE  SumFunctionOnSet(f, S) = SumFunctionOnSet(f, T) + SumFunctionOnSet(f, S \ T)
<1> DEFINE W(s) == SumFunctionOnSet(f, s)
           G == {s \in SUBSET T : W((S \ T) \cup s) = W(s) + W(S \ T)}
<1>1. ASSUME NEW s \in SUBSET T, \A x \in s : s \ {x} \in G PROVE s \in G
  <2>1. CASE s = {}
    <3>1. W(S \ T) \in Int /\ W(s) = 0 /\ (S \ T) \cup s = S \ T
      BY <2>1, SumEmpty, SumInt
    <3> HIDE DEF W
    <3>2. W((S \ T) \cup s) = W(s) + W(S \ T)
      BY <3>1
    <3> QED BY <3>2
  <2>2. CASE s # {}
    <3> DEFINE z == Choice(s)
               r == s \ {z}
               u == (S \ T) \cup s
               v == (S \ T) \cup r
               o == S \ T
    <3>1. z \in s /\ z \in u /\ u \in SUBSET S /\ v = u \ {z} /\ s \in SUBSET S /\ r \in SUBSET S /\ o \in SUBSET S
      BY <2>2, ChoiceIn
    <3>2. IsFiniteSet(s) /\ IsFiniteSet(u)
      BY <3>1, FS_Subset
    <3>3. W(s) = f[z] + W(r) /\ W(u) = f[z] + W(v)
      BY <3>1, <3>2, SumRemove
    <3>4. W(v) = W(r) + W(o)
      BY <1>1, <3>1
    <3>5. W(r) \in Int /\ W(o) \in Int /\ f[z] \in Int
      BY <3>1, SumInt
    <3>6. W(u) = W(s) + W(o)
      <4> HIDE DEF W, z, r, u, v, o
      <4> QED BY <3>3, <3>4, <3>5
    <3> QED BY <3>6
  <2> QED BY <2>1, <2>2
<1>2. T \in G
  <2>1. IsFiniteSet(T)
    BY FS_Subset
  <2> HIDE DEF G
  <2> QED BY <1>1, <2>1, SetInduction
<1>3. (S \ T) \cup T = S
  OBVIOUS
<1> QED BY <1>2, <1>3

\* A part of natural numbers is not larger than all of them.
LEMMA SumPart ==
  ASSUME NEW f, NEW S, IsFiniteSet(S), \A x \in S : f[x] \in Nat, NEW T \in SUBSET S
  PROVE  SumFunctionOnSet(f, T) <= SumFunctionOnSet(f, S)
<1>1. SumFunctionOnSet(f, T) \in Nat /\ SumFunctionOnSet(f, S \ T) \in Nat
  BY SumNat
<1>2. SumFunctionOnSet(f, S) = SumFunctionOnSet(f, T) + SumFunctionOnSet(f, S \ T)
  BY SumSplit
<1> QED BY <1>1, <1>2

-----------------------------------------------------------------------------
(* numbers from the first *)

\* A number that is counted up to has what the numbers before it have.
LEMMA CountUp ==
  ASSUME NEW n \in Nat, NEW G, 0 \in G, \A i \in 1..n : i - 1 \in G => i \in G
  PROVE  \A i \in 0..n : i \in G
<1> DEFINE Bad == {i \in 0..n : i \notin G}
<1> SUFFICES ASSUME Bad # {} PROVE FALSE
  OBVIOUS
<1>1. Bad \in SUBSET Nat
  OBVIOUS
<1>2. PICK m \in Bad : \A k \in Bad : m <= k
  <2> HIDE DEF Bad
  <2> QED BY <1>1, Least
<1>3. m \in 1..n /\ m - 1 \notin Bad
  BY <1>2
<1> QED BY <1>2, <1>3

LEMMA MaxOfFirst == ASSUME NEW k \in Nat \ {0} PROVE Max(1..k) = k /\ (1..k) \ {k} = 1..(k - 1)
<1>1. k \in 1..k /\ \A y \in 1..k : k >= y
  OBVIOUS
<1>2. \A x \in 1..k : (\A y \in 1..k : x >= y) => x = k
  OBVIOUS
<1>3. Max(1..k) = k
  <2>1. Max(1..k) = CHOOSE x \in 1..k : \A y \in 1..k : x >= y
    BY DEF Max
  <2> QED BY ONLY <1>1, <1>2, <2>1
<1> QED BY <1>3

-----------------------------------------------------------------------------
(* what a fold from the left computes *)

\* h goes through the indices in a set in their order: F is what each of them does.
Folds(h, base, F, D) == \A t \in D : h[t] = IF t = {} THEN base ELSE F[Max(t)][h[t \ {Max(t)}]]

LEMMA FoldExists ==
  ASSUME NEW n \in Nat, NEW A, NEW base \in A, NEW F \in [1..n -> [A -> A]]
  PROVE  \E h \in [SUBSET (1..n) -> A] : Folds(h, base, F, SUBSET (1..n))
<1> DEFINE S == 1..n
           D(k) == {t \in SUBSET S : Cardinality(t) <= k}
           Bad == {k \in Nat : ~\E h \in [D(k) -> A] : Folds(h, base, F, D(k))}
<1>0. IsFiniteSet(S)
  BY FS_Interval
<1>1. \A t \in SUBSET S : IsFiniteSet(t) /\ Cardinality(t) \in Nat /\ Cardinality(t) <= Cardinality(S)
  BY <1>0, FS_Subset, FS_CardinalityType
<1>2. Bad = {}
  <2> SUFFICES ASSUME Bad # {} PROVE FALSE
    OBVIOUS
  <2>1. PICK k \in Bad : \A m \in Bad : k <= m
    <3>1. Bad \in SUBSET Nat
      OBVIOUS
    <3> HIDE DEF Bad
    <3> QED BY <3>1, Least
  <2>2. CASE k = 0
    <3>1. \A t \in D(0) : t = {}
      BY <1>1, FS_EmptySet
    <3> DEFINE h == [t \in D(0) |-> base]
    <3>2. h \in [D(0) -> A] /\ Folds(h, base, F, D(0))
      BY <3>1 DEF Folds
    <3> HIDE DEF h
    <3> QED BY <2>1, <2>2, <3>2
  <2>3. CASE k # 0
    <3>1. k \in Nat /\ k - 1 \in Nat /\ k - 1 \notin Bad
      <4>1. Bad \subseteq Nat
        OBVIOUS
      <4> HIDE DEF Bad
      <4> QED BY <2>1, <2>3, <4>1
    <3> DEFINE E == D(k - 1)
               C == D(k)
    <3>2. PICK g \in [E -> A] : Folds(g, base, F, E)
      BY <3>1
    <3> DEFINE h == [t \in C |-> IF t = {} THEN base ELSE F[Max(t)][g[t \ {Max(t)}]]]
    <3>3. E \subseteq C
      BY <1>1, <3>1
    <3>4. \A t \in C : t # {} => t \ {Max(t)} \in E /\ Max(t) \in S
      <4> SUFFICES ASSUME NEW t \in C, t # {} PROVE t \ {Max(t)} \in E /\ Max(t) \in S
        OBVIOUS
      <4>1. Max(t) \in t
        BY HasMax
      <4>2. Cardinality(t \ {Max(t)}) = Cardinality(t) - 1
        BY <1>1, <4>1, FS_RemoveElement
      <4>3. t \in SUBSET S /\ Cardinality(t) \in Nat /\ Cardinality(t) <= k
        BY <1>1
      <4>4. Cardinality(t) - 1 <= k - 1
        BY ONLY <3>1, <4>3
      <4>5. Cardinality(t \ {Max(t)}) <= k - 1
        BY ONLY <4>2, <4>4
      <4>6. t \ {Max(t)} \in SUBSET S
        BY ONLY <4>3
      <4>7. t \ {Max(t)} \in E
        BY ONLY <4>5, <4>6
      <4> QED BY <4>1, <4>3, <4>7
    <3>6. ~\E q \in [C -> A] : Folds(q, base, F, C)
      BY <2>1
    <3> HIDE DEF E, C
    <3>7. \A t \in E : h[t] = g[t]
      BY <3>2, <3>3 DEF Folds
    <3>8. h \in [C -> A]
      <4>1. \A t \in C : t # {} => F[Max(t)][g[t \ {Max(t)}]] \in A
        BY <3>2, <3>4
      <4> QED BY <4>1
    <3>9. Folds(h, base, F, C)
      <4> SUFFICES ASSUME NEW t \in C PROVE h[t] = IF t = {} THEN base ELSE F[Max(t)][h[t \ {Max(t)}]]
        BY DEF Folds
      <4>1. t # {} => h[t \ {Max(t)}] = g[t \ {Max(t)}]
        BY <3>4, <3>7
      <4> QED BY <4>1
    <3> HIDE DEF h
    <3> QED BY <3>6, <3>8, <3>9
  <2> QED BY <2>2, <2>3
<1>3. Cardinality(S) \in Nat /\ D(Cardinality(S)) = SUBSET S
  BY <1>0, <1>1, FS_CardinalityType
<1>4. \E h \in [D(Cardinality(S)) -> A] : Folds(h, base, F, D(Cardinality(S)))
  BY <1>2, <1>3
<1> HIDE DEF D
<1> QED BY <1>3, <1>4

-----------------------------------------------------------------------------
(* the elements of a sequence that are in a set *)

\* What OnlyIn makes of the first elements of a sequence.
OnlySteps(g, s, T) ==
  /\ g[0] = <<>>
  /\ \A k \in 1..Len(s) : g[k] = IF s[k] \in T THEN Append(g[k - 1], s[k]) ELSE g[k - 1]

LEMMA OnlyInSteps ==
  ASSUME NEW s, Sequence(s), NEW T
  PROVE  \E g : OnlySteps(g, s, T) /\ OnlyIn(s, T) = g[Len(s)]
<1> DEFINE n == Len(s)
           A == Seq(ToSet(s))
           F == [i \in 1..n |-> [a \in A |-> IF s[i] \in T THEN Append(a, s[i]) ELSE a]]
           Eq(h) == h = [t \in SUBSET DOMAIN s |->
                           IF t = {} THEN <<>>
                           ELSE IF s[Max(t)] \in T THEN Append(h[t \ {Max(t)}], s[Max(t)])
                           ELSE h[t \ {Max(t)}]]
           c == CHOOSE h : Eq(h)
<1>1. n \in Nat /\ DOMAIN s = 1..n /\ \A i \in 1..n : s[i] \in ToSet(s)
  BY SeqFacts DEF ToSet
<1>2. OnlyIn(s, T) = c[DOMAIN s]
  BY Zenon DEF OnlyIn, FoldLeft, MapThenFoldSet
<1>3. <<>> \in A /\ F \in [1..n -> [A -> A]]
  <2>1. \A i \in 1..n, a \in A : Append(a, s[i]) \in A
    BY <1>1, AppendProperties
  <2>2. <<>> \in A
    BY EmptySeq
  <2> HIDE DEF A
  <2> QED BY <2>1, <2>2
<1> HIDE DEF n, A
<1>4. PICK h \in [SUBSET (1..n) -> A] : Folds(h, <<>>, F, SUBSET (1..n))
  BY <1>1, <1>3, FoldExists
<1>5. ASSUME NEW t \in SUBSET (1..n), t # {} PROVE Max(t) \in 1..n /\ t \ {Max(t)} \in SUBSET (1..n)
  BY <1>1, HasMax, <1>5
<1>6. Eq(h)
  <2>1. ASSUME NEW t \in SUBSET (1..n), t # {}
        PROVE  h[t] = IF s[Max(t)] \in T THEN Append(h[t \ {Max(t)}], s[Max(t)]) ELSE h[t \ {Max(t)}]
    <3>1. h[t] = F[Max(t)][h[t \ {Max(t)}]]
      BY <1>4, <2>1 DEF Folds
    <3>2. Max(t) \in 1..n /\ h[t \ {Max(t)}] \in A
      BY <1>4, <1>5, <2>1
    <3> QED BY <3>1, <3>2
  <2>2. h[{}] = <<>>
    BY <1>4 DEF Folds
  <2> QED BY <1>1, <1>4, <2>1, <2>2
<1>7. Eq(c)
  <2> HIDE DEF Eq
  <2> QED BY <1>6
<1> HIDE DEF c
<1> DEFINE g == [k \in 0..n |-> c[1..k]]
<1>8. g[0] = <<>>
  <2>1. 1..0 = {} /\ 0 \in 0..n
    BY <1>1
  <2> QED BY <1>7, <2>1
<1>9. ASSUME NEW k \in 1..n PROVE g[k] = IF s[k] \in T THEN Append(g[k - 1], s[k]) ELSE g[k - 1]
  <2>1. 1..k # {} /\ 1..k \in SUBSET (1..n) /\ Max(1..k) = k /\ (1..k) \ {k} = 1..(k - 1)
    BY <1>1, MaxOfFirst
  <2>2. c[1..k] = IF s[k] \in T THEN Append(c[1..(k - 1)], s[k]) ELSE c[1..(k - 1)]
    BY <1>1, <1>7, <2>1
  <2> QED BY <1>1, <2>2
<1>10. OnlyIn(s, T) = g[n]
  BY <1>1, <1>2
<1> HIDE DEF g
<1> QED BY <1>8, <1>9, <1>10 DEF OnlySteps, n

LEMMA OnlyInIs ==
  ASSUME NEW s, Sequence(s), NEW T
  PROVE  LET t == OnlyIn(s, T)
         IN  Sequence(t) /\ ToSet(t) = ToSet(s) \cap T /\ (IsInjective(s) => IsInjective(t))
<1>1. PICK g : OnlySteps(g, s, T) /\ OnlyIn(s, T) = g[Len(s)]
  BY OnlyInSteps
<1>2. Len(s) \in Nat /\ DOMAIN s = 1..Len(s)
  BY SeqFacts
<1> DEFINE First(k) == {s[i] : i \in 1..k}
           G == {k \in 0..Len(s) : Sequence(g[k]) /\ ToSet(g[k]) = First(k) \cap T
                                   /\ (IsInjective(s) => IsInjective(g[k]))}
<1>3. 0 \in G
  BY <1>1, <1>2, EmptyIs DEF OnlySteps
<1>4. ASSUME NEW k \in 1..Len(s), k - 1 \in G PROVE k \in G
  <2> DEFINE a == g[k - 1]
             x == s[k]
  <2>1. Sequence(a) /\ ToSet(a) = First(k - 1) \cap T /\ (IsInjective(s) => IsInjective(a))
    BY <1>4
  <2>2. First(k) = First(k - 1) \cup {x}
    <3>1. 1..k = (1..(k - 1)) \cup {k}
      BY <1>2
    <3> QED BY <3>1
  <2>3. IsInjective(s) => x \notin First(k - 1)
    <3>1. \A i \in 1..(k - 1) : i \in DOMAIN s /\ i # k
      BY <1>2
    <3> QED BY <1>2, <3>1 DEF IsInjective
  <2>4. g[k] = IF x \in T THEN Append(a, x) ELSE a
    BY <1>1 DEF OnlySteps
  <2>5. k \in 0..Len(s)
    BY <1>2
  <2> HIDE DEF a, x, First
  <2>6. CASE x \notin T
    BY <2>1, <2>2, <2>4, <2>5, <2>6
  <2>7. CASE x \in T
    <3> DEFINE b == Append(a, x)
    <3>1. /\ Sequence(b) /\ DOMAIN b = 1..(Len(a) + 1) /\ b[Len(a) + 1] = x
          /\ \A i \in 1..Len(a) : b[i] = a[i]
      BY <2>1, AppendIs
    <3>2. Len(a) \in Nat /\ DOMAIN a = 1..Len(a) /\ DOMAIN b = DOMAIN a \cup {Len(a) + 1}
      BY <2>1, <3>1, SeqFacts
    <3> HIDE DEF b
    <3>3. ToSet(b) = ToSet(a) \cup {x}
      BY <3>1, <3>2 DEF ToSet
    <3>4. IsInjective(a) /\ x \notin ToSet(a) => IsInjective(b)
      BY <3>1, <3>2 DEF ToSet, IsInjective
    <3> QED BY <2>1, <2>2, <2>3, <2>4, <2>5, <2>7, <3>1, <3>3, <3>4 DEF b
  <2> QED BY <2>6, <2>7
<1>5. Len(s) \in G
  <2> HIDE DEF G
  <2>1. \A i \in 1..Len(s) : i - 1 \in G => i \in G
    BY <1>4
  <2>2. \A i \in 0..Len(s) : i \in G
    BY <1>2, <1>3, <2>1, CountUp
  <2> QED BY <1>2, <2>2
<1>6. First(Len(s)) = ToSet(s)
  BY <1>2 DEF ToSet
<1> QED BY <1>1, <1>5, <1>6

\* Only what is in the sequence matters.
LEMMA OnlyInSame ==
  ASSUME NEW s, Sequence(s), NEW T, NEW U, \A x \in ToSet(s) : x \in T <=> x \in U
  PROVE  OnlyIn(s, T) = OnlyIn(s, U)
<1>1. PICK g : OnlySteps(g, s, T) /\ OnlyIn(s, T) = g[Len(s)]
  BY OnlyInSteps
<1>2. PICK h : OnlySteps(h, s, U) /\ OnlyIn(s, U) = h[Len(s)]
  BY OnlyInSteps
<1>3. Len(s) \in Nat /\ DOMAIN s = 1..Len(s)
  BY SeqFacts
<1> DEFINE G == {k \in 0..Len(s) : g[k] = h[k]}
<1>4. 0 \in G
  BY <1>1, <1>2, <1>3 DEF OnlySteps
<1>5. ASSUME NEW k \in 1..Len(s), k - 1 \in G PROVE k \in G
  <2>1. s[k] \in ToSet(s) /\ k \in 0..Len(s) /\ g[k - 1] = h[k - 1]
    BY <1>3, <1>5 DEF ToSet
  <2> QED BY <1>1, <1>2, <2>1 DEF OnlySteps
<1>6. Len(s) \in G
  <2> HIDE DEF G
  <2>1. \A i \in 1..Len(s) : i - 1 \in G => i \in G
    BY <1>5
  <2>2. \A i \in 0..Len(s) : i \in G
    BY <1>3, <1>4, <2>1, CountUp
  <2> QED BY <1>3, <2>2
<1> QED BY <1>1, <1>2, <1>6

LEMMA OnlyInAppend ==
  ASSUME NEW s, Sequence(s), NEW x, NEW T
  PROVE  OnlyIn(Append(s, x), T) = IF x \in T THEN Append(OnlyIn(s, T), x) ELSE OnlyIn(s, T)
<1> DEFINE t == Append(s, x)
<1>1. /\ Sequence(t) /\ Len(t) = Len(s) + 1 /\ t[Len(s) + 1] = x /\ \A i \in 1..Len(s) : t[i] = s[i]
      /\ Len(s) \in Nat
  BY AppendIs, SeqFacts
<1>2. PICK g : OnlySteps(g, s, T) /\ OnlyIn(s, T) = g[Len(s)]
  BY OnlyInSteps
<1> HIDE DEF t
<1>3. PICK h : OnlySteps(h, t, T) /\ OnlyIn(t, T) = h[Len(t)]
  BY <1>1, OnlyInSteps
<1> DEFINE G == {k \in 0..Len(s) : g[k] = h[k]}
<1>4. 0 \in G
  BY <1>1, <1>2, <1>3 DEF OnlySteps
<1>5. ASSUME NEW k \in 1..Len(s), k - 1 \in G PROVE k \in G
  <2>1. k \in 1..Len(t) /\ t[k] = s[k] /\ k \in 0..Len(s) /\ g[k - 1] = h[k - 1]
    BY <1>1, <1>5
  <2> QED BY <1>2, <1>3, <2>1 DEF OnlySteps
<1>6. Len(s) \in G
  <2> HIDE DEF G
  <2>1. \A i \in 1..Len(s) : i - 1 \in G => i \in G
    BY <1>5
  <2>2. \A i \in 0..Len(s) : i \in G
    BY <1>1, <1>4, <2>1, CountUp
  <2> QED BY <1>1, <2>2
<1>7. Len(s) + 1 \in 1..Len(t) /\ (Len(s) + 1) - 1 = Len(s)
  BY <1>1
<1>8. h[Len(s) + 1] = IF x \in T THEN Append(h[Len(s)], x) ELSE h[Len(s)]
  BY <1>1, <1>3, <1>7 DEF OnlySteps
<1> QED BY <1>1, <1>2, <1>3, <1>6, <1>8 DEF t

LEMMA OnlyInNone == ASSUME NEW T PROVE OnlyIn(<<>>, T) = <<>>
<1> DEFINE t == OnlyIn(<<>>, T)
<1>1. Sequence(t) /\ ToSet(t) = {}
  BY EmptyIs, OnlyInIs
<1> HIDE DEF t
<1>2. t \in Seq({t[i] : i \in DOMAIN t}) /\ DOMAIN t = {}
  BY <1>1, SeqFacts DEF ToSet
<1> QED BY <1>2 DEF t

=============================================================================
