----------------------------- MODULE FiniteSums -----------------------------
(***************************************************************************)
(* What SumFunctionOnSet of the community modules computes: the sum of a   *)
(* function over a finite set, in whatever order the elements are chosen.  *)
(***************************************************************************)
EXTENDS Integers, FiniteSets, Functions, FiniteSetTheorems, WellFoundedInduction, TLAPS

\* Induction over the naturals, for a set of them.
LEMMA SetInduction ==
  ASSUME NEW P, 0 \in P, \A n \in Nat : n \in P => n + 1 \in P
  PROVE  Nat \subseteq P
<1>1. ASSUME Nat \ P # {}
      PROVE  FALSE
  <2>1. PICK n \in Nat \ P : \A m \in Nat \ P : <<m, n>> \notin OpToRel(<, Nat)
    BY <1>1, NatLessThanWellFounded, WFMin
  <2>2. n # 0 /\ n - 1 \in Nat /\ <<n - 1, n>> \in OpToRel(<, Nat)
    BY <2>1 DEF OpToRel
  <2>3. n - 1 \in P
    BY <2>1, <2>2
  <2>4. \A m \in Nat : (m - 1) + 1 = m
    OBVIOUS
  <2>. QED
    BY <2>1, <2>2, <2>3, <2>4
<1>. QED
  BY <1>1

\* Induction over a finite set, for a set Q of its subsets.
LEMMA SubsetInduction ==
  ASSUME NEW S, IsFiniteSet(S), NEW Q, {} \in Q,
         \A T \in SUBSET S : \A x \in S \ T : T \in Q => T \cup {x} \in Q
  PROVE  S \in Q
<1> DEFINE P == {n \in Nat : \A T \in SUBSET S : Cardinality(T) = n => T \in Q}
<1>1. \A T \in SUBSET S : IsFiniteSet(T) /\ Cardinality(T) \in Nat
  BY FS_Subset, FS_CardinalityType
<1>2. 0 \in P
  BY <1>1, FS_EmptySet
<1>3. ASSUME NEW n \in Nat, n \in P
      PROVE  n + 1 \in P
  <2>1. ASSUME NEW T \in SUBSET S, Cardinality(T) = n + 1
        PROVE  T \in Q
    <3>1. T # {}
      <4>1. Cardinality({}) = 0 /\ n + 1 # 0
        BY FS_EmptySet
      <4>. QED
        BY <2>1, <4>1
    <3>2. PICK x \in T : TRUE
      BY <3>1
    <3>3. Cardinality(T \ {x}) = n
      <4>1. Cardinality(T \ {x}) = Cardinality(T) - 1
        BY <1>1, <3>2, FS_RemoveElement
      <4>. QED
        BY <2>1, <4>1
    <3>4. T \ {x} \in SUBSET S /\ x \in S \ (T \ {x}) /\ (T \ {x}) \cup {x} = T
      BY <3>2
    <3>5. T \ {x} \in Q
      BY <1>3, <3>3, <3>4
    <3>. QED
      BY <3>4, <3>5
  <2>. QED
    BY <2>1
<1>4. Cardinality(S) \in P
  BY <1>1, <1>2, <1>3, SetInduction
<1>. QED
  BY <1>4

-----------------------------------------------------------------------------
(* The sum is defined                                                      *)

Chosen(s) == CHOOSE x \in s : TRUE

\* g is the sum of f over every subset of S.
Solves(g, f, S) ==
  g = [s \in SUBSET S |-> IF s = {} THEN 0 ELSE f[Chosen(s)] + g[s \ {Chosen(s)}]]

LEMMA ChosenFacts ==
  ASSUME NEW s, s # {}
  PROVE  Chosen(s) \in s
BY DEF Chosen

LEMMA SolutionExists ==
  ASSUME NEW S, IsFiniteSet(S), NEW f
  PROVE  \E g : Solves(g, f, S)
<1> DEFINE Value(g, s) == IF s = {} THEN 0 ELSE f[Chosen(s)] + g[s \ {Chosen(s)}]
           Upto(n) == \E g : \A s \in SUBSET S : Cardinality(s) <= n => g[s] = Value(g, s)
<1>1. \A s \in SUBSET S : IsFiniteSet(s) /\ Cardinality(s) \in Nat
  BY FS_Subset, FS_CardinalityType
<1>2. \A s \in SUBSET S : Cardinality(s) = 0 <=> s = {}
  BY <1>1, FS_EmptySet
<1>3. \A s \in SUBSET S : s # {} =>
        /\ s \ {Chosen(s)} \in SUBSET S
        /\ Cardinality(s \ {Chosen(s)}) = Cardinality(s) - 1
  BY <1>1, ChosenFacts, FS_RemoveElement
<1>4. Upto(0)
  <2>. DEFINE g == [s \in SUBSET S |-> 0]
  <2>1. \A s \in SUBSET S : Cardinality(s) <= 0 => s = {}
    BY <1>1, <1>2
  <2>2. \A s \in SUBSET S : Cardinality(s) <= 0 => g[s] = Value(g, s)
    BY <2>1
  <2>. HIDE DEF g
  <2>. QED
    BY <2>2
<1>5. ASSUME NEW n \in Nat, Upto(n)
      PROVE  Upto(n + 1)
  <2>1. PICK g : \A s \in SUBSET S : Cardinality(s) <= n => g[s] = Value(g, s)
    BY <1>5
  <2>. DEFINE h == [s \in SUBSET S |-> IF Cardinality(s) <= n THEN g[s] ELSE Value(g, s)]
  <2>2. ASSUME NEW s \in SUBSET S, Cardinality(s) <= n + 1
        PROVE  h[s] = Value(h, s)
    <3>1. h[s] = Value(g, s)
      BY <2>1
    <3>2. CASE s = {}
      BY <3>1, <3>2
    <3>3. CASE s # {}
      <4>1. /\ s \ {Chosen(s)} \in SUBSET S
            /\ Cardinality(s \ {Chosen(s)}) = Cardinality(s) - 1
            /\ Cardinality(s) \in Nat
        BY <1>1, <1>3, <3>3
      <4>2. Cardinality(s \ {Chosen(s)}) <= n
        BY <2>2, <4>1
      <4>3. h[s \ {Chosen(s)}] = g[s \ {Chosen(s)}]
        BY <4>1, <4>2
      <4>. QED
        BY <3>1, <3>3, <4>3
    <3>. QED
      BY <3>2, <3>3
  <2>. HIDE DEF h
  <2>. QED
    BY <2>2
<1>6. Cardinality(S) \in Nat /\ \A s \in SUBSET S : Cardinality(s) <= Cardinality(S)
  BY <1>1, FS_Subset
<1>7. Upto(Cardinality(S))
  <2>. DEFINE P == {n \in Nat : Upto(n)}
  <2>. HIDE DEF Upto
  <2>1. 0 \in P /\ \A n \in Nat : n \in P => n + 1 \in P
    BY <1>4, <1>5
  <2>2. Nat \subseteq P
    BY <2>1, SetInduction
  <2>. QED
    BY <1>6, <2>2
<1>8. PICK g : \A s \in SUBSET S : g[s] = Value(g, s)
  BY <1>6, <1>7
<1> DEFINE h == [s \in SUBSET S |-> Value(g, s)]
<1>9. \A s \in SUBSET S : h[s] = g[s]
  BY <1>8
<1>10. \A s \in SUBSET S : Value(h, s) = Value(g, s)
  BY <1>3, <1>9
<1>11. h = [s \in SUBSET S |-> Value(h, s)]
  BY <1>10
<1>. HIDE DEF h
<1>12. Solves(h, f, S)
  BY <1>11 DEF Solves
<1>. QED
  BY <1>12

LEMMA SumIsSolution ==
  ASSUME NEW S, IsFiniteSet(S), NEW f
  PROVE  \E g : Solves(g, f, S) /\ SumFunctionOnSet(f, S) = g[S]
<1> DEFINE g == CHOOSE iter : Solves(iter, f, S)
<1>1. SumFunctionOnSet(f, S) = g[S]
  BY DEF SumFunctionOnSet, FoldFunctionOnSet, MapThenFoldSet, Solves, Chosen
<1>2. Solves(g, f, S)
  BY SolutionExists
<1>. QED
  BY <1>1, <1>2

\* There is one solution, and it is the same for a smaller set.
LEMMA SolutionUnique ==
  ASSUME NEW S, IsFiniteSet(S), NEW T \in SUBSET S, NEW f,
         NEW g, NEW h, Solves(g, f, S), Solves(h, f, T)
  PROVE  g[T] = h[T]
<1> DEFINE P == {n \in Nat : \A s \in SUBSET T : Cardinality(s) = n => g[s] = h[s]}
<1>1. \A s \in SUBSET T :
        /\ g[s] = IF s = {} THEN 0 ELSE f[Chosen(s)] + g[s \ {Chosen(s)}]
        /\ h[s] = IF s = {} THEN 0 ELSE f[Chosen(s)] + h[s \ {Chosen(s)}]
  <2>1. \A s \in SUBSET T : s \in SUBSET S
    OBVIOUS
  <2>2. \A s \in SUBSET S : g[s] = IF s = {} THEN 0 ELSE f[Chosen(s)] + g[s \ {Chosen(s)}]
    BY DEF Solves
  <2>3. \A s \in SUBSET T : h[s] = IF s = {} THEN 0 ELSE f[Chosen(s)] + h[s \ {Chosen(s)}]
    BY DEF Solves
  <2>. QED
    BY <2>1, <2>2, <2>3
<1>2. \A s \in SUBSET T : IsFiniteSet(s) /\ Cardinality(s) \in Nat
  BY FS_Subset, FS_CardinalityType
<1>3. 0 \in P
  <2>1. \A s \in SUBSET T : Cardinality(s) = 0 => s = {}
    BY <1>2, FS_EmptySet
  <2>. QED
    BY <1>1, <2>1
<1>4. ASSUME NEW n \in Nat, n \in P
      PROVE  n + 1 \in P
  <2>1. ASSUME NEW s \in SUBSET T, Cardinality(s) = n + 1
        PROVE  g[s] = h[s]
    <3>1. s # {}
      BY <2>1, FS_EmptySet
    <3>2. s \ {Chosen(s)} \in SUBSET T /\ Cardinality(s \ {Chosen(s)}) = n
      <4>1. Cardinality(s \ {Chosen(s)}) = Cardinality(s) - 1
        BY <1>2, <3>1, ChosenFacts, FS_RemoveElement
      <4>. QED
        BY <2>1, <4>1
    <3>3. g[s \ {Chosen(s)}] = h[s \ {Chosen(s)}]
      BY <1>4, <3>2
    <3>. QED
      BY <1>1, <3>1, <3>3
  <2>. QED
    BY <2>1
<1>5. Cardinality(T) \in P
  BY <1>2, <1>3, <1>4, SetInduction
<1>. QED
  BY <1>5

-----------------------------------------------------------------------------
(* What it is                                                              *)

LEMMA SumUnfolded ==
  ASSUME NEW S, IsFiniteSet(S), NEW f
  PROVE  SumFunctionOnSet(f, S) =
           IF S = {} THEN 0 ELSE f[Chosen(S)] + SumFunctionOnSet(f, S \ {Chosen(S)})
<1>1. PICK g : Solves(g, f, S) /\ SumFunctionOnSet(f, S) = g[S]
  BY SumIsSolution
<1>2. g[S] = IF S = {} THEN 0 ELSE f[Chosen(S)] + g[S \ {Chosen(S)}]
  BY <1>1 DEF Solves
<1>3. SumFunctionOnSet(f, S \ {Chosen(S)}) = g[S \ {Chosen(S)}]
  <2>1. IsFiniteSet(S \ {Chosen(S)}) /\ S \ {Chosen(S)} \in SUBSET S
    BY FS_Subset
  <2>2. PICK h : /\ Solves(h, f, S \ {Chosen(S)})
                 /\ SumFunctionOnSet(f, S \ {Chosen(S)}) = h[S \ {Chosen(S)}]
    BY <2>1, SumIsSolution
  <2>. QED
    BY <1>1, <2>1, <2>2, SolutionUnique
<1>. QED
  BY <1>1, <1>2, <1>3

\* Nothing adds up to nothing.
LEMMA SumOfNone ==
  ASSUME NEW f
  PROVE  SumFunctionOnSet(f, {}) = 0
<1>1. IsFiniteSet({})
  BY FS_EmptySet
<1>. QED
  BY <1>1, SumUnfolded

Integral(f, S) == \A x \in S : f[x] \in Int

\* The sum of integers is one, and the order in which they are added is no matter.
LEMMA SumOfOneMore ==
  ASSUME NEW S, IsFiniteSet(S), NEW f, Integral(f, S)
  PROVE  /\ SumFunctionOnSet(f, S) \in Int
         /\ \A x \in S : SumFunctionOnSet(f, S) = SumFunctionOnSet(f, S \ {x}) + f[x]
<1> DEFINE Sum(s) == SumFunctionOnSet(f, s)
           P == {n \in Nat : \A s \in SUBSET S : Cardinality(s) <= n =>
                   Sum(s) \in Int /\ \A x \in s : Sum(s) = Sum(s \ {x}) + f[x]}
<1>1. \A s \in SUBSET S : IsFiniteSet(s) /\ Cardinality(s) \in Nat
  BY FS_Subset, FS_CardinalityType
<1>2. /\ Sum({}) = 0
      /\ \A s \in SUBSET S : s # {} => Sum(s) = f[Chosen(s)] + Sum(s \ {Chosen(s)})
  BY <1>1, SumOfNone, SumUnfolded
<1>. HIDE DEF Sum
<1>3. 0 \in P
  <2>1. \A s \in SUBSET S : Cardinality(s) <= 0 => s = {}
    <3>1. \A s \in SUBSET S : Cardinality(s) = 0 => s = {}
      BY <1>1, FS_EmptySet
    <3>. QED
      BY <1>1, <3>1
  <2>2. Sum({}) \in Int
    BY <1>2
  <2>. QED
    BY <2>1, <2>2
<1>4. ASSUME NEW n \in Nat, n \in P
      PROVE  n + 1 \in P
  <2>0. \A s \in SUBSET S : Cardinality(s) <= n =>
          Sum(s) \in Int /\ \A x \in s : Sum(s) = Sum(s \ {x}) + f[x]
    BY <1>4
  <2>1. ASSUME NEW s \in SUBSET S, Cardinality(s) <= n + 1, s # {}
        PROVE  Sum(s) \in Int /\ \A x \in s : Sum(s) = Sum(s \ {x}) + f[x]
    <3>. DEFINE y == Chosen(s)
    <3>1. y \in s
      BY <2>1, ChosenFacts
    <3>2. Sum(s) = f[y] + Sum(s \ {y})
      BY <1>2, <2>1
    <3>. HIDE DEF y
    <3>3. ASSUME NEW x \in s
          PROVE  s \ {x} \in SUBSET S /\ Cardinality(s \ {x}) <= n
      <4>1. Cardinality(s \ {x}) = Cardinality(s) - 1 /\ Cardinality(s) \in Nat
        BY <1>1, FS_RemoveElement
      <4>. QED
        BY <2>1, <4>1
    <3>4. \A x \in s : /\ Sum(s \ {x}) \in Int /\ f[x] \in Int
                      /\ \A z \in s \ {x} : Sum(s \ {x}) = Sum((s \ {x}) \ {z}) + f[z]
      BY <2>0, <3>3 DEF Integral
    <3>5. Sum(s) \in Int
      BY <3>1, <3>2, <3>4
    <3>6. ASSUME NEW x \in s
          PROVE  Sum(s) = Sum(s \ {x}) + f[x]
      <4>1. CASE x = y
        BY <3>2, <3>4, <4>1
      <4>2. CASE x # y
        <5>1. x \in s \ {y} /\ y \in s \ {x} /\ (s \ {y}) \ {x} = (s \ {x}) \ {y}
          BY <3>1, <4>2
        <5>2. /\ Sum(s \ {y}) = Sum((s \ {x}) \ {y}) + f[x]
              /\ Sum(s \ {x}) = Sum((s \ {x}) \ {y}) + f[y]
          BY <3>1, <3>4, <5>1
        <5>3. Sum((s \ {x}) \ {y}) \in Int
          <6>1. (s \ {x}) \ {y} \in SUBSET (s \ {x}) /\ (s \ {x}) \ {y} \in SUBSET S
            OBVIOUS
          <6>2. Cardinality((s \ {x}) \ {y}) <= Cardinality(s \ {x})
            BY <1>1, <3>3, <6>1, FS_Subset
          <6>3. Cardinality((s \ {x}) \ {y}) <= n
            BY <1>1, <3>3, <6>1, <6>2
          <6>. QED
            BY <2>0, <6>1, <6>3
        <5>. QED
          BY <3>1, <3>2, <3>4, <5>2, <5>3
      <4>. QED
        BY <4>1, <4>2
    <3>. QED
      BY <3>5, <3>6
  <2>2. Sum({}) \in Int
    BY <1>2
  <2>. QED
    BY <2>1, <2>2
<1>5. Cardinality(S) \in P
  BY <1>1, <1>3, <1>4, SetInduction
<1>6. Cardinality(S) <= Cardinality(S)
  BY <1>1
<1>. QED
  BY <1>5, <1>6 DEF Sum

\* What is added outside the set is not seen.
LEMMA SumOfSame ==
  ASSUME NEW S, IsFiniteSet(S), NEW f, NEW g, Integral(f, S), \A x \in S : f[x] = g[x]
  PROVE  SumFunctionOnSet(f, S) = SumFunctionOnSet(g, S)
<1> DEFINE Q == {T \in SUBSET S : SumFunctionOnSet(f, T) = SumFunctionOnSet(g, T)}
<1>1. {} \in Q
  BY SumOfNone
<1>2. ASSUME NEW T \in SUBSET S, NEW x \in S \ T, T \in Q
      PROVE  T \cup {x} \in Q
  <2>1. /\ IsFiniteSet(T \cup {x}) /\ Integral(f, T \cup {x}) /\ Integral(g, T \cup {x})
        /\ (T \cup {x}) \ {x} = T
    BY FS_Subset DEF Integral
  <2>2. /\ SumFunctionOnSet(f, T \cup {x}) = SumFunctionOnSet(f, T) + f[x]
        /\ SumFunctionOnSet(g, T \cup {x}) = SumFunctionOnSet(g, T) + g[x]
    BY <2>1, SumOfOneMore
  <2>. QED
    BY <1>2, <2>2
<1>3. S \in Q
  BY <1>1, <1>2, SubsetInduction
<1>. QED
  BY <1>3

\* Sums add up position by position.
LEMMA SumOfSums ==
  ASSUME NEW S, IsFiniteSet(S), NEW f, NEW g, NEW h, Integral(f, S), Integral(g, S),
         \A x \in S : h[x] = f[x] + g[x]
  PROVE  SumFunctionOnSet(h, S) = SumFunctionOnSet(f, S) + SumFunctionOnSet(g, S)
<1> DEFINE Q == {T \in SUBSET S : SumFunctionOnSet(h, T)
                                   = SumFunctionOnSet(f, T) + SumFunctionOnSet(g, T)}
<1>1. {} \in Q
  BY SumOfNone
<1>2. ASSUME NEW T \in SUBSET S, NEW x \in S \ T, T \in Q
      PROVE  T \cup {x} \in Q
  <2>1. /\ IsFiniteSet(T \cup {x}) /\ IsFiniteSet(T)
        /\ Integral(f, T \cup {x}) /\ Integral(g, T \cup {x}) /\ Integral(h, T \cup {x})
        /\ Integral(f, T) /\ Integral(g, T)
        /\ (T \cup {x}) \ {x} = T
    BY FS_Subset DEF Integral
  <2>2. /\ SumFunctionOnSet(f, T \cup {x}) = SumFunctionOnSet(f, T) + f[x]
        /\ SumFunctionOnSet(g, T \cup {x}) = SumFunctionOnSet(g, T) + g[x]
        /\ SumFunctionOnSet(h, T \cup {x}) = SumFunctionOnSet(h, T) + h[x]
    BY <2>1, SumOfOneMore
  <2>3. /\ SumFunctionOnSet(f, T) \in Int /\ SumFunctionOnSet(g, T) \in Int
        /\ f[x] \in Int /\ g[x] \in Int /\ h[x] = f[x] + g[x]
    BY <2>1, SumOfOneMore DEF Integral
  <2>. QED
    BY <1>2, <2>2, <2>3
<1>3. S \in Q
  BY <1>1, <1>2, SubsetInduction
<1>. QED
  BY <1>3

\* A change in one place changes the sum by as much.
LEMMA SumOfChanged ==
  ASSUME NEW S, IsFiniteSet(S), NEW f, NEW g, Integral(f, S), Integral(g, S),
         NEW x \in S, \A y \in S \ {x} : f[y] = g[y]
  PROVE  SumFunctionOnSet(g, S) = SumFunctionOnSet(f, S) + (g[x] - f[x])
<1>1. IsFiniteSet(S \ {x}) /\ Integral(f, S \ {x})
  BY FS_Subset DEF Integral
<1>2. SumFunctionOnSet(f, S \ {x}) = SumFunctionOnSet(g, S \ {x})
  BY <1>1, SumOfSame
<1>3. /\ SumFunctionOnSet(f, S) = SumFunctionOnSet(f, S \ {x}) + f[x]
      /\ SumFunctionOnSet(g, S) = SumFunctionOnSet(g, S \ {x}) + g[x]
      /\ SumFunctionOnSet(f, S \ {x}) \in Int /\ f[x] \in Int /\ g[x] \in Int
  BY <1>1, SumOfOneMore DEF Integral
<1>. QED
  BY <1>2, <1>3

\* Zeros may be left out.
LEMMA SumWithoutZeros ==
  ASSUME NEW S, IsFiniteSet(S), NEW T \in SUBSET S, NEW f, Integral(f, S),
         \A x \in S \ T : f[x] = 0
  PROVE  SumFunctionOnSet(f, S) = SumFunctionOnSet(f, T)
<1> DEFINE Q == {U \in SUBSET S : SumFunctionOnSet(f, U) = SumFunctionOnSet(f, U \cap T)}
<1>1. {} \in Q
  <2>1. {} \cap T = {}
    OBVIOUS
  <2>. QED
    BY <2>1
<1>2. ASSUME NEW U \in SUBSET S, NEW x \in S \ U, U \in Q
      PROVE  U \cup {x} \in Q
  <2>1. /\ IsFiniteSet(U \cup {x}) /\ Integral(f, U \cup {x}) /\ (U \cup {x}) \ {x} = U
        /\ IsFiniteSet(U) /\ Integral(f, U)
    BY FS_Subset DEF Integral
  <2>2. /\ SumFunctionOnSet(f, U \cup {x}) = SumFunctionOnSet(f, U) + f[x]
        /\ SumFunctionOnSet(f, U) \in Int
    BY <2>1, SumOfOneMore
  <2>3. CASE x \in T
    <3>1. (U \cup {x}) \cap T = (U \cap T) \cup {x}
      BY <2>3
    <3>2. /\ IsFiniteSet((U \cap T) \cup {x}) /\ Integral(f, (U \cap T) \cup {x})
          /\ ((U \cap T) \cup {x}) \ {x} = U \cap T
      BY FS_Subset DEF Integral
    <3>3. SumFunctionOnSet(f, (U \cap T) \cup {x}) = SumFunctionOnSet(f, U \cap T) + f[x]
      BY <3>2, SumOfOneMore
    <3>. QED
      BY <1>2, <2>2, <3>1, <3>3
  <2>4. CASE x \notin T
    <3>1. (U \cup {x}) \cap T = U \cap T /\ f[x] = 0
      BY <2>4
    <3>2. SumFunctionOnSet(f, U \cup {x}) = SumFunctionOnSet(f, U)
      BY <2>2, <3>1
    <3>. QED
      BY <1>2, <3>1, <3>2
  <2>. QED
    BY <2>3, <2>4
<1>3. S \in Q
  BY <1>1, <1>2, SubsetInduction
<1>4. S \cap T = T
  OBVIOUS
<1>. QED
  BY <1>3, <1>4
\* The sums of the parts add up to the sum of the whole.
LEMMA SumOfParts ==
  ASSUME NEW S, IsFiniteSet(S), NEW P, IsFiniteSet(P), NEW f, Integral(f, S),
         NEW key \in [S -> P],
         NEW g, \A p \in P : g[p] = SumFunctionOnSet(f, {x \in S : key[x] = p})
  PROVE  SumFunctionOnSet(g, P) = SumFunctionOnSet(f, S)
<1> DEFINE Part(T, p) == {x \in T : key[x] = p}
           Sums(T) == [p \in P |-> SumFunctionOnSet(f, Part(T, p))]
           Q == {T \in SUBSET S : SumFunctionOnSet(Sums(T), P) = SumFunctionOnSet(f, T)}
<1>1. \A T \in SUBSET S, p \in P :
        /\ IsFiniteSet(Part(T, p)) /\ Integral(f, Part(T, p))
        /\ SumFunctionOnSet(f, Part(T, p)) \in Int
  <2>1. \A T \in SUBSET S, p \in P : Part(T, p) \in SUBSET S
    OBVIOUS
  <2>2. \A U \in SUBSET S : IsFiniteSet(U) /\ Integral(f, U)
    BY FS_Subset DEF Integral
  <2>3. \A U \in SUBSET S : SumFunctionOnSet(f, U) \in Int
    BY <2>2, SumOfOneMore
  <2>. HIDE DEF Part
  <2>. QED
    BY <2>1, <2>2, <2>3
<1>2. {} \in Q
  <2>1. \A p \in P : Part({}, p) = {}
    OBVIOUS
  <2>2. \A p \in P : Sums({})[p] = 0
    BY <2>1, SumOfNone
  <2>3. Integral(Sums({}), P) /\ {} \in SUBSET P
    BY <2>2 DEF Integral
  <2>. HIDE DEF Sums
  <2>4. SumFunctionOnSet(Sums({}), P) = SumFunctionOnSet(Sums({}), {})
    BY <2>2, <2>3, SumWithoutZeros
  <2>. QED
    BY <2>4, SumOfNone
<1>3. ASSUME NEW T \in SUBSET S, NEW x \in S \ T, T \in Q
      PROVE  T \cup {x} \in Q
  <2> DEFINE U == T \cup {x}
             p == key[x]
  <2>1. /\ T \in SUBSET S /\ U \in SUBSET S /\ p \in P
        /\ x \in Part(U, p) /\ Part(U, p) \ {x} = Part(T, p)
        /\ \A q \in P \ {p} : Part(U, q) = Part(T, q)
    OBVIOUS
  <2>2. /\ IsFiniteSet(U) /\ Integral(f, U) /\ x \in U /\ U \ {x} = T
    BY FS_Subset DEF Integral
  <2>. HIDE DEF U, p, Part
  <2>3. SumFunctionOnSet(f, U) = SumFunctionOnSet(f, T) + f[x]
    BY <2>2, SumOfOneMore
  <2>4. SumFunctionOnSet(f, Part(U, p)) = SumFunctionOnSet(f, Part(T, p)) + f[x]
    BY <1>1, <2>1, SumOfOneMore
  <2>5. /\ Integral(Sums(T), P) /\ Integral(Sums(U), P)
        /\ \A q \in P \ {p} : Sums(T)[q] = Sums(U)[q]
        /\ Sums(U)[p] = Sums(T)[p] + f[x]
        /\ Sums(T)[p] \in Int /\ f[x] \in Int
    BY <1>1, <2>1, <2>4 DEF Integral
  <2>. HIDE DEF Sums
  <2>6. SumFunctionOnSet(Sums(U), P) = SumFunctionOnSet(Sums(T), P) + (Sums(U)[p] - Sums(T)[p])
    BY <2>1, <2>5, SumOfChanged
  <2>7. SumFunctionOnSet(Sums(T), P) \in Int /\ Sums(U)[p] - Sums(T)[p] = f[x]
    BY <2>5, SumOfOneMore
  <2>8. SumFunctionOnSet(Sums(U), P) = SumFunctionOnSet(f, U)
    BY <1>3, <2>3, <2>6, <2>7
  <2>. QED
    BY <2>1, <2>8 DEF U
<1>4. S \in Q
  <2>. HIDE DEF Q
  <2>. QED
    BY <1>2, <1>3, SubsetInduction
<1>5. Integral(Sums(S), P) /\ \A p \in P : Sums(S)[p] = g[p]
  BY <1>1 DEF Integral
<1>. HIDE DEF Sums
<1>. QED
  BY <1>4, <1>5, SumOfSame

\* A sum of ones counts.
LEMMA SumOfOnes ==
  ASSUME NEW S, IsFiniteSet(S), NEW f, \A x \in S : f[x] = 1
  PROVE  SumFunctionOnSet(f, S) = Cardinality(S)
<1> DEFINE Q == {T \in SUBSET S : SumFunctionOnSet(f, T) = Cardinality(T)}
<1>1. {} \in Q
  BY SumOfNone, FS_EmptySet
<1>2. ASSUME NEW T \in SUBSET S, NEW x \in S \ T, T \in Q
      PROVE  T \cup {x} \in Q
  <2>1. /\ IsFiniteSet(T) /\ IsFiniteSet(T \cup {x}) /\ Integral(f, T \cup {x})
        /\ (T \cup {x}) \ {x} = T /\ f[x] = 1
    BY FS_Subset DEF Integral
  <2>2. SumFunctionOnSet(f, T \cup {x}) = SumFunctionOnSet(f, T) + f[x]
    BY <2>1, SumOfOneMore
  <2>3. Cardinality(T \cup {x}) = Cardinality(T) + 1
    BY <2>1, FS_AddElement
  <2>. QED
    BY <1>2, <2>1, <2>2, <2>3
<1>3. S \in Q
  BY <1>1, <1>2, SubsetInduction
<1>. QED
  BY <1>3
=============================================================================
