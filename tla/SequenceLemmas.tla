--------------------------- MODULE SequenceLemmas ---------------------------
(***************************************************************************)
(* Facts about sequences used as tables, about the newest of a set of      *)
(* attempt numbers, and about what recursion over a finite set computes.   *)
(***************************************************************************)
EXTENDS Integers, Sequences, Functions, TLAPS, WellFoundedInduction, FiniteSetTheorems

-----------------------------------------------------------------------------
(* Sequences *)

LEMMA AppendFacts ==
  ASSUME NEW S, NEW t \in Seq(S), NEW e \in S
  PROVE  /\ Append(t, e) \in Seq(S)
         /\ DOMAIN t = 1 .. Len(t) /\ Len(t) \in Nat
         /\ DOMAIN Append(t, e) = 1 .. Len(t) + 1
         /\ Len(t) + 1 \in DOMAIN Append(t, e)
         /\ DOMAIN t \subseteq DOMAIN Append(t, e)
         /\ \A i \in DOMAIN Append(t, e) : i \notin DOMAIN t => i = Len(t) + 1
         /\ \A i \in DOMAIN t : Append(t, e)[i] = t[i]
         /\ Append(t, e)[Len(t) + 1] = e
  OBVIOUS

LEMMA ExceptFacts ==
  ASSUME NEW S, NEW t \in Seq(S), NEW i \in DOMAIN t, NEW e \in S
  PROVE  /\ [t EXCEPT ![i] = e] \in Seq(S)
         /\ DOMAIN [t EXCEPT ![i] = e] = DOMAIN t
         /\ \A j \in DOMAIN t : [t EXCEPT ![i] = e][j] = IF j = i THEN e ELSE t[j]
  OBVIOUS

-----------------------------------------------------------------------------
(* The newest row *)

LEMMA MinExists ==
  ASSUME NEW S \in SUBSET Nat, S # {}
  PROVE  \E m \in S : \A k \in S : m <= k
<1> DEFINE Less == {ss \in Nat \X Nat : ss[1] < ss[2]}
<1>1. Less = OpToRel(<, Nat)
  BY DEF OpToRel
<1>2. IsWellFoundedOn(Less, Nat)
  BY <1>1, NatLessThanWellFounded
<1>3. PICK m \in S : \A k \in S : <<k, m>> \notin Less
  BY <1>2, WFMin
<1>4. \A k \in S : ~(k < m)
  BY <1>3
<1> QED
  BY <1>4

LEMMA MaxExists ==
  ASSUME NEW n \in Nat, NEW S \in SUBSET (1 .. n), S # {}
  PROVE  \E m \in S : \A k \in S : k <= m
<1> DEFINE Gaps == {n - k : k \in S}
<1>1. \A k \in S : n - k \in Nat
  OBVIOUS
<1>2. Gaps \in SUBSET Nat /\ Gaps # {}
  BY <1>1
<1>3. PICK gap \in Gaps : \A g \in Gaps : gap <= g
  BY <1>2, MinExists
<1>4. PICK m \in S : gap = n - m
  BY <1>3
<1>5. \A k \in S : n - m <= n - k
  BY <1>3, <1>4
<1> QED
  BY <1>5

-----------------------------------------------------------------------------
(* Induction and recursion over finite sets *)

\* Induction with a set for the predicate.
LEMMA NaturalInduction ==
  ASSUME NEW G, 0 \in G, \A n \in Nat : n \in G => n + 1 \in G
  PROVE  Nat \subseteq G
<1> DEFINE Out == {n \in Nat : n \notin G}
<1> SUFFICES ASSUME Out # {} PROVE FALSE
  OBVIOUS
<1>1. PICK m \in Out : \A k \in Out : m <= k
  BY MinExists
<1>2. m # 0 /\ m - 1 \in Nat
  OBVIOUS
<1>3. m - 1 \notin Out
  BY <1>1, <1>2
<1>4. (m - 1) + 1 \in G
  BY <1>2, <1>3
<1> QED
  BY <1>4

\* A function on the natural numbers may be defined by recursion on smaller
\* ones.
Unfolds(g, D, base, F, stop, prev) ==
  \A n \in D : g[n] = IF n \in stop THEN base ELSE F[<<n, g[prev[n]]>>]

LEMMA NaturalRecursion ==
  ASSUME NEW V, NEW base \in V, NEW F \in [Nat \X V -> V], NEW stop,
         NEW prev \in [Nat -> Nat], \A n \in Nat : n \in stop \/ prev[n] < n
  PROVE  \E g \in [Nat -> V] : Unfolds(g, Nat, base, F, stop, prev)
<1> DEFINE Good(g, m) == g \in [0 .. m -> V] /\ Unfolds(g, 0 .. m, base, F, stop, prev)
           H == {m \in Nat : \E g : Good(g, m)}
<1>1. 0 \in H
  <2>1. 0 \in stop
    OBVIOUS
  <2>2. Good([n \in 0 .. 0 |-> base], 0)
    BY <2>1 DEF Unfolds
  <2> HIDE DEF Good
  <2> QED
    BY <2>2
<1>2. ASSUME NEW n \in Nat, n \in H
      PROVE  n + 1 \in H
  <2>1. PICK g : Good(g, n)
    BY <1>2
  <2> DEFINE next == IF n + 1 \in stop THEN base ELSE F[<<n + 1, g[prev[n + 1]]>>]
             h == [k \in 0 .. n + 1 |-> IF k = n + 1 THEN next ELSE g[k]]
  <2>2. n + 1 \in Nat /\ (n + 1 \in stop \/ prev[n + 1] \in 0 .. n)
    OBVIOUS
  <2>3. next \in V
    <3>1. CASE n + 1 \in stop
      BY <3>1
    <3>2. CASE n + 1 \notin stop
      <4>1. g[prev[n + 1]] \in V
        BY <2>1, <2>2, <3>2
      <4>2. F[<<n + 1, g[prev[n + 1]]>>] \in V
        BY <2>2, <4>1
      <4> QED
        BY <3>2, <4>2
    <3> QED
      BY <3>1, <3>2
  <2>4. h \in [0 .. n + 1 -> V] /\ h[n + 1] = next /\ \A k \in 0 .. n : h[k] = g[k]
    <3> HIDE DEF next
    <3> QED
      BY <2>1, <2>3
  <2>5. ASSUME NEW k \in 0 .. n + 1
        PROVE  h[k] = IF k \in stop THEN base ELSE F[<<k, h[prev[k]]>>]
    <3> HIDE DEF h
    <3>1. CASE k = n + 1
      BY <2>2, <2>4, <3>1
    <3>2. CASE k \in 0 .. n
      <4>1. k \in stop \/ prev[k] \in 0 .. n
        <5>1. k \in Nat /\ prev[k] \in Nat /\ (k \in stop \/ prev[k] < k)
          BY <3>2
        <5> QED
          BY <3>2, <5>1
      <4>2. h[k] = g[k] /\ (k \in stop \/ h[prev[k]] = g[prev[k]])
        BY <2>4, <3>2, <4>1
      <4>3. g[k] = IF k \in stop THEN base ELSE F[<<k, g[prev[k]]>>]
        BY <2>1, <3>2 DEF Unfolds
      <4> QED
        BY <4>2, <4>3
    <3> QED
      BY <3>1, <3>2
  <2>6. Good(h, n + 1)
    <3> HIDE DEF h
    <3> QED
      BY <2>4, <2>5 DEF Unfolds
  <2> HIDE DEF Good, h
  <2> QED
    BY <2>6
<1>3. \A m \in Nat : \E g : Good(g, m)
  <2> HIDE DEF H
  <2>1. Nat \subseteq H
    BY <1>1, <1>2, NaturalInduction
  <2> QED
    BY <2>1 DEF H
<1>4. ASSUME NEW m \in Nat, NEW k \in Nat, NEW g, NEW h, Good(g, m), Good(h, k)
      PROVE  \A n \in Nat : n <= m /\ n <= k => g[n] = h[n]
  <2> DEFINE Differ == {n \in Nat : n <= m /\ n <= k /\ g[n] # h[n]}
  <2> SUFFICES ASSUME Differ # {} PROVE FALSE
    OBVIOUS
  <2>1. PICK n \in Differ : \A i \in Differ : n <= i
    BY MinExists
  <2>2. /\ n \in 0 .. m /\ n \in 0 .. k
        /\ n \in stop \/ (prev[n] \in Nat /\ prev[n] < n /\ prev[n] <= m /\ prev[n] <= k)
    <3>1. n \in Nat /\ n <= m /\ n <= k /\ prev[n] \in Nat /\ (n \in stop \/ prev[n] < n)
      BY <2>1
    <3> QED
      BY <3>1
  <2>3. n \in stop \/ prev[n] \notin Differ
    BY <2>1, <2>2
  <2>4. n \in stop \/ g[prev[n]] = h[prev[n]]
    BY <2>2, <2>3
  <2> QED
    BY <1>4, <2>1, <2>2, <2>4 DEF Unfolds
<1> DEFINE part == [m \in Nat |-> CHOOSE g : Good(g, m)]
           f == [n \in Nat |-> part[n][n]]
<1>5. ASSUME NEW n \in Nat
      PROVE  Good(part[n], n)
  BY <1>3
<1> HIDE DEF part
<1>6. ASSUME NEW n \in Nat
      PROVE  /\ f[n] \in V
             /\ f[n] = IF n \in stop THEN base ELSE F[<<n, f[prev[n]]>>]
  <2>1. n \in 0 .. n /\ part[n] \in [0 .. n -> V]
    BY <1>5
  <2>2. part[n][n] = IF n \in stop THEN base ELSE F[<<n, part[n][prev[n]]>>]
    BY <1>5, <2>1 DEF Unfolds
  <2>3. n \in stop \/ part[n][prev[n]] = part[prev[n]][prev[n]]
    <3> SUFFICES ASSUME n \notin stop PROVE part[n][prev[n]] = part[prev[n]][prev[n]]
      OBVIOUS
    <3>1. prev[n] \in Nat /\ prev[n] <= n /\ prev[n] <= prev[n]
      OBVIOUS
    <3>2. Good(part[n], n) /\ Good(part[prev[n]], prev[n])
      BY <1>5, <3>1
    <3> HIDE DEF Good
    <3> QED
      BY <1>4, <3>1, <3>2
  <2>4. f[n] = part[n][n] /\ f[prev[n]] = part[prev[n]][prev[n]]
    OBVIOUS
  <2> QED
    BY <2>1, <2>2, <2>3, <2>4
<1>7. f \in [Nat -> V]
  BY <1>6
<1> QED
  BY <1>6, <1>7 DEF Unfolds

\* What holds of {}, and of a set if it does of the set without any one
\* element, holds of every subset of a finite set.
LEMMA SubsetInduction ==
  ASSUME NEW S, IsFiniteSet(S), NEW G, {} \in G,
         \A T \in SUBSET S : T # {} /\ (\A x \in T : T \ {x} \in G) => T \in G
  PROVE  SUBSET S \subseteq G
<1> DEFINE H == {n \in Nat : \A T \in SUBSET S : Cardinality(T) = n => T \in G}
<1>1. \A T \in SUBSET S : IsFiniteSet(T) /\ Cardinality(T) \in Nat
  BY FS_Subset, FS_CardinalityType
<1>2. 0 \in H
  BY <1>1, FS_EmptySet
<1>3. ASSUME NEW n \in Nat, n \in H
      PROVE  n + 1 \in H
  <2> SUFFICES ASSUME NEW T \in SUBSET S, Cardinality(T) = n + 1
               PROVE  T \in G
    OBVIOUS
  <2>1. T # {}
    <3>1. Cardinality({}) = 0 /\ n + 1 # 0
      BY FS_EmptySet
    <3> QED
      BY <3>1
  <2>2. ASSUME NEW x \in T
        PROVE  T \ {x} \in G
    <3>1. Cardinality(T \ {x}) = (n + 1) - 1
      BY <1>1, FS_RemoveElement
    <3> QED
      BY <1>3, <3>1
  <2> QED
    BY <2>1, <2>2
<1> HIDE DEF H
<1>4. Nat \subseteq H
  BY <1>2, <1>3, NaturalInduction
<1> QED
  BY <1>1, <1>4 DEF H

\* g is recursion over the subsets of S: it takes pick[T] out of T, and F joins
\* that with what it made of the rest.
Recursion(g, S, base, F, pick) ==
  g = [T \in SUBSET S |-> IF T = {} THEN base ELSE F[<<pick[T], g[T \ {pick[T]}]>>]]

\* The function that recursion over the subsets of a finite set defines.
LEMMA FoldExists ==
  ASSUME NEW S, IsFiniteSet(S), NEW V, NEW base \in V, NEW F \in [S \X V -> V],
         NEW pick, \A T \in SUBSET S : T # {} => pick[T] \in T
  PROVE  \E g \in [SUBSET S -> V] : Recursion(g, S, base, F, pick)
<1> DEFINE D(n) == {T \in SUBSET S : Cardinality(T) <= n}
           Step(g, T) == IF T = {} THEN base ELSE F[<<pick[T], g[T \ {pick[T]}]>>]
           H == {n \in Nat : \E g \in [D(n) -> V] : \A T \in D(n) : g[T] = Step(g, T)}
<1>1. \A T \in SUBSET S : IsFiniteSet(T) /\ Cardinality(T) \in Nat
  BY FS_Subset, FS_CardinalityType
<1>2. \A T \in SUBSET S : T # {} => /\ T \ {pick[T]} \in SUBSET S
                                     /\ Cardinality(T \ {pick[T]}) = Cardinality(T) - 1
  BY <1>1, FS_RemoveElement
<1>3. 0 \in H
  <2>1. D(0) = {{}}
    BY <1>1, FS_EmptySet
  <2>2. [T \in D(0) |-> base] \in [D(0) -> V]
    OBVIOUS
  <2> QED
    BY <2>1, <2>2
<1>4. ASSUME NEW n \in Nat, n \in H
      PROVE  n + 1 \in H
  <2>1. PICK g \in [D(n) -> V] : \A T \in D(n) : g[T] = Step(g, T)
    BY <1>4
  <2>2. \A T \in D(n + 1) : T # {} => T \ {pick[T]} \in D(n)
    BY <1>1, <1>2
  <2> DEFINE h == [T \in D(n + 1) |-> Step(g, T)]
  <2>3. h \in [D(n + 1) -> V]
    BY <2>2
  <2>4. D(n) \subseteq D(n + 1)
    BY <1>1
  <2>5. \A T \in D(n) : h[T] = g[T]
    BY <2>1, <2>4
  <2>6. \A T \in D(n + 1) : h[T] = Step(h, T)
    BY <2>2, <2>5
  <2>7. n + 1 \in Nat
    OBVIOUS
  <2> HIDE DEF h, D, Step
  <2> QED
    BY <2>3, <2>6, <2>7
<1>5. Cardinality(S) \in H
  <2> HIDE DEF H
  <2>1. Nat \subseteq H
    BY <1>3, <1>4, NaturalInduction
  <2> QED
    BY <1>1, <2>1
<1>6. D(Cardinality(S)) = SUBSET S
  BY <1>1, FS_Subset
<1>7. PICK g \in [SUBSET S -> V] : \A T \in SUBSET S : g[T] = Step(g, T)
  BY <1>5, <1>6
<1>8. g = [T \in SUBSET S |-> Step(g, T)]
  BY <1>7
<1> QED
  BY <1>8 DEF Recursion

-----------------------------------------------------------------------------
(* Sums *)

AnyOf(T) == CHOOSE x \in T : TRUE

LEMMA AnyOfIsIn == ASSUME NEW T, T # {} PROVE AnyOf(T) \in T
  BY DEF AnyOf

\* The partial sums of w over the subsets of its domain.
Partial(w, g) ==
  g = [T \in SUBSET DOMAIN w |-> IF T = {} THEN 0 ELSE w[AnyOf(T)] + g[T \ {AnyOf(T)}]]

LEMMA SumIsPartial ==
  ASSUME NEW w
  PROVE  SumFunction(w) = (CHOOSE g : Partial(w, g))[DOMAIN w]
  BY DEF SumFunction, SumFunctionOnSet, FoldFunctionOnSet, MapThenFoldSet, Partial, AnyOf

\* ... and their last is the sum.
SumsUp(g, S, w) ==
  /\ g[S] = SumFunction(w)
  /\ g[{}] = 0
  /\ \A T \in SUBSET S : T # {} => g[T] = w[AnyOf(T)] + g[T \ {AnyOf(T)}]

LEMMA SumUnfolds ==
  ASSUME NEW S, IsFiniteSet(S), NEW w \in [S -> Int]
  PROVE  \E g \in [SUBSET S -> Int] : SumsUp(g, S, w)
<1> DEFINE F == [p \in S \X Int |-> w[p[1]] + p[2]]
           pick == [T \in SUBSET S |-> AnyOf(T)]
<1>1. F \in [S \X Int -> Int]
  OBVIOUS
<1>2. \A T \in SUBSET S : T # {} => pick[T] \in T
  BY AnyOfIsIn
<1> HIDE DEF F, pick
<1>3. PICK g \in [SUBSET S -> Int] : Recursion(g, S, 0, F, pick)
  <2>1. 0 \in Int
    OBVIOUS
  <2> QED
    BY <1>1, <1>2, <2>1, FoldExists
<1>4. ASSUME NEW T \in SUBSET S
      PROVE  g[T] = IF T = {} THEN 0 ELSE w[AnyOf(T)] + g[T \ {AnyOf(T)}]
  <2>1. g[T] = IF T = {} THEN 0 ELSE F[<<pick[T], g[T \ {pick[T]}]>>]
    BY <1>3 DEF Recursion
  <2>2. pick[T] = AnyOf(T) /\ g[T \ {pick[T]}] \in Int
    BY DEF pick
  <2>3. T # {} => F[<<AnyOf(T), g[T \ {AnyOf(T)}]>>] = w[AnyOf(T)] + g[T \ {AnyOf(T)}]
    BY <2>2, AnyOfIsIn DEF F
  <2> QED
    BY <2>1, <2>2, <2>3
<1>5. Partial(w, g)
  BY <1>4 DEF Partial
<1> DEFINE sum == CHOOSE h : Partial(w, h)
<1>6. Partial(w, sum)
  BY <1>5
<1> HIDE DEF sum
<1>7. \A T \in SUBSET S :
        sum[T] = IF T = {} THEN 0 ELSE w[AnyOf(T)] + sum[T \ {AnyOf(T)}]
  BY <1>6 DEF Partial
<1> DEFINE G == {T \in SUBSET S : sum[T] = g[T]}
<1>8. SUBSET S \subseteq G
  <2>1. {} \in G
    BY <1>4, <1>7
  <2>2. ASSUME NEW T \in SUBSET S, T # {}, \A x \in T : T \ {x} \in G
        PROVE  T \in G
    <3>1. T \ {AnyOf(T)} \in G
      BY <2>2, AnyOfIsIn
    <3> QED
      BY <1>4, <1>7, <2>2, <3>1
  <2> HIDE DEF G
  <2> QED
    BY <2>1, <2>2, SubsetInduction
<1>9. g[S] = SumFunction(w)
  BY <1>8, SumIsPartial DEF sum
<1> QED
  BY <1>4, <1>9 DEF SumsUp

LEMMA SumIsInt ==
  ASSUME NEW S, IsFiniteSet(S), NEW w \in [S -> Int]
  PROVE  SumFunction(w) \in Int
<1>1. PICK g \in [SUBSET S -> Int] : g[S] = SumFunction(w)
  BY SumUnfolds DEF SumsUp
<1> QED
  BY <1>1

\* The sum of negated amounts.
LEMMA SumNegates ==
  ASSUME NEW S, IsFiniteSet(S), NEW w \in [S -> Int], NEW v \in [S -> Int],
         \A x \in S : v[x] = 0 - w[x]
  PROVE  SumFunction(v) = 0 - SumFunction(w)
<1>1. PICK g \in [SUBSET S -> Int] : SumsUp(g, S, w)
  BY SumUnfolds
<1>2. PICK h \in [SUBSET S -> Int] : SumsUp(h, S, v)
  BY SumUnfolds
<1> DEFINE G == {T \in SUBSET S : h[T] = 0 - g[T]}
<1>3. SUBSET S \subseteq G
  <2>1. {} \in G
    BY <1>1, <1>2 DEF SumsUp
  <2>2. ASSUME NEW T \in SUBSET S, T # {}, \A x \in T : T \ {x} \in G
        PROVE  T \in G
    <3>1. AnyOf(T) \in S /\ T \ {AnyOf(T)} \in G
      BY <2>2, AnyOfIsIn
    <3>2. PICK x \in S : x = AnyOf(T)
      BY <3>1
    <3>3. /\ g[T] = w[x] + g[T \ {x}]
          /\ h[T] = v[x] + h[T \ {x}]
          /\ h[T \ {x}] = 0 - g[T \ {x}]
      BY <1>1, <1>2, <2>2, <3>1, <3>2 DEF SumsUp
    <3> QED
      BY <3>3
  <2> HIDE DEF G
  <2> QED
    BY <2>1, <2>2, SubsetInduction
<1> QED
  BY <1>1, <1>2, <1>3 DEF SumsUp

\* Amounts that are within k of each other have sums within k for each.
LEMMA SumsStayClose ==
  ASSUME NEW S, IsFiniteSet(S), NEW w \in [S -> Int], NEW v \in [S -> Int], NEW k \in Nat,
         \A x \in S : v[x] - w[x] \in -k .. k
  PROVE  SumFunction(v) - SumFunction(w) \in -(k * Cardinality(S)) .. k * Cardinality(S)
<1>1. PICK g \in [SUBSET S -> Int] : SumsUp(g, S, w)
  BY SumUnfolds
<1>2. PICK h \in [SUBSET S -> Int] : SumsUp(h, S, v)
  BY SumUnfolds
<1> DEFINE G == {T \in SUBSET S : h[T] - g[T] \in -(k * Cardinality(T)) .. k * Cardinality(T)}
<1>3. SUBSET S \subseteq G
  <2>1. {} \in G
    <3>1. Cardinality({}) = 0
      BY FS_EmptySet
    <3>2. k * 0 = 0 /\ h[{}] - g[{}] = 0
      BY <1>1, <1>2 DEF SumsUp
    <3> QED
      BY <3>1, <3>2
  <2>2. ASSUME NEW T \in SUBSET S, T # {}, \A x \in T : T \ {x} \in G
        PROVE  T \in G
    <3>1. AnyOf(T) \in T /\ T \ {AnyOf(T)} \in G
      BY <2>2, AnyOfIsIn
    <3>2. PICK x \in T : x = AnyOf(T)
      BY <3>1
    <3>3. /\ g[T] = w[x] + g[T \ {x}]
          /\ h[T] = v[x] + h[T \ {x}]
          /\ T \ {x} \in G
      BY <1>1, <1>2, <2>2, <3>1, <3>2 DEF SumsUp
    <3>4. PICK n \in Nat : n = Cardinality(T \ {x}) /\ Cardinality(T) = n + 1
      <4>1. IsFiniteSet(T) /\ IsFiniteSet(T \ {x})
        BY FS_Subset
      <4>2. Cardinality(T \ {x}) \in Nat /\ Cardinality(T) \in Nat
        BY <4>1, FS_CardinalityType
      <4>3. Cardinality(T \ {x}) = Cardinality(T) - 1
        BY <4>1, FS_RemoveElement
      <4> QED
        BY <4>2, <4>3
    <3>5. h[T \ {x}] - g[T \ {x}] \in -(k * n) .. k * n
      BY <3>3, <3>4
    <3>6. PICK kn \in Nat : kn = k * n /\ k * (n + 1) = kn + k
      OBVIOUS
    <3>7. PICK a \in Int, b \in Int : a = g[T \ {x}] /\ b = h[T \ {x}]
      OBVIOUS
    <3>8. h[T] - g[T] \in -(kn + k) .. kn + k
      BY <3>3, <3>5, <3>6, <3>7
    <3> QED
      BY <3>4, <3>6, <3>8
  <2> HIDE DEF G
  <2> QED
    BY <2>1, <2>2, SubsetInduction
<1> QED
  BY <1>1, <1>2, <1>3 DEF SumsUp

=============================================================================
