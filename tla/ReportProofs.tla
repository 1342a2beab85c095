---------------------------- MODULE ReportProofs ----------------------------
(***************************************************************************)
(* That what the hub and the agent compute of their data is what the data  *)
(* say: the result of a CVE scan, the public status page and its limiter,  *)
(* the weekly report's downtime and alerts, and the verdicts of rules on   *)
(* rows that went through reductions.  Induction is over numbers, through  *)
(* the least counterexample; a recursive function is unfolded by Iterates, *)
(* and sums take one element away at a time, as SumFunctionOnSet does.     *)
(***************************************************************************)
EXTENDS CveScan, StatusPage, FleetReport, MetricReaders, FunctionTheorems, FiniteSetTheorems,
        SequenceTheorems, WellFoundedInduction, TLAPS

-----------------------------------------------------------------------------
(* Induction and recursion *)

\* Induction, of a set of numbers.
LEMMA AllNumbers ==
    ASSUME NEW P \in SUBSET Nat, 0 \in P, \A n \in P : n + 1 \in P
    PROVE  P = Nat
<1> SUFFICES ASSUME P # Nat PROVE FALSE
  OBVIOUS
<1>1. Nat \ P # {} /\ Nat \ P \subseteq Nat
  OBVIOUS
<1>2. PICK n \in Nat \ P : \A m \in Nat \ P : ~(<<m, n>> \in OpToRel(<, Nat))
  BY <1>1, NatLessThanWellFounded, WFMin
<1>3. n # 0 /\ n - 1 \in Nat /\ n - 1 < n /\ (n - 1) + 1 = n
  OBVIOUS
<1>4. <<n - 1, n>> \in OpToRel(<, Nat)
  BY <1>3 DEF OpToRel
<1> QED
  BY <1>2, <1>3, <1>4

\* A function of the numbers is defined by its first value and its next ones.
Unfolds(g, V, base, step) ==
    g \in [Nat -> V] /\ g[0] = base /\ \A n \in Nat : g[n + 1] = step[<<n, g[n]>>]

LEMMA Iterates ==
    ASSUME NEW V, NEW base \in V, NEW step \in [Nat \X V -> V]
    PROVE  \E g : Unfolds(g, V, base, step)
<1> DEFINE Upto(n, h) == /\ h \in [0..n -> V] /\ h[0] = base
                         /\ \A i \in 0..(n - 1) : h[i + 1] = step[<<i, h[i]>>]
<1>1. {n \in Nat : \E h : Upto(n, h)} = Nat
  <2> DEFINE P == {n \in Nat : \E h : Upto(n, h)}
  <2>1. 0 \in P
    <3>1. Upto(0, [i \in 0..0 |-> base])
      OBVIOUS
    <3> QED
      BY <3>1
  <2>2. ASSUME NEW n \in P PROVE n + 1 \in P
    <3>1. n \in Nat
      OBVIOUS
    <3>2. PICK h : Upto(n, h)
      OBVIOUS
    <3> DEFINE k == [i \in 0..(n + 1) |-> IF i = n + 1 THEN step[<<n, h[n]>>] ELSE h[i]]
    <3>3. h[n] \in V /\ step[<<n, h[n]>>] \in V
      BY <3>1, <3>2
    <3>4. k \in [0..(n + 1) -> V]
      <4>1. ASSUME NEW i \in 0..(n + 1), i # n + 1 PROVE h[i] \in V
        BY <3>1, <3>2, <4>1
      <4> QED
        BY <3>3, <4>1
    <3>5. k[0] = base /\ k[n + 1] = step[<<n, h[n]>>] /\ k[n] = h[n]
      BY <3>1, <3>2
    <3>6. \A i \in 0..(n - 1) : k[i + 1] = step[<<i, k[i]>>]
      BY <3>1, <3>2
    <3> HIDE DEF k
    <3>7. \A i \in 0..((n + 1) - 1) : i = n \/ i \in 0..(n - 1)
      BY <3>1
    <3>8. Upto(n + 1, k)
      BY <3>4, <3>5, <3>6, <3>7
    <3> QED
      BY <3>1, <3>8
  <2> HIDE DEF P
  <2>3. P \in SUBSET Nat
    BY DEF P
  <2>4. P = Nat
    BY <2>1, <2>2, <2>3, AllNumbers
  <2> QED
    BY <2>4 DEF P
<1>2. \A n, m \in Nat : \A h, k : Upto(n, h) /\ Upto(m, k) /\ n <= m => h[n] = k[n]
  <2> HIDE DEF Upto
  <2> SUFFICES ASSUME NEW n \in Nat, NEW m \in Nat, NEW h, NEW k, Upto(n, h), Upto(m, k), n <= m
               PROVE  h[n] = k[n]
    OBVIOUS
  <2> USE DEF Upto
  <2> DEFINE P == {i \in Nat : i <= n => h[i] = k[i]}
  <2>1. 0 \in P
    OBVIOUS
  <2>2. ASSUME NEW i \in P PROVE i + 1 \in P
    <3> SUFFICES ASSUME i + 1 <= n PROVE h[i + 1] = k[i + 1]
      OBVIOUS
    <3>1. i \in Nat /\ i \in 0..(n - 1) /\ i \in 0..(m - 1) /\ i <= n
      OBVIOUS
    <3> QED
      BY <3>1
  <2> HIDE DEF P
  <2>3. P \in SUBSET Nat
    BY DEF P
  <2>4. n \in P
    BY <2>1, <2>2, <2>3, AllNumbers
  <2> QED
    BY <2>4 DEF P
<1> DEFINE H(n) == CHOOSE h : Upto(n, h)
           g == [n \in Nat |-> H(n)[n]]
<1>3. \A n \in Nat : Upto(n, H(n))
  <2> SUFFICES ASSUME NEW n \in Nat PROVE Upto(n, H(n))
    OBVIOUS
  <2>1. \E h : Upto(n, h)
    BY <1>1
  <2> HIDE DEF Upto
  <2> QED
    BY <2>1
<1> HIDE DEF H
<1>4. g \in [Nat -> V]
  <2> SUFFICES ASSUME NEW n \in Nat PROVE H(n)[n] \in V
    OBVIOUS
  <2>1. H(n) \in [0..n -> V]
    BY <1>3
  <2> QED
    BY <2>1
<1>5. g[0] = base
  BY <1>3
<1>6. ASSUME NEW n \in Nat PROVE g[n + 1] = step[<<n, g[n]>>]
  <2>1. Upto(n, H(n)) /\ Upto(n + 1, H(n + 1)) /\ n <= n + 1
    BY <1>3
  <2>2. H(n)[n] = H(n + 1)[n]
    <3> HIDE DEF Upto
    <3> QED
      BY <1>2, <2>1
  <2>3. n \in 0..((n + 1) - 1)
    OBVIOUS
  <2>4. H(n + 1)[n + 1] = step[<<n, H(n + 1)[n]>>]
    BY <2>1, <2>3
  <2> QED
    BY <2>2, <2>4
<1> QED
  BY <1>4, <1>5, <1>6 DEF Unfolds

-----------------------------------------------------------------------------
(* Sums *)

\* What SumFunctionOnSet recurses on: one element less, and it is the one CHOOSE gives.
Picked(s) == CHOOSE x \in s : TRUE
Recursion(g, f, D) ==
    g = [s \in SUBSET D |-> IF s = {} THEN 0 ELSE f[Picked(s)] + g[s \ {Picked(s)}]]

LEMMA SumIsRecursive ==
    ASSUME NEW f, NEW S
    PROVE  SumFunctionOnSet(f, S) = (CHOOSE g : Recursion(g, f, S))[S]
BY DEF SumFunctionOnSet, FoldFunctionOnSet, MapThenFoldSet, Recursion, Picked

LEMMA Shrinks ==
    ASSUME NEW s, IsFiniteSet(s), s # {}
    PROVE  /\ Picked(s) \in s /\ Cardinality(s) \in Nat /\ IsFiniteSet(s \ {Picked(s)})
           /\ Cardinality(s) > 0 /\ Cardinality(s \ {Picked(s)}) = Cardinality(s) - 1
<1>1. Picked(s) \in s
  BY DEF Picked
<1>2. Cardinality(s) \in Nat /\ Cardinality(s) # 0
  BY FS_CardinalityType, FS_EmptySet
<1> QED
  BY <1>1, <1>2, FS_RemoveElement

\* Two such functions agree where they both count.
LEMMA RecursionsAgree ==
    ASSUME NEW D, IsFiniteSet(D), NEW E \in SUBSET D, NEW f, NEW f2, \A x \in E : f[x] = f2[x],
           NEW g, Recursion(g, f, D), NEW h, Recursion(h, f2, E)
    PROVE  \A s \in SUBSET E : g[s] = h[s]
<1> DEFINE P == {n \in Nat : \A s \in SUBSET E : Cardinality(s) = n => g[s] = h[s]}
<1>1. \A s \in SUBSET E : IsFiniteSet(s) /\ Cardinality(s) \in Nat /\ s \in SUBSET D
  BY FS_Subset, FS_CardinalityType
<1>2. 0 \in P
  <2> SUFFICES ASSUME NEW s \in SUBSET E, Cardinality(s) = 0 PROVE g[s] = h[s]
    OBVIOUS
  <2>1. s = {}
    BY <1>1, FS_EmptySet
  <2> QED
    BY <2>1 DEF Recursion
<1>3. ASSUME NEW n \in P PROVE n + 1 \in P
  <2>1. n \in Nat /\ \A s \in SUBSET E : Cardinality(s) = n => g[s] = h[s]
    OBVIOUS
  <2> SUFFICES ASSUME NEW s \in SUBSET E, Cardinality(s) = n + 1 PROVE g[s] = h[s]
    BY <2>1
  <2>2. s # {} /\ IsFiniteSet(s)
    BY <1>1, <2>1, FS_EmptySet
  <2> DEFINE c == Picked(s)
  <2>3. c \in s /\ Cardinality(s \ {c}) = n /\ s \ {c} \in SUBSET E
    <3>1. c \in s /\ Cardinality(s \ {c}) = (n + 1) - 1
      BY <2>2, Shrinks
    <3> HIDE DEF c
    <3> QED
      BY <2>1, <3>1
  <2> HIDE DEF c
  <2>4. g[s \ {c}] = h[s \ {c}] /\ f[c] = f2[c]
    BY <2>1, <2>3
  <2>5. g[s] = f[c] + g[s \ {c}] /\ h[s] = f2[c] + h[s \ {c}]
    BY <1>1, <2>2 DEF Recursion, c
  <2> QED
    BY <2>4, <2>5
<1> HIDE DEF P
<1>4. P = Nat
  <2>1. P \in SUBSET Nat
    BY DEF P
  <2> QED
    BY <1>2, <1>3, <2>1, AllNumbers
<1> QED
  BY <1>1, <1>4 DEF P

\* There is such a function: the recursion, unfolded as often as there are elements.
LEMMA RecursionExists ==
    ASSUME NEW D, IsFiniteSet(D), NEW f, \A x \in D : f[x] \in Int
    PROVE  \E g \in [SUBSET D -> Int] : Recursion(g, f, D)
<1> DEFINE V == [SUBSET D -> Int]
           Body(g) == [s \in SUBSET D |-> IF s = {} THEN 0 ELSE f[Picked(s)] + g[s \ {Picked(s)}]]
           base == [s \in SUBSET D |-> 0]
           step == [p \in Nat \X V |-> Body(p[2])]
           N == Cardinality(D)
<1>1. \A s \in SUBSET D : IsFiniteSet(s) /\ Cardinality(s) \in Nat /\ Cardinality(s) <= N /\ N \in Nat
  BY FS_Subset, FS_CardinalityType
<1>2. \A s \in SUBSET D : s # {} => Picked(s) \in s /\ s \ {Picked(s)} \in SUBSET D
  BY DEF Picked
<1>3. \A g \in V : Body(g) \in V
  <2> SUFFICES ASSUME NEW g \in V, NEW s \in SUBSET D, s # {}
               PROVE  f[Picked(s)] + g[s \ {Picked(s)}] \in Int
    OBVIOUS
  <2> QED
    BY <1>2
<1> HIDE DEF Body
<1>4. step \in [Nat \X V -> V] /\ base \in V
  <2>1. base \in V
    OBVIOUS
  <2> HIDE DEF V
  <2>2. \A p \in Nat \X V : p[2] \in V
    OBVIOUS
  <2> QED
    BY <1>3, <2>1, <2>2
<1>5. \E G \in [Nat -> V] : G[0] = base /\ \A n \in Nat : G[n + 1] = step[<<n, G[n]>>]
  <2> DEFINE W == V
  <2>1. step \in [Nat \X W -> W] /\ base \in W
    BY <1>4
  <2> HIDE DEF step, base, W
  <2>2. \E G : Unfolds(G, W, base, step)
    BY <2>1, Iterates
  <2> QED
    BY <2>2 DEF W, Unfolds
<1>6. PICK G \in [Nat -> V] : G[0] = base /\ \A n \in Nat : G[n + 1] = step[<<n, G[n]>>]
  BY <1>5
<1>7. \A n \in Nat : G[n] \in V /\ G[n + 1] = Body(G[n])
  <2> HIDE DEF V
  <2> QED
    BY <1>6
<1> DEFINE P == {n \in Nat : \A s \in SUBSET D : Cardinality(s) <= n => G[n][s] = G[n + 1][s]}
<1>8. \A n \in Nat : G[n][{}] = 0
  <2>1. G[0][{}] = 0
    BY <1>6
  <2>2. \A n \in Nat : G[n + 1][{}] = 0
    BY <1>7 DEF Body
  <2> SUFFICES ASSUME NEW n \in Nat, n # 0 PROVE G[n][{}] = 0
    BY <2>1
  <2>3. n - 1 \in Nat /\ (n - 1) + 1 = n
    OBVIOUS
  <2> QED
    BY <2>2, <2>3
<1>9. 0 \in P
  <2> SUFFICES ASSUME NEW s \in SUBSET D, Cardinality(s) <= 0 PROVE G[0][s] = G[0 + 1][s]
    OBVIOUS
  <2>1. s = {}
    BY <1>1, FS_EmptySet
  <2>2. 0 \in Nat /\ 0 + 1 \in Nat
    OBVIOUS
  <2> QED
    BY <1>8, <2>1, <2>2
<1>10. ASSUME NEW n \in P PROVE n + 1 \in P
  <2>1. n \in Nat /\ n + 1 \in Nat /\ \A s \in SUBSET D : Cardinality(s) <= n => G[n][s] = G[n + 1][s]
    OBVIOUS
  <2> SUFFICES ASSUME NEW s \in SUBSET D, Cardinality(s) <= n + 1 PROVE G[n + 1][s] = G[(n + 1) + 1][s]
    BY <2>1
  <2>2. CASE s = {}
    <3>1. n + 1 \in Nat /\ (n + 1) + 1 \in Nat
      BY <2>1
    <3> QED
      BY <1>8, <2>2, <3>1
  <2>3. CASE s # {}
    <3>1. Picked(s) \in s /\ Cardinality(s \ {Picked(s)}) <= n /\ s \ {Picked(s)} \in SUBSET D
      BY <1>1, <2>1, <2>3, Shrinks
    <3>2. G[n][s \ {Picked(s)}] = G[n + 1][s \ {Picked(s)}]
      BY <2>1, <3>1
    <3>3. G[n + 1] = Body(G[n]) /\ G[(n + 1) + 1] = Body(G[n + 1])
      BY <1>7, <2>1
    <3>4. G[n + 1][s] = f[Picked(s)] + G[n][s \ {Picked(s)}]
          /\ G[(n + 1) + 1][s] = f[Picked(s)] + G[n + 1][s \ {Picked(s)}]
      BY <2>3, <3>3 DEF Body
    <3> QED
      BY <3>2, <3>4
  <2> QED
    BY <2>2, <2>3
<1> HIDE DEF P
<1>11. P = Nat
  <2>1. P \in SUBSET Nat
    BY DEF P
  <2> QED
    BY <1>9, <1>10, <2>1, AllNumbers
<1>12. N \in Nat
  BY <1>1
<1>13. \A s \in SUBSET D : G[N][s] = G[N + 1][s]
  BY <1>1, <1>11, <1>12 DEF P
<1>14. G[N] \in V /\ G[N + 1] \in V /\ G[N + 1] = Body(G[N])
  <2> HIDE DEF V, N
  <2> QED
    BY <1>7, <1>12
<1>15. G[N] = Body(G[N])
  <2> HIDE DEF N, Body
  <2>1. G[N] = G[N + 1]
    BY <1>13, <1>14
  <2> QED
    BY <1>14, <2>1
<1> QED
  <2>1. Recursion(G[N], f, D)
    BY <1>15 DEF Recursion, Body
  <2> HIDE DEF N
  <2> QED
    BY <1>14, <2>1

\* A sum is a number, nothing sums to 0, and one element may be taken out.
LEMMA SumPicked ==
    ASSUME NEW S, IsFiniteSet(S), NEW f, \A x \in S : f[x] \in Int
    PROVE  /\ SumFunctionOnSet(f, S) \in Int
           /\ SumFunctionOnSet(f, {}) = 0
           /\ S # {} => SumFunctionOnSet(f, S) = f[Picked(S)] + SumFunctionOnSet(f, S \ {Picked(S)})
<1>1. \A T \in SUBSET S : IsFiniteSet(T) /\ \A x \in T : f[x] \in Int
  BY FS_Subset
<1>2. ASSUME NEW T \in SUBSET S
      PROVE  \E g \in [SUBSET T -> Int] : Recursion(g, f, T) /\ SumFunctionOnSet(f, T) = g[T]
  <2> DEFINE g == CHOOSE g : Recursion(g, f, T)
  <2>1. PICK h \in [SUBSET T -> Int] : Recursion(h, f, T)
    BY <1>1, RecursionExists
  <2>2. Recursion(g, f, T)
    BY <2>1
  <2> HIDE DEF g
  <2>3. \A s \in SUBSET T : g[s] = h[s]
    BY <1>1, <2>1, <2>2, RecursionsAgree
  <2>4. SumFunctionOnSet(f, T) = g[T]
    BY SumIsRecursive DEF g
  <2> QED
    BY <2>1, <2>3, <2>4
<1>3. PICK g \in [SUBSET S -> Int] : Recursion(g, f, S) /\ SumFunctionOnSet(f, S) = g[S]
  BY <1>2
<1>4. \A T \in SUBSET S : SumFunctionOnSet(f, T) = g[T]
  <2> SUFFICES ASSUME NEW T \in SUBSET S PROVE SumFunctionOnSet(f, T) = g[T]
    OBVIOUS
  <2>1. PICK h \in [SUBSET T -> Int] : Recursion(h, f, T) /\ SumFunctionOnSet(f, T) = h[T]
    BY <1>2
  <2>2. \A s \in SUBSET T : g[s] = h[s]
    BY <1>3, <2>1, RecursionsAgree
  <2> QED
    BY <2>1, <2>2
<1>5. g[{}] = 0 /\ (S # {} => g[S] = f[Picked(S)] + g[S \ {Picked(S)}])
  BY <1>3 DEF Recursion
<1>6. {} \in SUBSET S /\ S \in SUBSET S /\ S \ {Picked(S)} \in SUBSET S
  OBVIOUS
<1>7. g[S] \in Int
  OBVIOUS
<1> QED
  BY <1>4, <1>5, <1>6, <1>7

LEMMA SumRemove ==
    ASSUME NEW S, IsFiniteSet(S), NEW f, \A x \in S : f[x] \in Int
    PROVE  \A x \in S : SumFunctionOnSet(f, S) = f[x] + SumFunctionOnSet(f, S \ {x})
<1> DEFINE Sum(T) == SumFunctionOnSet(f, T)
           P == {n \in Nat : \A T \in SUBSET S : Cardinality(T) = n => \A x \in T : Sum(T) = f[x] + Sum(T \ {x})}
<1>1. \A T \in SUBSET S : IsFiniteSet(T) /\ Cardinality(T) \in Nat /\ \A x \in T : f[x] \in Int
  BY FS_Subset, FS_CardinalityType
<1>2. \A T \in SUBSET S : Sum(T) \in Int /\ (T # {} => Sum(T) = f[Picked(T)] + Sum(T \ {Picked(T)}))
  BY <1>1, SumPicked
<1> HIDE DEF Sum
<1>3. 0 \in P
  BY <1>1, FS_EmptySet
<1>4. ASSUME NEW n \in P PROVE n + 1 \in P
  <2>1. n \in Nat /\ \A T \in SUBSET S : Cardinality(T) = n => \A x \in T : Sum(T) = f[x] + Sum(T \ {x})
    OBVIOUS
  <2> SUFFICES ASSUME NEW T \in SUBSET S, Cardinality(T) = n + 1, NEW x \in T
               PROVE  Sum(T) = f[x] + Sum(T \ {x})
    BY <2>1
  <2> DEFINE c == Picked(T)
  <2>2. T # {} /\ IsFiniteSet(T) /\ c \in T /\ Cardinality(T \ {c}) = n
    BY <1>1, <2>1, Shrinks
  <2>3. Sum(T) = f[c] + Sum(T \ {c})
    BY <1>2, <2>2
  <2> HIDE DEF c
  <2>4. CASE x = c
    BY <2>3, <2>4
  <2>5. CASE x # c
    <3>1. Cardinality(T \ {x}) = n
      BY <2>1, <2>2, FS_RemoveElement
    <3>2. x \in T \ {c} /\ c \in T \ {x} /\ T \ {c} \in SUBSET S /\ T \ {x} \in SUBSET S
      BY <2>2, <2>5
    <3>3. Sum(T \ {c}) = f[x] + Sum((T \ {c}) \ {x})
      BY <2>1, <2>2, <3>2
    <3>4. Sum(T \ {x}) = f[c] + Sum((T \ {x}) \ {c})
      BY <2>1, <3>1, <3>2
    <3>5. (T \ {c}) \ {x} = (T \ {x}) \ {c} /\ (T \ {c}) \ {x} \in SUBSET S
      OBVIOUS
    <3>6. f[x] \in Int /\ f[c] \in Int /\ Sum((T \ {c}) \ {x}) \in Int
      BY <1>1, <1>2, <2>2, <3>5
    <3> QED
      BY <2>3, <3>3, <3>4, <3>5, <3>6
  <2> QED
    BY <2>4, <2>5
<1> HIDE DEF P
<1>5. P = Nat
  <2>1. P \in SUBSET Nat
    BY DEF P
  <2> QED
    BY <1>3, <1>4, <2>1, AllNumbers
<1>6. S \in SUBSET S /\ Cardinality(S) \in Nat
  BY <1>1
<1> QED
  BY <1>5, <1>6 DEF P, Sum

\* The members of a set by their keys: as many with some of the keys as with each of them.
WithKey(A, key, d) == {a \in A : key[a] = d}
KeyedBy(A, key, T) == {a \in A : key[a] \in T}

LEMMA SumOfParts ==
    ASSUME NEW A, IsFiniteSet(A), NEW D, IsFiniteSet(D), NEW key, NEW f,
           \A d \in D : f[d] = Cardinality(WithKey(A, key, d))
    PROVE  SumFunctionOnSet(f, D) = Cardinality(KeyedBy(A, key, D))
<1> DEFINE Sum(T) == SumFunctionOnSet(f, T)
           K(T) == KeyedBy(A, key, T)
           P == {n \in Nat : \A T \in SUBSET D : Cardinality(T) = n => Sum(T) = Cardinality(K(T))}
<1>1. \A d : IsFiniteSet(WithKey(A, key, d)) /\ Cardinality(WithKey(A, key, d)) \in Nat
  <2> TAKE d
  <2>1. WithKey(A, key, d) \in SUBSET A
    BY DEF WithKey
  <2>2. IsFiniteSet(WithKey(A, key, d))
    BY <2>1, FS_Subset
  <2> QED
    BY <2>2, FS_CardinalityType
<1>2. \A T : IsFiniteSet(K(T)) /\ Cardinality(K(T)) \in Nat
  <2> TAKE T
  <2>1. K(T) \in SUBSET A
    BY DEF KeyedBy
  <2>2. IsFiniteSet(K(T))
    BY <2>1, FS_Subset
  <2> QED
    BY <2>2, FS_CardinalityType
<1>3. \A T \in SUBSET D : IsFiniteSet(T) /\ Cardinality(T) \in Nat /\ \A d \in T : f[d] \in Int
  BY <1>1, FS_Subset, FS_CardinalityType
<1>4. Sum({}) = 0 /\ \A T \in SUBSET D : Sum(T) \in Int /\ (T # {} => Sum(T) = f[Picked(T)] + Sum(T \ {Picked(T)}))
  BY <1>3, SumPicked
<1> HIDE DEF Sum
<1>5. 0 \in P
  <2> SUFFICES ASSUME NEW T \in SUBSET D, Cardinality(T) = 0 PROVE Sum(T) = Cardinality(K(T))
    OBVIOUS
  <2>1. T = {}
    BY <1>3, FS_EmptySet
  <2>2. K(T) = {}
    BY <2>1 DEF KeyedBy
  <2> QED
    BY <1>4, <2>1, <2>2, FS_EmptySet
<1>6. ASSUME NEW n \in P PROVE n + 1 \in P
  <2>1. n \in Nat /\ \A T \in SUBSET D : Cardinality(T) = n => Sum(T) = Cardinality(K(T))
    OBVIOUS
  <2> SUFFICES ASSUME NEW T \in SUBSET D, Cardinality(T) = n + 1 PROVE Sum(T) = Cardinality(K(T))
    BY <2>1
  <2> DEFINE c == Picked(T)
  <2>2. T # {} /\ IsFiniteSet(T)
    BY <1>3, <2>1, FS_EmptySet
  <2>3. c \in T /\ Cardinality(T \ {c}) = (n + 1) - 1
    BY <2>2, Shrinks
  <2>4. Sum(T) = f[c] + Sum(T \ {c})
    BY <1>4, <2>2
  <2> HIDE DEF c
  <2>5. Sum(T \ {c}) = Cardinality(K(T \ {c}))
    BY <2>1, <2>3
  <2>6. f[c] = Cardinality(WithKey(A, key, c))
    BY <2>3
  <2>7. K(T) = WithKey(A, key, c) \union K(T \ {c}) /\ WithKey(A, key, c) \intersect K(T \ {c}) = {}
    BY <2>3 DEF KeyedBy, WithKey
  <2>8. Cardinality(K(T)) = Cardinality(WithKey(A, key, c)) + Cardinality(K(T \ {c})) - Cardinality({})
    <3> DEFINE X == WithKey(A, key, c)  Y == K(T \ {c})
    <3>1. IsFiniteSet(X) /\ IsFiniteSet(Y)
      BY <1>1, <1>2
    <3>2. K(T) = X \union Y /\ X \intersect Y = {}
      BY <2>7
    <3> HIDE DEF X, Y
    <3>3. Cardinality(X \union Y) = Cardinality(X) + Cardinality(Y) - Cardinality(X \intersect Y)
      BY <3>1, FS_Union
    <3>4. Cardinality(K(T)) = Cardinality(X) + Cardinality(Y) - Cardinality({})
      BY <3>2, <3>3
    <3> QED
      BY <3>4 DEF X, Y
  <2>9. Cardinality({}) = 0 /\ Cardinality(WithKey(A, key, c)) \in Nat /\ Cardinality(K(T \ {c})) \in Nat
    BY <1>1, <1>2, FS_EmptySet
  <2> HIDE DEF K
  <2> QED
    BY <2>4, <2>5, <2>6, <2>8, <2>9
<1> HIDE DEF P
<1>7. P = Nat
  <2>1. P \in SUBSET Nat
    BY DEF P
  <2> QED
    BY <1>5, <1>6, <2>1, AllNumbers
<1>8. D \in SUBSET D /\ Cardinality(D) \in Nat
  BY <1>3
<1> QED
  BY <1>7, <1>8 DEF P, Sum

-----------------------------------------------------------------------------
(* Ordered sets *)

\* A set in an order: every element once, none after one that it comes before.
LEMMA SortedElements ==
    ASSUME NEW S, IsFiniteSet(S), NEW R,
           \A x \in S : <<x, x>> \notin R,
           \A x, y, z \in S : <<x, y>> \in R /\ <<y, z>> \in R => <<x, z>> \in R,
           \A x, y \in S : x # y => <<x, y>> \in R \/ <<y, x>> \in R
    PROVE  LET n == Cardinality(S) IN
           /\ n \in Nat /\ Sorted(S, R) \in Bijection(1..n, S)
           /\ \A i, j \in 1..n : i < j => <<Sorted(S, R)[i], Sorted(S, R)[j]>> \in R
<1> DEFINE n == Cardinality(S)  s == Sorted(S, R)
           ahead(x) == {y \in S : <<y, x>> \in R}
           rank == [x \in S |-> Cardinality(ahead(x))]
<1>1. n \in Nat
  BY FS_CardinalityType
<1>2. \A x \in S : IsFiniteSet(ahead(x)) /\ rank[x] \in 0..(n - 1)
  <2> SUFFICES ASSUME NEW x \in S PROVE IsFiniteSet(ahead(x)) /\ Cardinality(ahead(x)) \in 0..(n - 1)
    OBVIOUS
  <2>1. ahead(x) \in SUBSET S /\ x \notin ahead(x)
    OBVIOUS
  <2> HIDE DEF ahead
  <2>2. IsFiniteSet(ahead(x)) /\ Cardinality(ahead(x)) <= n /\ Cardinality(ahead(x)) # n
    BY <2>1, FS_Subset
  <2>3. Cardinality(ahead(x)) \in Nat
    BY <2>2, FS_CardinalityType
  <2> QED
    BY <1>1, <2>2, <2>3
<1>3. \A x, y \in S : <<x, y>> \in R => rank[x] < rank[y]
  <2> SUFFICES ASSUME NEW x \in S, NEW y \in S, <<x, y>> \in R PROVE Cardinality(ahead(x)) < Cardinality(ahead(y))
    OBVIOUS
  <2>1. ahead(x) \in SUBSET ahead(y) /\ x \in ahead(y) /\ x \notin ahead(x)
    OBVIOUS
  <2>2. IsFiniteSet(ahead(y)) /\ Cardinality(ahead(x)) \in Nat /\ Cardinality(ahead(y)) \in Nat
    BY <1>2, FS_CardinalityType
  <2> HIDE DEF ahead
  <2>3. Cardinality(ahead(x)) <= Cardinality(ahead(y)) /\ Cardinality(ahead(x)) # Cardinality(ahead(y))
    BY <2>1, <2>2, FS_Subset
  <2> QED
    BY <2>2, <2>3
<1>4. \A x \in S : rank[x] \in 0..(n - 1)
  BY <1>2
<1>5. \A x, y \in S : rank[x] = rank[y] => x = y
  <2> SUFFICES ASSUME NEW x \in S, NEW y \in S, rank[x] = rank[y] PROVE x = y
    OBVIOUS
  <2>1. rank[x] \in 0..(n - 1) /\ rank[y] \in 0..(n - 1)
    BY <1>4
  <2> HIDE DEF rank, n
  <2>2. ~(rank[x] < rank[y]) /\ ~(rank[y] < rank[x])
    BY <1>1, <2>1
  <2> QED
    BY <1>3, <2>2
<1>6. \A i \in 0..(n - 1) : \E x \in S : rank[x] = i
  <2>1. rank \in Injection(S, 0..(n - 1))
    <3> HIDE DEF ahead
    <3>1. rank \in [S -> 0..(n - 1)] /\ DOMAIN rank = S
      BY <1>4
    <3> HIDE DEF rank
    <3> QED
      BY <1>5, <3>1 DEF Injection, IsInjective
  <2>2. IsFiniteSet(0..(n - 1)) /\ Cardinality(0..(n - 1)) = n
    <3>1. 0 \in Int /\ n - 1 \in Int
      BY <1>1
    <3>2. IsFiniteSet(0..(n - 1)) /\ Cardinality(0..(n - 1)) = IF 0 > n - 1 THEN 0 ELSE n - 1 - 0 + 1
      BY <3>1, FS_Interval
    <3> QED
      BY <1>1, <3>2
  <2>3. rank \in Surjection(S, 0..(n - 1))
    BY <2>1, <2>2, FS_Injection
  <2> HIDE DEF rank
  <2> QED
    BY <2>3 DEF Surjection
<1>7. \A i \in 1..n : s[i] \in S /\ rank[s[i]] = i - 1
  <2> SUFFICES ASSUME NEW i \in 1..n PROVE s[i] \in S /\ rank[s[i]] = i - 1
    OBVIOUS
  <2>1. i - 1 \in 0..(n - 1)
    BY <1>1
  <2>2. \E x \in S : rank[x] = i - 1
    BY <1>6, <2>1
  <2>3. s[i] = CHOOSE x \in S : Cardinality(ahead(x)) = i - 1
    BY DEF Sorted
  <2>4. \E x \in S : Cardinality(ahead(x)) = i - 1
    BY <2>2
  <2> HIDE DEF ahead, s
  <2>5. s[i] \in S /\ Cardinality(ahead(s[i])) = i - 1
    BY <2>3, <2>4
  <2> QED
    BY <2>5
<1>8. s \in [1..n -> S]
  <2> DEFINE e(i) == CHOOSE x \in S : Cardinality(ahead(x)) = i - 1
  <2>1. s = [i \in 1..n |-> e(i)]
    BY DEF Sorted
  <2> HIDE DEF s, n, rank, e
  <2> QED
    BY <1>7, <2>1
<1>9. \A x \in S : \E i \in 1..n : s[i] = x
  <2> SUFFICES ASSUME NEW x \in S PROVE \E i \in 1..n : s[i] = x
    OBVIOUS
  <2> HIDE DEF s, rank
  <2>1. rank[x] \in 0..(n - 1)
    BY <1>2
  <2>2. PICK i \in 1..n : i - 1 = rank[x]
    <3> HIDE DEF n
    <3>1. rank[x] + 1 \in 1..n /\ (rank[x] + 1) - 1 = rank[x]
      BY <1>1, <2>1
    <3> QED
      BY <3>1
  <2> QED
    BY <1>5, <1>7, <2>2
<1>10. \A i, j \in 1..n : s[i] = s[j] => i = j
  <2> SUFFICES ASSUME NEW i \in 1..n, NEW j \in 1..n, s[i] = s[j] PROVE i = j
    OBVIOUS
  <2> HIDE DEF s, rank
  <2>1. i - 1 = j - 1
    BY <1>7
  <2> QED
    BY <2>1
<1>11. s \in Bijection(1..n, S)
  <2> HIDE DEF s, n
  <2> QED
    BY <1>8, <1>9, <1>10 DEF Bijection, Injection, Surjection, IsInjective
<1>12. \A i, j \in 1..n : i < j => <<s[i], s[j]>> \in R
  <2> SUFFICES ASSUME NEW i \in 1..n, NEW j \in 1..n, i < j PROVE <<s[i], s[j]>> \in R
    OBVIOUS
  <2> HIDE DEF s, rank
  <2>1. s[i] \in S /\ s[j] \in S /\ s[i] # s[j] /\ ~(rank[s[j]] < rank[s[i]])
    BY <1>7, <1>10
  <2> QED
    BY <1>3, <2>1
<1> QED
  BY <1>1, <1>11, <1>12

\* Numbers in their order.
LEMMA AscendingElements ==
    ASSUME NEW P \in SUBSET Int, IsFiniteSet(P)
    PROVE  LET n == Cardinality(P) IN
           /\ n \in Nat /\ Ascending(P) \in Bijection(1..n, P)
           /\ \A i, j \in 1..n : i < j => Ascending(P)[i] < Ascending(P)[j]
<1> DEFINE R == {p \in P \X P : p[1] < p[2]}
<1>1. \A x, y \in P : <<x, y>> \in R <=> x < y
  OBVIOUS
<1>2. \A x \in P : x \in Int
  OBVIOUS
<1> HIDE DEF R
<1>3. /\ \A x \in P : <<x, x>> \notin R
      /\ \A x, y, z \in P : <<x, y>> \in R /\ <<y, z>> \in R => <<x, z>> \in R
      /\ \A x, y \in P : x # y => <<x, y>> \in R \/ <<y, x>> \in R
  BY <1>1, <1>2
<1> DEFINE n == Cardinality(P)
<1>4. /\ n \in Nat /\ Sorted(P, R) \in Bijection(1..n, P)
      /\ \A i, j \in 1..n : i < j => <<Sorted(P, R)[i], Sorted(P, R)[j]>> \in R
  BY <1>3, SortedElements
<1>5. Ascending(P) = Sorted(P, R)
  BY DEF Ascending, R
<1>6. ASSUME NEW i \in 1..n, NEW j \in 1..n, i < j PROVE Ascending(P)[i] < Ascending(P)[j]
  <2>1. Ascending(P)[i] \in P /\ Ascending(P)[j] \in P
    BY <1>4, <1>5 DEF Bijection, Injection
  <2> QED
    BY <1>1, <1>4, <1>5, <1>6, <2>1
<1> QED
  BY <1>4, <1>5, <1>6

\* The entries of a sequence at some positions: they come in the order of the positions.
LEMMA AtElements ==
    ASSUME NEW seq, NEW P \in SUBSET Int, IsFiniteSet(P)
    PROVE  \E pos \in Bijection(1..Cardinality(P), P) :
              /\ Cardinality(P) \in Nat
              /\ At(seq, P) = [i \in 1..Cardinality(P) |-> seq[pos[i]]]
              /\ \A i, j \in 1..Cardinality(P) : i < j => pos[i] < pos[j]
<1>1. DOMAIN Ascending(P) = 1..Cardinality(P)
  BY AscendingElements DEF Bijection, Injection
<1>2. At(seq, P) = [i \in 1..Cardinality(P) |-> seq[Ascending(P)[i]]]
  BY <1>1 DEF At
<1> QED
  BY <1>2, AscendingElements

-----------------------------------------------------------------------------
(* The CVE scan *)

\* What normalizing does to a finding of a scanner.
LEMMA ParsedFacts ==
    ASSUME NEW o \in Seq(CveFinding)
    PROVE  /\ DOMAIN Parsed(o) = 1..Len(o) /\ Len(o) \in Nat
           /\ \A i \in 1..Len(o) :
                 /\ o[i] \in CveFinding /\ Parsed(o)[i].key = o[i].key
                 /\ Parsed(o)[i].severity = normalizeCveSeverity(o[i].severity)
<1>1. DOMAIN o = 1..Len(o) /\ Len(o) \in Nat
  OBVIOUS
<1>2. \A i \in 1..Len(o) : o[i] \in CveFinding
  <2> HIDE DEF CveFinding
  <2> QED
    OBVIOUS
<1>3. ASSUME NEW i \in 1..Len(o)
      PROVE  Parsed(o)[i].key = o[i].key /\ Parsed(o)[i].severity = normalizeCveSeverity(o[i].severity)
  <2>1. Parsed(o)[i] = [o[i] EXCEPT !.severity = normalizeCveSeverity(@)]
    BY <1>1 DEF Parsed
  <2>2. o[i] \in CveFinding
    BY <1>2
  <2> QED
    BY <2>1, <2>2 DEF CveFinding
<1> QED
  BY <1>1, <1>2, <1>3 DEF Parsed

\* The first finding of every key, in the order of the report.
LEMMA DedupeFacts ==
    ASSUME NEW o \in Seq(CveFinding)
    PROVE  LET u == dedupeCveFindings(Parsed(o))
               n == Cardinality({i \in 1..Len(o) : \A j \in 1..(i - 1) : o[j].key # o[i].key}) IN
           /\ n \in Nat
           /\ \E pos \in Bijection(1..n, {i \in 1..Len(o) : \A j \in 1..(i - 1) : o[j].key # o[i].key}) :
                 u = [i \in 1..n |-> Parsed(o)[pos[i]]]
<1> DEFINE P == {i \in 1..Len(o) : \A j \in 1..(i - 1) : o[j].key # o[i].key}
           Q == {i \in DOMAIN Parsed(o) : \A j \in 1..(i - 1) : Parsed(o)[j].key # Parsed(o)[i].key}
<1>1. DOMAIN Parsed(o) = 1..Len(o) /\ Len(o) \in Nat /\ \A i \in 1..Len(o) : Parsed(o)[i].key = o[i].key
  BY ParsedFacts
<1>2. P = Q
  <2>1. \A i \in 1..Len(o) : \A j \in 1..(i - 1) : j \in 1..Len(o)
    BY <1>1
  <2> QED
    BY <1>1, <2>1
<1>3. P \in SUBSET Int /\ IsFiniteSet(P)
  <2>1. P \in SUBSET (1..Len(o)) /\ 1..Len(o) \subseteq Int
    OBVIOUS
  <2>2. IsFiniteSet(1..Len(o))
    BY <1>1, FS_Interval
  <2> HIDE DEF P
  <2> QED
    BY <2>1, <2>2, FS_Subset
<1>4. dedupeCveFindings(Parsed(o)) = At(Parsed(o), Q)
  BY DEF dedupeCveFindings
<1>5. LET n == Cardinality(P) IN
      n \in Nat /\ \E pos \in Bijection(1..n, P) : At(Parsed(o), P) = [i \in 1..n |-> Parsed(o)[pos[i]]]
  <2> HIDE DEF P
  <2> QED
    BY <1>3, AtElements, AscendingElements
<1>6. dedupeCveFindings(Parsed(o)) = At(Parsed(o), P)
  BY <1>2, <1>4
<1>7. LET n == Cardinality(P) IN
      n \in Nat /\ \E pos \in Bijection(1..n, P) : dedupeCveFindings(Parsed(o)) = [i \in 1..n |-> Parsed(o)[pos[i]]]
  <2> HIDE DEF P
  <2> QED
    BY <1>5, <1>6
<1> QED
  BY <1>7

\* Every severity a report uses has a rank.
LEMMA RankFacts ==
    /\ \A s \in ToSet(Severity) : Rank(s) \in 1..5 /\ Severity[Rank(s)] = s
    /\ \A raw : normalizeCveSeverity(raw) \in ToSet(Severity)
<1>1. DOMAIN Severity = 1..5 /\ ToSet(Severity) = {Severity[i] : i \in 1..5}
  BY DEF Severity, ToSet
<1>2. ToSet(Severity) = {"critical", "high", "medium", "low", "unknown"}
  <2>1. Severity[1] = "critical" /\ Severity[2] = "high" /\ Severity[3] = "medium" /\ Severity[4] = "low"
        /\ Severity[5] = "unknown"
    BY DEF Severity
  <2>2. 1..5 = {1, 2, 3, 4, 5}
    OBVIOUS
  <2> HIDE DEF Severity
  <2> QED
    BY <1>1, <2>1, <2>2
<1>3. ASSUME NEW raw PROVE normalizeCveSeverity(raw) \in ToSet(Severity)
  BY <1>2 DEF normalizeCveSeverity
<1>4. ASSUME NEW s \in ToSet(Severity) PROVE Rank(s) \in 1..5 /\ Severity[Rank(s)] = s
  <2>1. \E i \in 1..5 : Severity[i] = s
    BY <1>1
  <2>2. Rank(s) = CHOOSE i \in 1..5 : Severity[i] = s
    BY <1>1 DEF Rank
  <2> QED
    BY <2>1, <2>2
<1> QED
  BY <1>3, <1>4

\* The counts of a target are those of its distinct findings.
LEMMA CountsExact ==
    ASSUME NEW o \in Seq(CveFinding), NEW s \in ToSet(Severity)
    PROVE  CountsOf(dedupeCveFindings(Parsed(o)))[s] = Cardinality(Keys(o, s))
<1> DEFINE P == {i \in 1..Len(o) : \A j \in 1..(i - 1) : o[j].key # o[i].key}
           n == Cardinality(P)
           u == dedupeCveFindings(Parsed(o))
           I == {i \in DOMAIN u : u[i].severity = s}
           g == [i \in I |-> u[i].key]
<1>1. n \in Nat /\ \E pos \in Bijection(1..n, P) : u = [i \in 1..n |-> Parsed(o)[pos[i]]]
  BY DedupeFacts
<1>2. PICK pos \in Bijection(1..n, P) : u = [i \in 1..n |-> Parsed(o)[pos[i]]]
  BY <1>1
<1>3. /\ \A i \in 1..n : pos[i] \in P /\ \A j \in 1..n : pos[i] = pos[j] => i = j
      /\ \A p \in P : \E i \in 1..n : pos[i] = p
  <2> HIDE DEF P, n
  <2> QED
    BY <1>2 DEF Bijection, Injection, Surjection, IsInjective
<1>4. DOMAIN o = 1..Len(o) /\ Len(o) \in Nat
  OBVIOUS
<1>5. \A p, q \in P : o[p].key = o[q].key => p = q
  <2> SUFFICES ASSUME NEW p \in P, NEW q \in P, o[p].key = o[q].key, p < q PROVE FALSE
    BY <1>4
  <2>1. p \in 1..(q - 1)
    BY <1>4
  <2> QED
    BY <2>1
<1>6. \A i \in 1..n : u[i].key = o[pos[i]].key /\ u[i].severity = normalizeCveSeverity(o[pos[i]].severity)
  <2> SUFFICES ASSUME NEW i \in 1..n
               PROVE u[i].key = o[pos[i]].key /\ u[i].severity = normalizeCveSeverity(o[pos[i]].severity)
    OBVIOUS
  <2>1. pos[i] \in 1..Len(o)
    BY <1>3
  <2>2. u[i] = Parsed(o)[pos[i]]
    BY <1>2
  <2> HIDE DEF u
  <2> QED
    BY <2>1, <2>2, ParsedFacts
<1>7. DOMAIN u = 1..n
  BY <1>2
<1>8. Keys(o, s) = {o[p].key : p \in {q \in P : normalizeCveSeverity(o[q].severity) = s}}
  BY <1>4 DEF Keys
<1>9. IsFiniteSet(I)
  <2>1. IsFiniteSet(1..n) /\ I \in SUBSET (1..n)
    BY <1>1, <1>7, FS_Interval
  <2> HIDE DEF I
  <2> QED
    BY <2>1, FS_Subset
<1>10. g \in Bijection(I, Keys(o, s))
  <2> HIDE DEF P, n, u
  <2>1. \A i \in I : i \in 1..n /\ g[i] = o[pos[i]].key /\ normalizeCveSeverity(o[pos[i]].severity) = s
    BY <1>6, <1>7
  <2>2. ASSUME NEW i \in I PROVE g[i] \in Keys(o, s)
    <3>1. pos[i] \in P /\ normalizeCveSeverity(o[pos[i]].severity) = s
      BY <1>3, <2>1
    <3>2. o[pos[i]].key \in Keys(o, s)
      BY <1>8, <3>1
    <3> QED
      BY <2>1, <3>2
  <2>3. \A i, j \in I : g[i] = g[j] => i = j
    <3> SUFFICES ASSUME NEW i \in I, NEW j \in I, g[i] = g[j] PROVE i = j
      OBVIOUS
    <3>1. i \in 1..n /\ j \in 1..n /\ o[pos[i]].key = o[pos[j]].key
      BY <2>1
    <3>2. pos[i] = pos[j]
      BY <1>3, <1>5, <3>1
    <3> QED
      BY <1>3, <3>1, <3>2
  <2>4. \A k \in Keys(o, s) : \E i \in I : g[i] = k
    <3> SUFFICES ASSUME NEW p \in P, normalizeCveSeverity(o[p].severity) = s PROVE \E i \in I : g[i] = o[p].key
      BY <1>8
    <3>1. PICK i \in 1..n : pos[i] = p
      BY <1>3
    <3>2. i \in I
      BY <1>6, <1>7, <3>1
    <3> QED
      BY <2>1, <3>1, <3>2
  <2>5. g \in [I -> Keys(o, s)]
    BY <2>2
  <2> HIDE DEF g, I
  <2> QED
    BY <2>3, <2>4, <2>5 DEF Bijection, Injection, Surjection, IsInjective
<1>11. Cardinality(Keys(o, s)) = Cardinality(I)
  <2> HIDE DEF g, I
  <2> QED
    BY <1>9, <1>10, FS_Bijection DEF ExistsBijection
<1>12. CountsOf(u)[s] = Cardinality(I)
  <2> HIDE DEF u
  <2> QED
    BY DEF CountsOf
<1> QED
  BY <1>11, <1>12

\* The findings of a severity, among those listed and among all.
Listed(u, order, m, s) == {i \in 1..m : u[order[i]].severity = s}
Having(u, n, s) == {i \in 1..n : u[i].severity = s}

\* The head of the report, by rank, lists nothing less severe than what it leaves out.
LEMMA WorstListedFirst ==
    ASSUME NEW n \in Nat, NEW u, DOMAIN u = 1..n, \A i \in 1..n : u[i].severity \in ToSet(Severity),
           NEW order, order = Sorted(DOMAIN u, ByRank(u)),
           NEW m \in 0..n
    PROVE  \A s, worse \in ToSet(Severity) : \A j \in 1..m :
              Rank(worse) < Rank(s) /\ u[order[j]].severity = s =>
                 Cardinality(Listed(u, order, m, worse)) = Cardinality(Having(u, n, worse))
<1> SUFFICES ASSUME NEW s \in ToSet(Severity), NEW worse \in ToSet(Severity), NEW j \in 1..m,
                    Rank(worse) < Rank(s), u[order[j]].severity = s
             PROVE  Cardinality(Listed(u, order, m, worse)) = Cardinality(Having(u, n, worse))
  OBVIOUS
<1> DEFINE R == ByRank(u)  rank(i) == Rank(u[i].severity)
           I == {i \in 1..m : u[order[i]].severity = worse}
           J == {i \in 1..n : u[i].severity = worse}
           g == [i \in I |-> order[i]]
<1>1. DOMAIN u = 1..n /\ IsFiniteSet(1..n) /\ Cardinality(1..n) = n
  <2>1. 1 \in Int /\ n \in Int
    OBVIOUS
  <2>2. IsFiniteSet(1..n) /\ Cardinality(1..n) = IF 1 > n THEN 0 ELSE n - 1 + 1
    BY <2>1, FS_Interval
  <2> QED
    BY <2>2
<1>2. \A i \in 1..n : rank(i) \in Int
  <2> SUFFICES ASSUME NEW i \in 1..n PROVE rank(i) \in Int
    OBVIOUS
  <2>1. Rank(u[i].severity) \in 1..5
    BY RankFacts
  <2> QED
    BY <2>1
<1>3. \A x, y \in 1..n : <<x, y>> \in R <=> rank(x) < rank(y) \/ (rank(x) = rank(y) /\ x < y)
  BY <1>1 DEF ByRank
<1> HIDE DEF R, rank
<1>4. /\ \A x \in 1..n : <<x, x>> \notin R
      /\ \A x, y, z \in 1..n : <<x, y>> \in R /\ <<y, z>> \in R => <<x, z>> \in R
      /\ \A x, y \in 1..n : x # y => <<x, y>> \in R \/ <<y, x>> \in R
  <2>1. \A x \in 1..n : <<x, x>> \notin R
    BY <1>2, <1>3
  <2>2. \A x, y \in 1..n : x # y => <<x, y>> \in R \/ <<y, x>> \in R
    BY <1>2, <1>3
  <2>3. ASSUME NEW x \in 1..n, NEW y \in 1..n, NEW z \in 1..n, <<x, y>> \in R, <<y, z>> \in R
        PROVE  <<x, z>> \in R
    <3>1. rank(x) \in Int /\ rank(y) \in Int /\ rank(z) \in Int
      BY <1>2
    <3>2. rank(x) < rank(y) \/ (rank(x) = rank(y) /\ x < y)
      BY <1>3, <2>3
    <3>3. rank(y) < rank(z) \/ (rank(y) = rank(z) /\ y < z)
      BY <1>3, <2>3
    <3>4. rank(x) < rank(z) \/ (rank(x) = rank(z) /\ x < z)
      BY <3>1, <3>2, <3>3
    <3> QED
      BY <1>3, <3>4
  <2> QED
    BY <2>1, <2>2, <2>3
<1>5. /\ order \in Bijection(1..n, 1..n)
      /\ \A x, y \in 1..n : x < y => <<order[x], order[y]>> \in R
  <2>1. order = Sorted(1..n, R)
    BY <1>1 DEF R
  <2> QED
    BY <1>1, <1>4, <2>1, SortedElements
<1>6. /\ \A x \in 1..n : order[x] \in 1..n
      /\ \A x, y \in 1..n : order[x] = order[y] => x = y
      /\ \A x \in 1..n : \E y \in 1..n : order[y] = x
  BY <1>5 DEF Bijection, Injection, Surjection, IsInjective
<1>7. ASSUME NEW x \in J PROVE \E y \in I : order[y] = x
  <2>1. x \in 1..n /\ rank(x) = Rank(worse)
    BY DEF rank
  <2>2. PICK y \in 1..n : order[y] = x
    BY <1>6, <2>1
  <2>3. j \in 1..n /\ rank(order[j]) = Rank(s)
    BY DEF rank
  <2>4. Rank(worse) \in Int /\ Rank(s) \in Int
    BY RankFacts
  <2>5. ~(j < y)
    <3> SUFFICES ASSUME j < y PROVE FALSE
      OBVIOUS
    <3>1. <<order[j], x>> \in R /\ order[j] \in 1..n
      BY <1>5, <1>6, <2>2, <2>3
    <3>2. rank(order[j]) < rank(x) \/ rank(order[j]) = rank(x)
      BY <1>3, <2>1, <3>1
    <3> QED
      BY <2>1, <2>3, <2>4, <3>2
  <2>6. y \in 1..m
    BY <2>2, <2>5
  <2> QED
    BY <2>2, <2>6
<1>8. IsFiniteSet(I)
  <2>1. IsFiniteSet(1..n) /\ I \in SUBSET (1..n)
    BY <1>1
  <2> HIDE DEF I
  <2> QED
    BY <2>1, FS_Subset
<1>9. g \in Bijection(I, J)
  <2>1. \A i \in I : i \in 1..n /\ g[i] = order[i] /\ g[i] \in J
    <3> SUFFICES ASSUME NEW i \in I PROVE i \in 1..n /\ order[i] \in J
      OBVIOUS
    <3>1. i \in 1..n /\ u[order[i]].severity = worse
      OBVIOUS
    <3> QED
      BY <1>6, <3>1
  <2>2. \A x, y \in I : g[x] = g[y] => x = y
    BY <1>6, <2>1
  <2>3. \A x \in J : \E y \in I : g[y] = x
    BY <1>7, <2>1
  <2>4. g \in [I -> J]
    BY <2>1
  <2> HIDE DEF g, I, J
  <2> QED
    BY <2>2, <2>3, <2>4 DEF Bijection, Injection, Surjection, IsInjective
<1>10. Cardinality(J) = Cardinality(I)
  <2> HIDE DEF g, I, J
  <2> QED
    BY <1>8, <1>9, FS_Bijection DEF ExistsBijection
<1> QED
  BY <1>10 DEF Listed, Having

\* What the report of a target promises, whatever the scanner printed.
TargetTold(t, o) ==
    /\ \A s \in ToSet(Severity) : t.counts[s] = Cardinality(Keys(o, s))
    /\ LET listed(s) == Cardinality({j \in DOMAIN t.findings : t.findings[j].severity = s}) IN
       \A s, worse \in ToSet(Severity) :
          Rank(worse) < Rank(s) /\ listed(s) > 0 => listed(worse) = t.counts[worse]

LEMMA TargetHolds ==
    ASSUME NEW o \in Seq(CveFinding), NEW ref
    PROVE  TargetTold(buildCveTarget(ref, Parsed(o)), o)
<1> DEFINE t == buildCveTarget(ref, Parsed(o))
           u == dedupeCveFindings(Parsed(o))
           order == Sorted(DOMAIN u, ByRank(u))
           sorted == [i \in DOMAIN u |-> u[order[i]]]
           P == {i \in 1..Len(o) : \A j \in 1..(i - 1) : o[j].key # o[i].key}
           n == Cardinality(P)
           m == IF n > FindingsLimit THEN FindingsLimit ELSE n
<1>1. n \in Nat /\ \E pos \in Bijection(1..n, P) : u = [i \in 1..n |-> Parsed(o)[pos[i]]]
  BY DedupeFacts
<1>2. PICK pos \in Bijection(1..n, P) : u = [i \in 1..n |-> Parsed(o)[pos[i]]]
  BY <1>1
<1>3. DOMAIN u = 1..n /\ u = [i \in 1..n |-> u[i]]
  BY <1>2
<1>4. ASSUME NEW i \in 1..n PROVE u[i].severity \in ToSet(Severity)
  <2>1. pos[i] \in 1..Len(o)
    <3>1. pos[i] \in P
      BY <1>2 DEF Bijection, Injection
    <3> QED
      BY <3>1
  <2>2. u[i] = Parsed(o)[pos[i]]
    BY <1>2
  <2> HIDE DEF u
  <2> QED
    BY <2>1, <2>2, ParsedFacts, RankFacts
<1>5. m \in 0..n
  BY <1>1, ScanAssumption
<1>6. t.counts = CountsOf(u) /\ t.findings = IF Len(sorted) > FindingsLimit THEN SubSeq(sorted, 1, FindingsLimit) ELSE sorted
  <2> HIDE DEF u
  <2> QED
    BY DEF buildCveTarget, u
<1> HIDE DEF t, u, P
<1>7. Len(sorted) = n /\ DOMAIN sorted = 1..n
  BY <1>1, <1>3
<1>8. DOMAIN t.findings = 1..m /\ \A i \in 1..m : t.findings[i] = u[order[i]]
  <2>1. \A i \in 1..n : sorted[i] = u[order[i]]
    BY <1>3
  <2> HIDE DEF sorted, order, n
  <2>2. CASE n > FindingsLimit
    <3>1. t.findings = SubSeq(sorted, 1, FindingsLimit) /\ m = FindingsLimit
      BY <1>6, <1>7, <2>2
    <3>2. DOMAIN t.findings = 1..m /\ \A i \in 1..m : t.findings[i] = sorted[i]
      BY <3>1, ScanAssumption DEF SubSeq
    <3>3. 1..m \subseteq 1..n
      BY <1>1, <1>5
    <3> QED
      BY <2>1, <3>2, <3>3
  <2>3. CASE ~(n > FindingsLimit)
    BY <1>6, <1>7, <2>1, <2>3
  <2> QED
    BY <2>2, <2>3
<1> DEFINE listed(s) == Cardinality({j \in DOMAIN t.findings : t.findings[j].severity = s})
<1>9. ASSUME NEW s \in ToSet(Severity) PROVE t.counts[s] = Cardinality({i \in 1..n : u[i].severity = s})
  BY <1>3, <1>6 DEF CountsOf
<1>10. \A s : listed(s) = Cardinality({j \in 1..m : u[order[j]].severity = s})
  <2> TAKE s
  <2>1. {j \in DOMAIN t.findings : t.findings[j].severity = s} = {j \in 1..m : u[order[j]].severity = s}
    <3> HIDE DEF m, order
    <3> QED
      BY <1>8
  <2> QED
    BY <2>1
<1>13. \A s, worse \in ToSet(Severity) : \A j \in 1..m :
          Rank(worse) < Rank(s) /\ u[order[j]].severity = s =>
             Cardinality(Listed(u, order, m, worse)) = Cardinality(Having(u, n, worse))
  <2>1. n \in Nat
    BY <1>1
  <2>4. DOMAIN u = 1..n
    BY <1>3
  <2> DEFINE ordered == order
  <2>2. ordered = Sorted(DOMAIN u, ByRank(u))
    OBVIOUS
  <2> HIDE DEF n, m, ordered
  <2>3. \A s, worse \in ToSet(Severity) : \A j \in 1..m :
          Rank(worse) < Rank(s) /\ u[ordered[j]].severity = s =>
             Cardinality(Listed(u, ordered, m, worse)) = Cardinality(Having(u, n, worse))
    BY <1>4, <1>5, <2>1, <2>2, <2>4, WorstListedFirst
  <2> QED
    BY <2>3 DEF ordered
<1>11. ASSUME NEW s \in ToSet(Severity), NEW worse \in ToSet(Severity), Rank(worse) < Rank(s), listed(s) > 0
       PROVE  listed(worse) = t.counts[worse]
  <2>1. PICK j \in 1..m : u[order[j]].severity = s
    <3> SUFFICES ASSUME {j \in 1..m : u[order[j]].severity = s} = {} PROVE FALSE
      OBVIOUS
    <3>1. listed(s) = Cardinality({})
      BY <1>10
    <3>2. listed(s) = 0
      BY <3>1, FS_EmptySet
    <3> HIDE DEF listed
    <3> QED
      BY <1>11, <3>2
  <2> HIDE DEF listed, n, m
  <2>2. Cardinality({i \in 1..m : u[order[i]].severity = worse}) = Cardinality({i \in 1..n : u[i].severity = worse})
    BY <1>11, <1>13, <2>1 DEF Listed, Having
  <2> QED
    BY <1>9, <1>10, <2>2
<1>12. \A s \in ToSet(Severity) : t.counts[s] = Cardinality(Keys(o, s))
  BY <1>6, CountsExact DEF u
<1>14. TargetTold(t, o)
  BY <1>11, <1>12 DEF TargetTold
<1> QED
  BY <1>14 DEF t

\* A target was built from what a scanner printed.
BuiltFrom(t, o) == t = buildCveTarget(t.ref, Parsed(o))

\* Targets are built from what was scanned: without an error from all of it, one from
\* each, and in any case each from something.
Matches(targets, seen, err) ==
    /\ seen \in Seq(ScannerOutput) /\ err \in BOOLEAN
    /\ Len(targets) \in Nat /\ targets = [i \in 1..Len(targets) |-> targets[i]]
    /\ \A i \in 1..Len(targets) : \E o \in ScannerOutput : BuiltFrom(targets[i], o)
    /\ ~err => /\ Len(targets) = Len(seen)
               /\ \A i \in 1..Len(seen) : BuiltFrom(targets[i], seen[i])

\* The scan that runs and the one that was published.
ScanInv ==
    /\ DOMAIN scan = {"pc", "due", "start", "todo", "targets", "err", "seen"}
    /\ Matches(scan.targets, scan.seen, scan.err)
    /\ lastResult.available =>
          /\ Matches(lastResult.targets, truth, lastResult.err)
          /\ lastResult.totals = aggregateCveTotals(lastResult.targets)

LEMMA RestingFacts ==
    /\ DOMAIN Resting = {"pc", "due", "start", "todo", "targets", "err", "seen"}
    /\ Resting.targets = <<>> /\ Resting.seen = <<>> /\ Resting.err = FALSE
    /\ Matches(<<>>, <<>>, FALSE)
BY DEF Resting, Matches

\* One more target, or an error.
LEMMA MatchesOneMore ==
    ASSUME NEW targets, NEW seen, NEW err, Matches(targets, seen, err), NEW o \in ScannerOutput, NEW ref
    PROVE  /\ Matches(Append(targets, buildCveTarget(ref, Parsed(o))), Append(seen, o), err)
           /\ Matches(targets, Append(seen, o), TRUE)
<1> DEFINE t == buildCveTarget(ref, Parsed(o))  n == Len(targets)  more == Append(targets, t)  saw == Append(seen, o)
<1>1. BuiltFrom(t, o)
  <2>1. t.ref = ref
    BY DEF buildCveTarget
  <2> HIDE DEF t
  <2> QED
    BY <2>1 DEF BuiltFrom, t
<1>2. seen \in Seq(ScannerOutput) /\ err \in BOOLEAN /\ n \in Nat /\ targets = [i \in 1..n |-> targets[i]]
  BY DEF Matches
<1>3. saw \in Seq(ScannerOutput) /\ Len(saw) = Len(seen) + 1 /\ Len(seen) \in Nat
      /\ saw[Len(seen) + 1] = o /\ \A i \in 1..Len(seen) : saw[i] = seen[i]
  BY <1>2
<1> HIDE DEF t
<1>4. /\ Len(more) = n + 1 /\ more = [i \in 1..(n + 1) |-> more[i]]
      /\ more[n + 1] = t /\ \A i \in 1..n : more[i] = targets[i]
  <2> DEFINE T == {targets[i] : i \in 1..n} \union {t}
  <2>1. targets \in Seq(T) /\ t \in T
    BY <1>2
  <2> HIDE DEF T, n
  <2>2. more \in Seq(T) /\ Len(more) = Len(targets) + 1 /\ more[Len(targets) + 1] = t
        /\ \A i \in 1..Len(targets) : more[i] = targets[i]
    BY <2>1
  <2> HIDE DEF more
  <2>3. more = [i \in 1..Len(more) |-> more[i]]
    BY <2>2
  <2> QED
    BY <2>2, <2>3 DEF n
<1> HIDE DEF more, saw
<1>5. \A i \in 1..Len(more) : \E p \in ScannerOutput : BuiltFrom(more[i], p)
  <2> SUFFICES ASSUME NEW i \in 1..Len(more) PROVE \E p \in ScannerOutput : BuiltFrom(more[i], p)
    OBVIOUS
  <2>1. CASE i = n + 1
    BY <1>1, <1>4, <2>1
  <2>2. CASE i # n + 1
    <3>1. i \in 1..n
      BY <1>2, <1>4, <2>2
    <3> QED
      BY <1>4, <3>1 DEF Matches
  <2> QED
    BY <2>1, <2>2
<1>6. ASSUME ~err PROVE Len(more) = Len(saw) /\ \A i \in 1..Len(saw) : BuiltFrom(more[i], saw[i])
  <2>1. n = Len(seen) /\ \A i \in 1..Len(seen) : BuiltFrom(targets[i], seen[i])
    BY <1>6 DEF Matches
  <2> SUFFICES ASSUME NEW i \in 1..Len(saw) PROVE BuiltFrom(more[i], saw[i])
    BY <1>2, <1>3, <1>4, <2>1
  <2>2. CASE i = n + 1
    BY <1>1, <1>3, <1>4, <2>1, <2>2
  <2>3. CASE i # n + 1
    <3>1. i \in 1..n
      BY <1>2, <1>3, <2>1, <2>3
    <3> QED
      BY <1>3, <1>4, <2>1, <3>1
  <2> QED
    BY <2>2, <2>3
<1>7. Matches(more, saw, err)
  <2>1. Len(more) \in Nat /\ more = [i \in 1..Len(more) |-> more[i]]
    BY <1>2, <1>4
  <2> QED
    BY <1>2, <1>3, <1>5, <1>6, <2>1 DEF Matches
<1>8. Matches(targets, saw, TRUE)
  BY <1>2, <1>3 DEF Matches
<1> QED
  BY <1>7, <1>8 DEF more, saw, t

LEMMA ScanInvStep == ScanInv /\ [ScanNext]_scanVars => ScanInv'
<1> SUFFICES ASSUME ScanInv, [ScanNext]_scanVars PROVE ScanInv'
  OBVIOUS
<1> DEFINE fields == {"pc", "due", "start", "todo", "targets", "err", "seen"}
<1>1. ASSUME UNCHANGED <<lastResult, truth>>, scan'.targets = scan.targets, scan'.seen = scan.seen,
             scan'.err = scan.err, DOMAIN scan' = fields
      PROVE  ScanInv'
  BY <1>1 DEF ScanInv, Matches, BuiltFrom, aggregateCveTotals
<1>2. CASE StartScan
  <2>1. CASE tool
    <3>1. scan' = [scan EXCEPT !.pc = "scanning", !.start = moment, !.todo = <<Host>>]
          /\ UNCHANGED <<lastResult, truth>>
      BY <1>2, <2>1 DEF StartScan
    <3>2. scan'.targets = scan.targets /\ scan'.seen = scan.seen /\ scan'.err = scan.err /\ DOMAIN scan' = fields
      BY <3>1 DEF ScanInv
    <3> QED
      BY <1>1, <3>1, <3>2
  <2>2. CASE ~tool
    <3>1. scan' = [scan EXCEPT !.pc = "publishing", !.start = moment] /\ UNCHANGED <<lastResult, truth>>
      BY <1>2, <2>2 DEF StartScan
    <3>2. scan'.targets = scan.targets /\ scan'.seen = scan.seen /\ scan'.err = scan.err /\ DOMAIN scan' = fields
      BY <3>1 DEF ScanInv
    <3> QED
      BY <1>1, <3>1, <3>2
  <2> QED
    BY <2>1, <2>2
<1>3. CASE ScanTarget
  <2>1. PICK o \in ScannerOutput, ok \in BOOLEAN :
           scan' = [scan EXCEPT !.err = recordErr(~ok),
                       !.targets = IF ok THEN Append(@, buildCveTarget(Head(scan.todo), Parsed(o))) ELSE @,
                       !.seen = Append(@, o),
                       !.todo = Following,
                       !.pc = IF Following = <<>> THEN "publishing" ELSE @]
    BY <1>3 DEF ScanTarget
  <2>2. UNCHANGED <<lastResult, truth>>
    BY <1>3 DEF ScanTarget
  <2> DEFINE t == buildCveTarget(Head(scan.todo), Parsed(o))
  <2>3. Matches(scan.targets, scan.seen, scan.err) /\ scan.err \in BOOLEAN
    BY DEF ScanInv, Matches
  <2>4. Matches(Append(scan.targets, t), Append(scan.seen, o), scan.err)
        /\ Matches(scan.targets, Append(scan.seen, o), TRUE)
    BY <2>3, MatchesOneMore
  <2>5. /\ DOMAIN scan' = fields
        /\ scan'.err = (scan.err \/ ~ok) /\ scan'.seen = Append(scan.seen, o)
        /\ scan'.targets = IF ok THEN Append(scan.targets, t) ELSE scan.targets
    <3> HIDE DEF t
    <3>1. scan' = [scan EXCEPT !.err = scan.err \/ ~ok,
                       !.targets = IF ok THEN Append(@, t) ELSE @,
                       !.seen = Append(@, o),
                       !.todo = Following,
                       !.pc = IF Following = <<>> THEN "publishing" ELSE @]
      BY <2>1 DEF t, recordErr
    <3> QED
      BY <3>1 DEF ScanInv
  <2>6. Matches(scan'.targets, scan'.seen, scan'.err)
    <3> HIDE DEF t
    <3>1. CASE ok
      <4>1. scan'.err = scan.err
        BY <2>3, <2>5, <3>1
      <4> QED
        BY <2>4, <2>5, <3>1, <4>1
    <3>2. CASE ~ok
      <4>1. scan'.err = TRUE
        BY <2>3, <2>5, <3>2
      <4> QED
        BY <2>4, <2>5, <3>2, <4>1
    <3> QED
      BY <3>1, <3>2
  <2> QED
    BY <2>2, <2>5, <2>6 DEF ScanInv, Matches, BuiltFrom, aggregateCveTotals
<1>4. CASE PublishScan
  <2>1. /\ lastResult' = IF scan.seen = <<>> THEN notAvailableCvePayload
                         ELSE [available |-> TRUE, err |-> scan.err, targets |-> scan.targets,
                               totals |-> aggregateCveTotals(scan.targets)]
        /\ truth' = scan.seen
        /\ scan' = [Resting EXCEPT !.due = Interval + IF lastRunAt = 0 THEN moment ELSE scan.due]
    BY <1>4 DEF PublishScan
  <2>2. DOMAIN scan' = fields /\ scan'.targets = <<>> /\ scan'.seen = <<>> /\ scan'.err = FALSE
    BY <2>1, RestingFacts
  <2>3. Matches(scan'.targets, scan'.seen, scan'.err)
    BY <2>2, RestingFacts
  <2>4. lastResult'.available => /\ lastResult'.targets = scan.targets /\ lastResult'.err = scan.err
                                 /\ lastResult'.totals = aggregateCveTotals(scan.targets)
    <3> DEFINE totals == aggregateCveTotals(scan.targets)
    <3> HIDE DEF totals
    <3>1. lastResult' = IF scan.seen = <<>> THEN notAvailableCvePayload
                         ELSE [available |-> TRUE, err |-> scan.err, targets |-> scan.targets, totals |-> totals]
      BY <2>1 DEF totals
    <3>2. notAvailableCvePayload.available = FALSE
      BY DEF notAvailableCvePayload
    <3> QED
      BY <3>1, <3>2 DEF totals
  <2>5. lastResult'.available => /\ Matches(lastResult'.targets, truth', lastResult'.err)
                                 /\ lastResult'.totals = aggregateCveTotals(lastResult'.targets)
    BY <2>1, <2>4 DEF ScanInv
  <2> QED
    BY <2>2, <2>3, <2>5 DEF ScanInv, Matches, BuiltFrom, aggregateCveTotals
<1>5. CASE EndScans
  <2>1. scan' = [scan EXCEPT !.pc = "none"] /\ UNCHANGED <<lastResult, truth>>
    BY <1>5 DEF EndScans
  <2>2. scan'.targets = scan.targets /\ scan'.seen = scan.seen /\ scan'.err = scan.err /\ DOMAIN scan' = fields
    BY <2>1 DEF ScanInv
  <2> QED
    BY <1>1, <2>1, <2>2
<1>6. CASE StopScans \/ ScanTick \/ HostChanges \/ UNCHANGED scanVars
  <2>1. UNCHANGED <<scan, lastResult, truth>>
    BY <1>6 DEF StopScans, ScanTick, HostChanges, scanVars
  <2>2. DOMAIN scan' = fields
    BY <2>1 DEF ScanInv
  <2> QED
    BY <1>1, <2>1, <2>2
<1> QED
  BY <1>2, <1>3, <1>4, <1>5, <1>6 DEF ScanNext, ScanStep

\* A result built from all that was scanned tells all of it.
LEMMA ScanTold == ScanInv => CompleteOrFlagged
<1> SUFFICES ASSUME ScanInv, lastResult.available
             PROVE  /\ ~lastResult.err =>
                          \A s \in ToSet(Severity) :
                             lastResult.totals[s] = SumFunction([i \in DOMAIN truth |-> Cardinality(Keys(truth[i], s))])
                    /\ \A i \in DOMAIN lastResult.targets :
                          LET t == lastResult.targets[i]
                              listed(s) == Cardinality({j \in DOMAIN t.findings : t.findings[j].severity = s}) IN
                          \A s, worse \in ToSet(Severity) :
                             Rank(worse) < Rank(s) /\ listed(s) > 0 => listed(worse) = t.counts[worse]
  BY DEF CompleteOrFlagged, Collect
<1> DEFINE targets == lastResult.targets
<1>1. Matches(targets, truth, lastResult.err) /\ lastResult.totals = aggregateCveTotals(targets)
  BY DEF ScanInv
<1> HIDE DEF targets
<1>2. \A o \in ScannerOutput : o \in Seq(CveFinding)
  BY ScanAssumption
<1>3. \A t : \A o \in ScannerOutput : BuiltFrom(t, o) => TargetTold(t, o)
  <2> SUFFICES ASSUME NEW t, NEW o \in ScannerOutput, BuiltFrom(t, o) PROVE TargetTold(t, o)
    OBVIOUS
  <2>1. TargetTold(buildCveTarget(t.ref, Parsed(o)), o)
    BY <1>2, TargetHolds
  <2>2. t = buildCveTarget(t.ref, Parsed(o))
    BY DEF BuiltFrom
  <2> QED
    BY <2>1, <2>2
<1>4. DOMAIN targets = 1..Len(targets) /\ truth \in Seq(ScannerOutput)
  BY <1>1 DEF Matches
<1>5. ASSUME ~lastResult.err, NEW s \in ToSet(Severity)
      PROVE  lastResult.totals[s] = SumFunction([i \in DOMAIN truth |-> Cardinality(Keys(truth[i], s))])
  <2>1. DOMAIN targets = DOMAIN truth /\ \A i \in DOMAIN truth : BuiltFrom(targets[i], truth[i]) /\ truth[i] \in ScannerOutput
    BY <1>1, <1>4, <1>5 DEF Matches
  <2>2. \A i \in DOMAIN truth : targets[i].counts[s] = Cardinality(Keys(truth[i], s))
    BY <1>3, <2>1 DEF TargetTold
  <2>3. [i \in DOMAIN targets |-> targets[i].counts[s]] = [i \in DOMAIN truth |-> Cardinality(Keys(truth[i], s))]
    BY <2>1, <2>2
  <2>4. lastResult.totals[s] = SumFunction([i \in DOMAIN targets |-> targets[i].counts[s]])
    BY <1>1 DEF aggregateCveTotals
  <2> QED
    BY <2>3, <2>4
<1>6. ASSUME NEW i \in DOMAIN targets PROVE \E o : TargetTold(targets[i], o)
  BY <1>1, <1>3, <1>4 DEF Matches
<1> QED
  BY <1>5, <1>6 DEF TargetTold, targets

\* What reaches the alert rules is not short of a finding in silence, whatever the
\* scanners print, fail to print or take too long over (CompleteOrFlagged).
THEOREM CompleteOrFlaggedAlways == ScanSpec => []CompleteOrFlagged
<1>1. ScanInit(BOOLEAN) => ScanInv
  <2> SUFFICES ASSUME ScanInit(BOOLEAN) PROVE ScanInv
    OBVIOUS
  <2>1. DOMAIN scan = {"pc", "due", "start", "todo", "targets", "err", "seen"}
        /\ scan.targets = <<>> /\ scan.seen = <<>> /\ scan.err = FALSE
    BY RestingFacts DEF ScanInit
  <2>2. ~lastResult.available
    BY DEF ScanInit, notAvailableCvePayload
  <2> QED
    BY <2>1, <2>2, RestingFacts DEF ScanInv
<1> QED
  BY <1>1, ScanInvStep, ScanTold, PTL DEF ScanSpec

-----------------------------------------------------------------------------
(* The limiter of the status page *)

PageVisit == [who : Visitor, at : Nat, allowed : BOOLEAN]

\* The stamps, and the visits, after a moment.
Kept(stamps, c) == {i \in DOMAIN stamps : stamps[i] > c}
Made(vs, v, n, c) == {j \in 1..n : vs[j].who = v /\ vs[j].at > c}

\* The stamps of an address are as many as its visits, after every moment that the
\* window still reaches; the last of them is the latest.
VisitInv ==
    /\ time \in Nat /\ visits \in Seq(PageVisit) /\ hits \in [Visitor -> Seq(Nat)]
    /\ \A v \in Visitor : \A i \in 1..Len(hits[v]) : hits[v][i] <= Last(hits[v]) /\ hits[v][i] <= time
    /\ \A v \in Visitor : \A c \in Int :
          c >= time - Minute =>
             Cardinality(Kept(hits[v], c)) = Cardinality(Made(visits, v, Len(visits), c))
    /\ \A i \in 1..Len(visits) :
          visits[i].allowed <=>
             Cardinality(Made(visits, visits[i].who, i - 1, visits[i].at - Minute)) < VisitLimit

LEMMA CountsAreNumbers ==
    /\ \A s \in Seq(Nat) : \A c : IsFiniteSet(Kept(s, c)) /\ Cardinality(Kept(s, c)) \in Nat
    /\ \A vs, v, c : \A n \in Nat : IsFiniteSet(Made(vs, v, n, c)) /\ Cardinality(Made(vs, v, n, c)) \in Nat
<1>1. \A n \in Nat : IsFiniteSet(1..n)
  BY FS_Interval
<1>2. ASSUME NEW s \in Seq(Nat), NEW c PROVE IsFiniteSet(Kept(s, c))
  <2>1. Kept(s, c) \in SUBSET (1..Len(s)) /\ Len(s) \in Nat
    BY DEF Kept
  <2> QED
    BY <1>1, <2>1, FS_Subset
<1>3. ASSUME NEW vs, NEW v, NEW c, NEW n \in Nat PROVE IsFiniteSet(Made(vs, v, n, c))
  <2>1. Made(vs, v, n, c) \in SUBSET (1..n)
    BY DEF Made
  <2> QED
    BY <1>1, <2>1, FS_Subset
<1> QED
  BY <1>2, <1>3, FS_CardinalityType

\* What Allow keeps of the stamps of an address.
LEMMA RecentFacts ==
    ASSUME NEW s \in Seq(Nat), time \in Nat
    PROVE  /\ Recent(s) \in Seq(Nat) /\ Len(Recent(s)) = Cardinality(Kept(s, time - Minute))
           /\ \A i \in 1..Len(Recent(s)) : \E j \in 1..Len(s) : Recent(s)[i] = s[j]
           /\ \A c \in Int : c >= time - Minute => Cardinality(Kept(Recent(s), c)) = Cardinality(Kept(s, c))
<1> DEFINE P == Kept(s, time - Minute)  n == Cardinality(P)  r == Recent(s)
<1>1. Len(s) \in Nat /\ DOMAIN s = 1..Len(s) /\ \A i \in 1..Len(s) : s[i] \in Nat
  OBVIOUS
<1>2. IsFiniteSet(P) /\ n \in Nat /\ P \in SUBSET Int
  <2>1. IsFiniteSet(P) /\ n \in Nat
    BY CountsAreNumbers
  <2>2. P \in SUBSET Int
    BY <1>1 DEF Kept
  <2> QED
    BY <2>1, <2>2
<1>3. r = At(s, P)
  BY DEF Recent, Kept
<1> HIDE DEF r, P
<1>4. PICK pos \in Bijection(1..n, P) : r = [i \in 1..n |-> s[pos[i]]]
  BY <1>2, <1>3, AtElements
<1>5. /\ \A i \in 1..n : pos[i] \in P /\ \A j \in 1..n : pos[i] = pos[j] => i = j
      /\ \A p \in P : \E i \in 1..n : pos[i] = p
  <2> HIDE DEF n
  <2> QED
    BY <1>4 DEF Bijection, Injection, Surjection, IsInjective
<1>6. \A p \in P : p \in 1..Len(s) /\ s[p] > time - Minute
  BY <1>1 DEF P, Kept
<1>7. r \in Seq(Nat) /\ Len(r) = n /\ \A i \in 1..n : r[i] = s[pos[i]]
  <2>1. \A i \in 1..n : s[pos[i]] \in Nat
    BY <1>1, <1>5, <1>6
  <2> HIDE DEF n
  <2>2. r \in [1..n -> Nat] /\ \A i \in 1..n : r[i] = s[pos[i]]
    BY <1>4, <2>1
  <2>3. r \in Seq(Nat) /\ Len(r) = n
    BY <1>2, <2>2
  <2> QED
    BY <2>2, <2>3
<1>8. \A i \in 1..n : \E j \in 1..Len(s) : r[i] = s[j]
  BY <1>5, <1>6, <1>7
<1>9. ASSUME NEW c \in Int, c >= time - Minute PROVE Cardinality(Kept(r, c)) = Cardinality(Kept(s, c))
  <2> DEFINE A == Kept(r, c)  B == Kept(s, c)  g == [i \in A |-> pos[i]]
  <2>1. \A i \in A : i \in 1..n /\ s[pos[i]] > c
    BY <1>2, <1>7 DEF Kept
  <2>2. \A i \in A : pos[i] \in B
    BY <1>1, <1>5, <1>6, <2>1 DEF Kept
  <2>3. \A p \in B : p \in P
    <3> SUFFICES ASSUME NEW p \in B PROVE p \in P
      OBVIOUS
    <3>1. p \in DOMAIN s /\ s[p] > c /\ s[p] \in Nat
      BY <1>1 DEF Kept
    <3>2. s[p] > time - Minute
      BY <1>9, <3>1, PageAssumption
    <3> QED
      BY <3>1, <3>2 DEF P, Kept
  <2>4. \A p \in B : \E i \in A : pos[i] = p
    <3> SUFFICES ASSUME NEW p \in B PROVE \E i \in A : pos[i] = p
      OBVIOUS
    <3>1. PICK i \in 1..n : pos[i] = p
      BY <1>5, <2>3
    <3>2. i \in DOMAIN r /\ r[i] > c
      BY <1>2, <1>7, <3>1 DEF Kept
    <3> QED
      BY <3>1, <3>2 DEF Kept
  <2>5. \A i, j \in A : pos[i] = pos[j] => i = j
    BY <1>5, <2>1
  <2>6. IsFiniteSet(A)
    BY <1>7, CountsAreNumbers
  <2> HIDE DEF A, B
  <2>7. g \in Bijection(A, B)
    BY <2>2, <2>4, <2>5 DEF Bijection, Injection, Surjection, IsInjective
  <2> HIDE DEF g
  <2>8. Cardinality(A) = Cardinality(B)
    BY <2>6, <2>7, FS_Bijection DEF ExistsBijection
  <2> QED
    BY <2>8 DEF A, B
<1> QED
  BY <1>7, <1>8, <1>9 DEF r, P

\* One more stamp, one more visit.
LEMMA StampAdds ==
    ASSUME NEW s \in Seq(Nat), NEW t \in Nat, NEW c \in Int
    PROVE  Cardinality(Kept(Append(s, t), c)) = Cardinality(Kept(s, c)) + IF t > c THEN 1 ELSE 0
<1> DEFINE n == Len(s)  more == Append(s, t)
<1>1. n \in Nat /\ DOMAIN more = 1..(n + 1) /\ more[n + 1] = t /\ \A i \in 1..n : more[i] = s[i]
  OBVIOUS
<1>2. DOMAIN s = 1..n /\ n + 1 \notin 1..n /\ \A i \in 1..(n + 1) : i = n + 1 \/ i \in 1..n
  BY <1>1
<1>3. IsFiniteSet(Kept(s, c)) /\ n + 1 \notin Kept(s, c) /\ Cardinality(Kept(s, c)) \in Nat
  BY <1>2, CountsAreNumbers DEF Kept
<1>4. n + 1 \in 1..(n + 1) /\ \A i \in 1..n : i \in 1..(n + 1)
  BY <1>1
<1> HIDE DEF more, n
<1>5. CASE t > c
  <2>1. Kept(more, c) = Kept(s, c) \union {n + 1}
    BY <1>1, <1>2, <1>4, <1>5 DEF Kept
  <2>2. Cardinality(Kept(more, c)) = Cardinality(Kept(s, c)) + 1
    BY <1>3, <2>1, FS_AddElement
  <2> QED
    BY <1>5, <2>2 DEF more
<1>6. CASE ~(t > c)
  <2>1. Kept(more, c) = Kept(s, c)
    BY <1>1, <1>2, <1>4, <1>6 DEF Kept
  <2> QED
    BY <1>3, <1>6, <2>1 DEF more
<1> QED
  BY <1>5, <1>6

LEMMA VisitAdds ==
    ASSUME NEW vs \in Seq(PageVisit), NEW w \in PageVisit, NEW v, NEW c \in Int
    PROVE  LET n == Len(vs)  more == Append(vs, w) IN
           /\ \A m \in 0..n : Made(more, v, m, c) = Made(vs, v, m, c)
           /\ Cardinality(Made(more, v, n + 1, c))
                = Cardinality(Made(vs, v, n, c)) + IF w.who = v /\ w.at > c THEN 1 ELSE 0
<1> DEFINE n == Len(vs)  more == Append(vs, w)
<1>1. n \in Nat /\ more[n + 1] = w /\ \A i \in 1..n : more[i] = vs[i]
  OBVIOUS
<1>2. n + 1 \notin 1..n /\ n + 1 \in 1..(n + 1) /\ \A i \in 1..(n + 1) : i = n + 1 \/ i \in 1..n
  BY <1>1
<1>3. IsFiniteSet(Made(vs, v, n, c)) /\ n + 1 \notin Made(vs, v, n, c) /\ Cardinality(Made(vs, v, n, c)) \in Nat
  <2>1. IsFiniteSet(Made(vs, v, n, c)) /\ Cardinality(Made(vs, v, n, c)) \in Nat
    BY <1>1, CountsAreNumbers
  <2>2. n + 1 \notin Made(vs, v, n, c)
    BY <1>2 DEF Made
  <2> QED
    BY <2>1, <2>2
<1>4. \A i \in 1..n : i \in 1..(n + 1)
  BY <1>1
<1>5. \A m \in 0..n : \A i \in 1..m : i \in 1..n
  BY <1>1
<1> HIDE DEF more, n
<1>6. \A m \in 0..n : Made(more, v, m, c) = Made(vs, v, m, c)
  BY <1>1, <1>5 DEF Made
<1>7. CASE w.who = v /\ w.at > c
  <2>1. Made(more, v, n + 1, c) = Made(vs, v, n, c) \union {n + 1}
    BY <1>1, <1>2, <1>4, <1>7 DEF Made
  <2>2. Cardinality(Made(more, v, n + 1, c)) = Cardinality(Made(vs, v, n, c)) + 1
    BY <1>3, <2>1, FS_AddElement
  <2> QED
    BY <1>6, <1>7, <2>2 DEF more, n
<1>8. CASE ~(w.who = v /\ w.at > c)
  <2>1. Made(more, v, n + 1, c) = Made(vs, v, n, c)
    BY <1>1, <1>2, <1>4, <1>8 DEF Made
  <2> QED
    BY <1>3, <1>6, <1>8, <2>1 DEF more, n
<1> QED
  BY <1>7, <1>8

\* Every last stamp is the latest, none is later than now.
LatestLast(s, t) == \A i \in 1..Len(s) : s[i] <= Last(s) /\ s[i] <= t

\* A sweep takes only stamps that the window no longer reaches.
LEMMA SweepForgetsOld ==
    ASSUME NEW s \in Seq(Nat), time \in Nat, LatestLast(s, time)
    PROVE  /\ Swept(s) \in Seq(Nat) /\ LatestLast(Swept(s), time)
           /\ \A c \in Int : c >= time - Minute => Cardinality(Kept(Swept(s), c)) = Cardinality(Kept(s, c))
<1>1. CASE s # <<>> /\ Last(s) < time - Minute
  <2>1. Swept(s) = <<>>
    BY <1>1 DEF Swept
  <2>2. LatestLast(<<>>, time) /\ <<>> \in Seq(Nat)
    BY DEF LatestLast
  <2>3. ASSUME NEW c \in Int, c >= time - Minute PROVE Kept(s, c) = {} /\ Kept(<<>>, c) = {}
    <3>1. \A i \in 1..Len(s) : s[i] \in Nat /\ s[i] <= Last(s)
      BY DEF LatestLast
    <3>2. Last(s) \in Nat
      BY <1>1 DEF Last
    <3>3. time - Minute \in Int
      BY PageAssumption
    <3>4. \A i \in 1..Len(s) : ~(s[i] > c)
      BY <1>1, <2>3, <3>1, <3>2, <3>3
    <3> QED
      BY <3>4 DEF Kept
  <2> QED
    BY <2>1, <2>2, <2>3
<1>2. CASE ~(s # <<>> /\ Last(s) < time - Minute)
  BY <1>2 DEF Swept
<1> QED
  BY <1>1, <1>2

\* A visit is added to what is kept of the visits before it.
LEMMA RecordedFacts ==
    ASSUME NEW s \in Seq(Nat), time \in Nat, LatestLast(s, time)
    PROVE  LET r == Append(Recent(s), time) IN
           /\ r \in Seq(Nat) /\ LatestLast(r, time)
           /\ \A c \in Int : c >= time - Minute =>
                 Cardinality(Kept(r, c)) = Cardinality(Kept(s, c)) + IF time > c THEN 1 ELSE 0
<1> DEFINE q == Recent(s)  r == Append(q, time)
<1>1. /\ q \in Seq(Nat) /\ \A i \in 1..Len(q) : \E j \in 1..Len(s) : q[i] = s[j]
      /\ \A c \in Int : c >= time - Minute => Cardinality(Kept(q, c)) = Cardinality(Kept(s, c))
  BY RecentFacts
<1> HIDE DEF q
<1>2. ASSUME NEW i \in 1..Len(q) PROVE q[i] \in Nat /\ q[i] <= time
  <2>1. PICK j \in 1..Len(s) : q[i] = s[j]
    BY <1>1
  <2>2. s[j] \in Nat /\ s[j] <= time
    BY DEF LatestLast
  <2> QED
    BY <2>1, <2>2
<1>3. r \in Seq(Nat) /\ Len(r) = Len(q) + 1 /\ Len(q) \in Nat /\ r[Len(q) + 1] = time
      /\ \A i \in 1..Len(q) : r[i] = q[i]
  BY <1>1
<1>4. Last(r) = time
  BY <1>3 DEF Last
<1>5. LatestLast(r, time)
  <2> SUFFICES ASSUME NEW i \in 1..Len(r) PROVE r[i] <= time
    BY <1>4 DEF LatestLast
  <2>1. CASE i = Len(q) + 1
    BY <1>3, <2>1
  <2>2. CASE i # Len(q) + 1
    <3>1. i \in 1..Len(q)
      BY <1>3, <2>2
    <3> HIDE DEF r
    <3> QED
      BY <1>2, <1>3, <3>1
  <2> QED
    BY <2>1, <2>2
<1>6. ASSUME NEW c \in Int, c >= time - Minute
      PROVE  Cardinality(Kept(r, c)) = Cardinality(Kept(s, c)) + IF time > c THEN 1 ELSE 0
  <2>1. Cardinality(Kept(r, c)) = Cardinality(Kept(q, c)) + IF time > c THEN 1 ELSE 0
    BY <1>1, StampAdds
  <2> QED
    BY <1>1, <1>6, <2>1
<1> QED
  BY <1>3, <1>5, <1>6 DEF q

LEMMA VisitStep ==
    ASSUME VisitInv, NEW v \in Visitor, Visit(v)
    PROVE  VisitInv'
<1> DEFINE n == Len(visits)
           w == [who |-> v, at |-> time, allowed |-> Len(Recent(hits[v])) < VisitLimit]
           r == Append(Recent(hits[v]), time)
           recorded == [hits EXCEPT ![v] = r]
<1>1. /\ visits' = Append(visits, w) /\ time' = time
      /\ hits' = IF calls' = 0 THEN [u \in Visitor |-> Swept(recorded[u])] ELSE recorded
  BY DEF Visit
<1>2. /\ time \in Nat /\ visits \in Seq(PageVisit) /\ hits \in [Visitor -> Seq(Nat)] /\ n \in Nat
      /\ \A u \in Visitor : LatestLast(hits[u], time)
      /\ \A u \in Visitor : \A c \in Int : c >= time - Minute =>
            Cardinality(Kept(hits[u], c)) = Cardinality(Made(visits, u, n, c))
  BY DEF VisitInv, LatestLast
<1>3. w \in PageVisit /\ w.who = v /\ w.at = time
  BY <1>2 DEF PageVisit
<1>4. w.allowed <=> Cardinality(Kept(hits[v], time - Minute)) < VisitLimit
  <2>1. Len(Recent(hits[v])) = Cardinality(Kept(hits[v], time - Minute))
    BY <1>2, RecentFacts
  <2> QED
    BY <2>1
<1>5. /\ r \in Seq(Nat) /\ LatestLast(r, time)
      /\ \A c \in Int : c >= time - Minute =>
            Cardinality(Kept(r, c)) = Cardinality(Kept(hits[v], c)) + IF time > c THEN 1 ELSE 0
  BY <1>2, RecordedFacts
<1> HIDE DEF w, r
<1>6. /\ visits' \in Seq(PageVisit) /\ Len(visits') = n + 1
      /\ \A i \in 1..n : visits'[i] = visits[i]
      /\ visits'[n + 1] = w
  BY <1>1, <1>2, <1>3
<1>7. \A u, c : c \in Int =>
         /\ \A m \in 0..n : Made(visits', u, m, c) = Made(visits, u, m, c)
         /\ Cardinality(Made(visits', u, n + 1, c))
              = Cardinality(Made(visits, u, n, c)) + IF v = u /\ time > c THEN 1 ELSE 0
  BY <1>1, <1>2, <1>3, VisitAdds
<1>8. \A u \in Visitor :
         /\ recorded[u] \in Seq(Nat) /\ LatestLast(recorded[u], time)
         /\ \A c \in Int : c >= time - Minute =>
               Cardinality(Kept(recorded[u], c)) = Cardinality(Made(visits', u, n + 1, c))
  <2> SUFFICES ASSUME NEW u \in Visitor
               PROVE  /\ recorded[u] \in Seq(Nat) /\ LatestLast(recorded[u], time)
                      /\ \A c \in Int : c >= time - Minute =>
                            Cardinality(Kept(recorded[u], c)) = Cardinality(Made(visits', u, n + 1, c))
    OBVIOUS
  <2>1. CASE u = v
    <3>1. recorded[u] = r
      BY <1>2, <2>1
    <3> QED
      BY <1>2, <1>5, <1>7, <2>1, <3>1
  <2>2. CASE u # v
    <3>1. recorded[u] = hits[u]
      BY <1>2, <2>2
    <3>2. \A c \in Int : Cardinality(Made(visits', u, n + 1, c)) = Cardinality(Made(visits, u, n, c))
      <4>1. \A c \in Int : Cardinality(Made(visits, u, n, c)) \in Nat
        BY <1>2, CountsAreNumbers
      <4> SUFFICES ASSUME NEW c \in Int
                   PROVE  Cardinality(Made(visits', u, n + 1, c)) = Cardinality(Made(visits, u, n, c))
        OBVIOUS
      <4>2. Cardinality(Made(visits', u, n + 1, c)) = Cardinality(Made(visits, u, n, c)) + 0
        BY <1>7, <2>2
      <4> QED
        BY <4>1, <4>2
    <3> QED
      BY <1>2, <3>1, <3>2
  <2> QED
    BY <2>1, <2>2
<1>9. \A u \in Visitor :
         /\ hits'[u] \in Seq(Nat) /\ LatestLast(hits'[u], time)
         /\ \A c \in Int : c >= time - Minute =>
               Cardinality(Kept(hits'[u], c)) = Cardinality(Made(visits', u, n + 1, c))
  <2> HIDE DEF recorded
  <2>1. CASE calls' = 0
    <3>1. \A u \in Visitor : hits'[u] = Swept(recorded[u])
      BY <1>1, <2>1
    <3> SUFFICES ASSUME NEW u \in Visitor
                 PROVE  /\ Swept(recorded[u]) \in Seq(Nat) /\ LatestLast(Swept(recorded[u]), time)
                        /\ \A c \in Int : c >= time - Minute =>
                              Cardinality(Kept(Swept(recorded[u]), c)) = Cardinality(Made(visits', u, n + 1, c))
      BY <3>1
    <3>2. recorded[u] \in Seq(Nat) /\ LatestLast(recorded[u], time) /\ time \in Nat
      BY <1>2, <1>8
    <3>3. /\ Swept(recorded[u]) \in Seq(Nat) /\ LatestLast(Swept(recorded[u]), time)
          /\ \A c \in Int : c >= time - Minute =>
                Cardinality(Kept(Swept(recorded[u]), c)) = Cardinality(Kept(recorded[u], c))
      BY <3>2, SweepForgetsOld
    <3> QED
      BY <1>8, <3>3
  <2>2. CASE calls' # 0
    <3>1. hits' = recorded
      BY <1>1, <2>2
    <3> QED
      BY <1>8, <3>1
  <2> QED
    BY <2>1, <2>2
<1>10. hits' \in [Visitor -> Seq(Nat)]
  <2>1. DOMAIN hits' = Visitor /\ hits' = [u \in Visitor |-> hits'[u]]
    BY <1>1, <1>2
  <2> HIDE DEF recorded
  <2> QED
    BY <1>9, <2>1
<1>11. \A i \in 1..(n + 1) :
          visits'[i].allowed <=>
             Cardinality(Made(visits', visits'[i].who, i - 1, visits'[i].at - Minute)) < VisitLimit
  <2> SUFFICES ASSUME NEW i \in 1..(n + 1)
               PROVE  visits'[i].allowed <=>
                        Cardinality(Made(visits', visits'[i].who, i - 1, visits'[i].at - Minute)) < VisitLimit
    OBVIOUS
  <2>1. CASE i = n + 1
    <3>1. visits'[i] = w /\ i - 1 = n /\ n \in 0..n /\ time - Minute \in Int /\ time - Minute >= time - Minute
      BY <1>2, <1>6, <2>1, PageAssumption
    <3>2. Made(visits', v, n, time - Minute) = Made(visits, v, n, time - Minute)
      BY <1>7, <3>1
    <3>3. Cardinality(Made(visits, v, n, time - Minute)) = Cardinality(Kept(hits[v], time - Minute))
      BY <1>2, <3>1
    <3> QED
      BY <1>3, <1>4, <3>1, <3>2, <3>3
  <2>2. CASE i # n + 1
    <3>1. i \in 1..n /\ i - 1 \in 0..n /\ visits'[i] = visits[i]
      BY <1>2, <1>6, <2>2
    <3>2. visits[i].at - Minute \in Int
      <4>1. visits[i] \in PageVisit
        BY <1>2, <3>1
      <4> QED
        BY <4>1, PageAssumption DEF PageVisit
    <3>3. Made(visits', visits[i].who, i - 1, visits[i].at - Minute) = Made(visits, visits[i].who, i - 1, visits[i].at - Minute)
      BY <1>7, <3>1, <3>2
    <3> QED
      BY <3>1, <3>3 DEF VisitInv
  <2> QED
    BY <2>1, <2>2
<1> HIDE DEF recorded, n
<1> QED
  BY <1>1, <1>2, <1>6, <1>9, <1>10, <1>11 DEF VisitInv, LatestLast

LEMMA VisitsKeep == VisitInv /\ [PageNext]_pageVars => VisitInv'
<1> SUFFICES ASSUME VisitInv, [PageNext]_pageVars PROVE VisitInv'
  OBVIOUS
<1>1. CASE \E v \in Visitor : Visit(v)
  BY <1>1, VisitStep
<1>2. CASE PageTick
  <2>1. time' = time + 1 /\ UNCHANGED <<hits, visits>>
    BY <1>2 DEF PageTick
  <2>2. /\ time' \in Nat /\ \A x \in Nat : x <= time => x <= time'
        /\ \A c \in Int : c >= time' - Minute => c >= time - Minute
    BY <2>1, PageAssumption DEF VisitInv
  <2>3. \A v \in Visitor : \A i \in 1..Len(hits[v]) : hits[v][i] <= Last(hits[v]) /\ hits[v][i] <= time'
    <3> SUFFICES ASSUME NEW v \in Visitor, NEW i \in 1..Len(hits[v])
                 PROVE  hits[v][i] <= Last(hits[v]) /\ hits[v][i] <= time'
      OBVIOUS
    <3>1. hits[v] \in Seq(Nat)
      BY DEF VisitInv
    <3>2. hits[v][i] \in Nat
      BY <3>1
    <3> QED
      BY <2>2, <3>2 DEF VisitInv
  <2>4. \A v \in Visitor : \A c \in Int :
           c >= time' - Minute =>
              Cardinality(Kept(hits[v], c)) = Cardinality(Made(visits, v, Len(visits), c))
    BY <2>2 DEF VisitInv
  <2>5. VisitInv'
    BY <2>1, <2>2, <2>3, <2>4 DEF VisitInv
  <2> QED
    BY <2>5
<1>3. CASE StoreResult \/ PurgeResults \/ UNCHANGED pageVars
  <2>1. UNCHANGED <<time, hits, visits>>
    BY <1>3 DEF StoreResult, PurgeResults, pageVars
  <2>2. \A v \in Visitor : \A c \in Int :
          c >= time - Minute =>
             Cardinality(Kept(hits[v], c)) = Cardinality(Made(visits, v, Len(visits), c))
    BY DEF VisitInv
  <2>3. (\A v \in Visitor : \A c \in Int :
          c >= time - Minute =>
             Cardinality(Kept(hits[v], c)) = Cardinality(Made(visits, v, Len(visits), c)))'
    BY <2>1, <2>2 DEF Kept, Made
  <2>4. (\A i \in 1..Len(visits) :
          visits[i].allowed <=>
             Cardinality(Made(visits, visits[i].who, i - 1, visits[i].at - Minute)) < VisitLimit)'
    BY <2>1 DEF VisitInv, Made
  <2>5. (/\ time \in Nat /\ visits \in Seq(PageVisit) /\ hits \in [Visitor -> Seq(Nat)]
         /\ \A v \in Visitor : \A i \in 1..Len(hits[v]) : hits[v][i] <= Last(hits[v]) /\ hits[v][i] <= time)'
    BY <2>1 DEF VisitInv, Last
  <2> QED
    BY <2>3, <2>4, <2>5 DEF VisitInv
<1> QED
  BY <1>1, <1>2, <1>3 DEF PageNext

LEMMA VisitsAtFirst == ASSUME NEW parts, PageInit(parts) PROVE VisitInv
<1>1. time = 0 /\ visits = <<>> /\ hits = [v \in Visitor |-> <<>>]
  BY DEF PageInit
<1>2. ASSUME NEW v \in Visitor, NEW c PROVE Kept(hits[v], c) = {} /\ Made(visits, v, Len(visits), c) = {}
  BY <1>1 DEF Kept, Made
<1>3. \A v \in Visitor : hits[v] = <<>> /\ Len(hits[v]) = 0 /\ 1..Len(hits[v]) = {}
  BY <1>1
<1>5. \A v \in Visitor, c \in Int : Cardinality(Kept(hits[v], c)) = Cardinality(Made(visits, v, Len(visits), c))
  BY <1>2
<1>4. Len(visits) = 0 /\ visits \in Seq(PageVisit) /\ hits \in [Visitor -> Seq(Nat)] /\ time \in Nat
  BY <1>1
<1> QED
  BY <1>3, <1>4, <1>5 DEF VisitInv

\* A visit is refused exactly if its address made as many in the window before it, for
\* any number of addresses and visits and any limit, window and interval of sweeps.
THEOREM VisitsCountedAlways == PageSpec => []VisitsCounted
<1>1. VisitInv => VisitsCounted
  <2> SUFFICES ASSUME VisitInv, NEW i \in DOMAIN visits
               PROVE  visits[i].allowed <=>
                        Cardinality({j \in 1..(i - 1) : visits[j].who = visits[i].who
                                                        /\ visits[j].at > visits[i].at - Minute}) < VisitLimit
    BY DEF VisitsCounted
  <2>1. i \in 1..Len(visits)
    BY DEF VisitInv
  <2> QED
    BY <2>1 DEF VisitInv, Made
<1>2. PageInit(PageParts) => VisitInv
  BY VisitsAtFirst
<1> QED
  BY <1>1, <1>2, VisitsKeep, PTL DEF PageSpec

-----------------------------------------------------------------------------
(* What the status page tells of a check *)

PageResult == [ts : Nat, up : BOOLEAN]

\* The results of the check come in the order of time.
ResultsInv ==
    /\ time \in Nat /\ expires \in BOOLEAN /\ results \in Seq(PageResult)
    /\ \A i, j \in 1..Len(results) : i < j => results[i].ts < results[j].ts
    /\ \A i \in 1..Len(results) : results[i].ts <= time

LEMMA ResultTypes ==
    ASSUME ResultsInv
    PROVE  /\ Len(results) \in Nat /\ DOMAIN results = 1..Len(results)
           /\ \A i \in 1..Len(results) : results[i].ts \in Nat /\ results[i].up \in BOOLEAN
<1>1. results \in Seq(PageResult)
  BY DEF ResultsInv
<1>2. \A i \in 1..Len(results) : results[i] \in PageResult
  <2> HIDE DEF PageResult
  <2> QED
    BY <1>1
<1> QED
  BY <1>1, <1>2 DEF PageResult

LEMMA ResultsKeep == ResultsInv /\ [PageNext]_pageVars => ResultsInv'
<1> SUFFICES ASSUME ResultsInv, [PageNext]_pageVars PROVE ResultsInv'
  OBVIOUS
<1> DEFINE n == Len(results)
<1>1. /\ time \in Nat /\ results \in Seq(PageResult) /\ n \in Nat
      /\ \A i \in 1..n : results[i].ts \in Nat /\ results[i].up \in BOOLEAN
  BY ResultTypes DEF ResultsInv
<1>2. CASE StoreResult
  <2>1. PICK up \in BOOLEAN : results' = Append(results, [ts |-> time, up |-> up])
    BY <1>2 DEF StoreResult
  <2> DEFINE r == [ts |-> time, up |-> up]
  <2>2. r \in PageResult /\ r.ts = time
    BY <1>1 DEF PageResult
  <2> HIDE DEF r
  <2>3. results' = Append(results, r)
    BY <2>1 DEF r
  <2>4. /\ results' \in Seq(PageResult) /\ Len(results') = n + 1 /\ results'[n + 1] = r
        /\ \A i \in 1..n : results'[i] = results[i]
    BY <1>1, <2>2, <2>3
  <2>5. \A i \in 1..n : results[i].ts < time
    BY <1>2 DEF StoreResult, ResultsInv
  <2>6. UNCHANGED <<time, expires>>
    BY <1>2 DEF StoreResult
  <2>7. \A i \in 1..(n + 1) : i \in 1..n \/ i = n + 1
    BY <1>1
  <2>8. \A i \in 1..n : i < n + 1 /\ results[i].ts <= time
    BY <1>1, <2>5
  <2>9. ASSUME NEW i \in 1..(n + 1), NEW j \in 1..(n + 1), i < j PROVE results'[i].ts < results'[j].ts
    <3>1. i \in 1..n
      BY <1>1, <2>9
    <3>2. CASE j = n + 1
      BY <2>2, <2>4, <2>5, <3>1, <3>2
    <3>3. CASE j # n + 1
      <4>1. j \in 1..n
        BY <1>1, <3>3
      <4> QED
        BY <2>4, <2>9, <3>1, <4>1 DEF ResultsInv
    <3> QED
      BY <3>2, <3>3
  <2>10. \A i \in 1..(n + 1) : results'[i].ts <= time'
    BY <1>1, <2>2, <2>4, <2>6, <2>7, <2>8
  <2> HIDE DEF n
  <2> QED
    BY <2>4, <2>6, <2>9, <2>10 DEF ResultsInv
<1>3. CASE PurgeResults
  <2>1. results # <<>> /\ results' = Tail(results) /\ UNCHANGED <<time, expires>>
    BY <1>3 DEF PurgeResults
  <2>2. /\ results' \in Seq(PageResult) /\ Len(results') = n - 1
        /\ \A i \in 1..(n - 1) : results'[i] = results[i + 1]
    BY <1>1, <2>1
  <2>3. \A i \in 1..(n - 1) : i + 1 \in 1..n
    BY <1>1
  <2>4. ASSUME NEW i \in 1..(n - 1), NEW j \in 1..(n - 1), i < j PROVE results'[i].ts < results'[j].ts
    BY <2>2, <2>3, <2>4 DEF ResultsInv
  <2>5. \A i \in 1..(n - 1) : results'[i].ts <= time'
    BY <2>1, <2>2, <2>3 DEF ResultsInv
  <2> QED
    BY <2>1, <2>2, <2>4, <2>5 DEF ResultsInv
<1>4. CASE PageTick
  <2>1. time' = time + 1 /\ UNCHANGED <<results, expires>>
    BY <1>4 DEF PageTick
  <2>2. \A i \in 1..n : results[i].ts <= time'
    <3>1. \A i \in 1..n : results[i].ts <= time
      BY DEF ResultsInv
    <3> QED
      BY <1>1, <2>1, <3>1
  <2> QED
    BY <1>1, <2>1, <2>2 DEF ResultsInv
<1>5. CASE (\E v \in Visitor : Visit(v)) \/ UNCHANGED pageVars
  <2>1. UNCHANGED <<time, results, expires>>
    BY <1>5 DEF Visit, pageVars
  <2> QED
    BY <2>1 DEF ResultsInv
<1> QED
  BY <1>2, <1>3, <1>4, <1>5 DEF PageNext

\* An interval in its order.
LEMMA AscendingInterval ==
    ASSUME NEW a \in Int, NEW b \in Int, a <= b + 1
    PROVE  IsFiniteSet(a..b) /\ Ascending(a..b) = [i \in 1..(b - a + 1) |-> a + i - 1]
<1> DEFINE S == a..b
           R == {p \in S \X S : p[1] < p[2]}
           ahead(x) == {y \in S : <<y, x>> \in R}
<1>1. IsFiniteSet(a..b) /\ Cardinality(a..b) = b - a + 1
  <2>1. IsFiniteSet(a..b) /\ Cardinality(a..b) = IF a > b THEN 0 ELSE b - a + 1
    BY FS_Interval
  <2> QED
    BY <2>1
<1>2. \A x \in S : Cardinality(ahead(x)) = x - a
  <2> SUFFICES ASSUME NEW x \in S PROVE Cardinality(ahead(x)) = x - a
    OBVIOUS
  <2>1. ahead(x) = a..(x - 1)
    OBVIOUS
  <2>2. x - 1 \in Int /\ a <= x
    OBVIOUS
  <2>3. Cardinality(a..(x - 1)) = IF a > x - 1 THEN 0 ELSE x - 1 - a + 1
    BY <2>2, FS_Interval
  <2> HIDE DEF ahead
  <2> QED
    BY <2>1, <2>2, <2>3
<1>3. Ascending(S) = [i \in 1..(b - a + 1) |-> CHOOSE x \in S : Cardinality(ahead(x)) = i - 1]
  BY <1>1 DEF Ascending, Sorted
<1> HIDE DEF ahead
<1>4. ASSUME NEW i \in 1..(b - a + 1) PROVE (CHOOSE x \in S : Cardinality(ahead(x)) = i - 1) = a + i - 1
  <2> DEFINE y == CHOOSE x \in S : Cardinality(ahead(x)) = i - 1
  <2>1. a + i - 1 \in S /\ (a + i - 1) - a = i - 1
    OBVIOUS
  <2> HIDE DEF S
  <2>2. y \in S /\ Cardinality(ahead(y)) = i - 1
    BY <1>2, <2>1
  <2> HIDE DEF y
  <2>3. y - a = i - 1 /\ y \in Int
    BY <1>2, <2>2 DEF S
  <2> QED
    BY <2>3 DEF y
<1> QED
  BY <1>1, <1>3, <1>4

\* The rows of the query are the results of the period: the last ones.
RowsAre(k) ==
    /\ k \in 0..Len(results) /\ InPeriod = [i \in 1..(Len(results) - k) |-> results[i + k]]
    /\ \A j \in 1..Len(results) : results[j].ts >= Since <=> j > k

LEMMA SinceFacts ==
    ASSUME time \in Nat
    PROVE  /\ Since \in Int /\ Since <= time - WindowDays * Day /\ Since <= time - Day
           /\ time - WindowDays * Day \in Int /\ time - WindowDays * Day <= time - Day
           /\ time - ShowDays * Day \in Int
<1>1. Day \in Nat /\ Day > 0 /\ WindowDays \in Nat /\ WindowDays > 0 /\ ShowDays \in Nat /\ ShowDays > 0
  BY PageAssumption
<1>2. \A m \in Nat : m >= WindowDays => Day * m >= WindowDays * Day
  BY <1>1
<1>3. WindowDays * Day >= Day /\ WindowDays * Day \in Nat /\ ShowDays * Day \in Nat
  BY <1>1
<1> DEFINE m == IF ShowDays < WindowDays THEN WindowDays ELSE ShowDays
<1>4. m \in Nat /\ m >= WindowDays
  BY <1>1
<1>5. Since = time - Day * m
  BY DEF Since
<1>6. Day * m \in Nat /\ Day * m >= WindowDays * Day
  <2> HIDE DEF m
  <2> QED
    BY <1>1, <1>2, <1>4
<1> HIDE DEF m
<1> QED
  BY <1>1, <1>3, <1>5, <1>6

LEMMA PeriodRows == ASSUME ResultsInv PROVE \E k : RowsAre(k)
<1> DEFINE n == Len(results)
           late == {i \in DOMAIN results : results[i].ts >= Since}
           from == {i \in 1..(n + 1) : i = n + 1 \/ i \in late}
<1>1. n \in Nat /\ DOMAIN results = 1..n /\ \A i \in 1..n : results[i].ts \in Nat
  BY ResultTypes
<1>2. Since \in Int
  BY SinceFacts DEF ResultsInv
<1>3. from # {} /\ from \subseteq Nat
  <2>1. n + 1 \in 1..(n + 1)
    BY <1>1
  <2> QED
    BY <2>1
<1>4. PICK m \in from : \A i \in from : ~(<<i, m>> \in OpToRel(<, Nat))
  <2> HIDE DEF from
  <2> QED
    BY <1>3, NatLessThanWellFounded, WFMin
<1>5. m \in 1..(n + 1) /\ \A i \in 1..n : i \in late => m <= i
  <2>1. \A i \in from : i \in Nat /\ m \in Nat /\ ~(i < m)
    BY <1>3, <1>4 DEF OpToRel
  <2>2. \A i \in 1..n : i \in late => i \in from
    BY <1>1
  <2> HIDE DEF late
  <2> QED
    BY <1>1, <2>1, <2>2
<1> DEFINE k == m - 1
<1>6. \A j \in 1..n : j \in late <=> j > k
  <2> SUFFICES ASSUME NEW j \in 1..n PROVE j \in late <=> j > k
    OBVIOUS
  <2>1. j \in late => j > k
    BY <1>1, <1>5
  <2>2. ASSUME j > k PROVE j \in late
    <3>1. m \in late /\ m <= j /\ m \in 1..n
      BY <1>1, <1>5, <2>2
    <3>2. results[m].ts >= Since /\ (m < j => results[m].ts < results[j].ts)
      BY <1>1, <3>1 DEF ResultsInv
    <3>3. results[j].ts >= Since
      BY <1>1, <1>2, <3>1, <3>2
    <3> QED
      BY <1>1, <3>3
  <2> QED
    BY <2>1, <2>2
<1>7. late = m..n
  <2> HIDE DEF late
  <2>1. \A j \in late : j \in 1..n
    BY <1>1 DEF late
  <2>2. \A j : j \in m..n <=> j \in 1..n /\ j > k
    BY <1>1, <1>5
  <2> QED
    BY <1>6, <2>1, <2>2
<1>8. \A j \in 1..n : results[j].ts >= Since <=> j > k
  BY <1>1, <1>6
<1> HIDE DEF late
<1>9. InPeriod = At(results, m..n)
  BY <1>7 DEF InPeriod, late
<1>10. Ascending(m..n) = [i \in 1..(n - m + 1) |-> m + i - 1]
  <2>1. m \in Int /\ n \in Int /\ m <= n + 1
    BY <1>1, <1>5
  <2> HIDE DEF n
  <2> QED
    BY <2>1, AscendingInterval
<1>11. InPeriod = [i \in 1..(n - m + 1) |-> results[m + i - 1]]
  <2>1. DOMAIN Ascending(m..n) = 1..(n - m + 1) /\ \A i \in 1..(n - m + 1) : Ascending(m..n)[i] = m + i - 1
    BY <1>10
  <2> QED
    BY <1>9, <2>1 DEF At
<1>12. InPeriod = [i \in 1..(n - k) |-> results[i + k]]
  <2>1. n - m + 1 = n - k /\ \A i \in 1..(n - k) : m + i - 1 = i + k
    BY <1>1, <1>5
  <2> HIDE DEF k, n
  <2> QED
    BY <1>11, <2>1
<1>13. k \in 0..n
  BY <1>1, <1>5
<1> HIDE DEF k
<1> QED
  BY <1>8, <1>12, <1>13 DEF RowsAre

LEMMA RowFacts ==
    ASSUME ResultsInv, NEW k, RowsAre(k)
    PROVE  LET n == Len(results)  m == n - k IN
           /\ n \in Nat /\ k \in Nat /\ m \in Nat /\ DOMAIN InPeriod = 1..m /\ Len(InPeriod) = m
           /\ \A i \in 1..m : /\ i + k \in 1..n /\ InPeriod[i] = results[i + k] /\ results[i + k].ts >= Since
                              /\ InPeriod[i].ts \in Nat /\ InPeriod[i].up \in BOOLEAN
           /\ \A j \in 1..n : j > k => j - k \in 1..m /\ (j - k) + k = j /\ InPeriod[j - k] = results[j]
<1> DEFINE n == Len(results)  m == n - k
<1>1. n \in Nat /\ k \in 0..n /\ \A i \in 1..n : results[i].ts \in Nat /\ results[i].up \in BOOLEAN
  BY ResultTypes DEF RowsAre
<1>2. k \in Nat /\ m \in Nat
  BY <1>1
<1>3. InPeriod = [i \in 1..m |-> results[i + k]]
  BY DEF RowsAre
<1>4. DOMAIN InPeriod = 1..m /\ Len(InPeriod) = m
  <2> HIDE DEF m
  <2> QED
    BY <1>2, <1>3
<1>5. ASSUME NEW i \in 1..m
      PROVE  /\ i + k \in 1..n /\ InPeriod[i] = results[i + k] /\ results[i + k].ts >= Since
             /\ InPeriod[i].ts \in Nat /\ InPeriod[i].up \in BOOLEAN
  <2>1. i + k \in 1..n /\ i + k > k
    BY <1>1
  <2>2. InPeriod[i] = results[i + k]
    <3> HIDE DEF m
    <3> QED
      BY <1>3
  <2> HIDE DEF m, n
  <2> QED
    BY <1>1, <2>1, <2>2 DEF RowsAre, n
<1>6. ASSUME NEW j \in 1..n, j > k PROVE j - k \in 1..m /\ (j - k) + k = j /\ InPeriod[j - k] = results[j]
  <2>1. j - k \in 1..m /\ (j - k) + k = j
    BY <1>1, <1>6
  <2> QED
    BY <1>5, <2>1
<1> QED
  BY <1>1, <1>2, <1>4, <1>5, <1>6

\* The rows since a moment, and those of them that are up.
LateRows(rows, from) == {i \in DOMAIN rows : rows[i].ts >= from}
UpRows(rows, A) == {i \in A : rows[i].up}

LEMMA ShareFacts ==
    ASSUME NEW rows, NEW m \in Nat, DOMAIN rows = 1..m, NEW from
    PROVE  /\ IsFiniteSet(LateRows(rows, from)) /\ LateRows(rows, from) \in SUBSET (1..m)
           /\ Cardinality(LateRows(rows, from)) \in 0..m
           /\ Share(rows, from) = <<Cardinality(UpRows(rows, LateRows(rows, from))), Cardinality(LateRows(rows, from))>>
           /\ Full(Share(rows, from)) <=> \A i \in LateRows(rows, from) : rows[i].up
<1> DEFINE A == LateRows(rows, from)  B == UpRows(rows, A)
<1>1. IsFiniteSet(1..m) /\ Cardinality(1..m) = m
  <2>1. 1 \in Int /\ m \in Int
    OBVIOUS
  <2>2. IsFiniteSet(1..m) /\ Cardinality(1..m) = IF 1 > m THEN 0 ELSE m - 1 + 1
    BY <2>1, FS_Interval
  <2> QED
    BY <2>2
<1>2. A \in SUBSET (1..m) /\ B \in SUBSET A
  BY DEF LateRows, UpRows
<1>3. IsFiniteSet(A) /\ Cardinality(A) <= m
  <2> HIDE DEF A
  <2>1. IsFiniteSet(A) /\ Cardinality(A) <= Cardinality(1..m)
    BY <1>1, <1>2, FS_Subset
  <2> QED
    BY <1>1, <2>1
<1>4. Cardinality(A) \in Nat
  BY <1>3, FS_CardinalityType
<1>5. Cardinality(B) = Cardinality(A) => B = A
  <2> HIDE DEF A, B
  <2> QED
    BY <1>2, <1>3, FS_Subset
<1>6. Share(rows, from) = <<Cardinality(B), Cardinality(A)>>
  BY DEF Share, LateRows, UpRows
<1>7. B = A <=> \A i \in A : rows[i].up
  <2> HIDE DEF A
  <2> QED
    BY DEF UpRows
<1>8. Full(Share(rows, from)) <=> Cardinality(B) = Cardinality(A)
  BY <1>6 DEF Full
<1> HIDE DEF A, B
<1> QED
  BY <1>2, <1>3, <1>4, <1>5, <1>6, <1>7, <1>8 DEF A, B

\* The last day's figure is full only if no result of it is down.
LEMMA DayTold ==
    ASSUME ResultsInv, NEW k, RowsAre(k)
    PROVE  /\ Full(Share(InPeriod, time - Day)) <=>
                 \A i \in {j \in DOMAIN results : ~results[j].up} : results[i].ts < time - Day
           /\ Share(InPeriod, time - Day)[2] <= Share(InPeriod, time - WindowDays * Day)[2]
<1> DEFINE n == Len(results)  m == n - k  F == {j \in DOMAIN results : ~results[j].up}
<1>1. /\ n \in Nat /\ k \in Nat /\ m \in Nat /\ DOMAIN InPeriod = 1..m
      /\ \A i \in 1..m : /\ i + k \in 1..n /\ InPeriod[i] = results[i + k] /\ results[i + k].ts >= Since
                         /\ InPeriod[i].ts \in Nat /\ InPeriod[i].up \in BOOLEAN
      /\ \A j \in 1..n : j > k => j - k \in 1..m /\ (j - k) + k = j /\ InPeriod[j - k] = results[j]
  BY RowFacts
<1>2. DOMAIN results = 1..n /\ \A i \in 1..n : results[i].ts \in Nat /\ results[i].up \in BOOLEAN
  BY ResultTypes
<1>3. /\ time \in Nat /\ Since \in Int /\ Since <= time - Day /\ time - WindowDays * Day <= time - Day
      /\ time - WindowDays * Day \in Int /\ time - Day \in Int
  BY SinceFacts, PageAssumption DEF ResultsInv
<1> HIDE DEF m, n
<1>4. (\A i \in LateRows(InPeriod, time - Day) : InPeriod[i].up) <=> \A i \in F : results[i].ts < time - Day
  <2>1. ASSUME \A i \in LateRows(InPeriod, time - Day) : InPeriod[i].up, NEW j \in F, ~(results[j].ts < time - Day)
        PROVE  FALSE
    <3>1. j \in 1..n /\ results[j].ts >= time - Day /\ ~results[j].up /\ results[j].ts \in Nat
      BY <1>2, <1>3, <2>1
    <3>2. results[j].ts >= Since
      BY <1>3, <3>1
    <3>3. j > k
      BY <3>1, <3>2 DEF RowsAre, n
    <3>4. j - k \in 1..m /\ InPeriod[j - k] = results[j]
      BY <1>1, <3>1, <3>3
    <3>5. j - k \in LateRows(InPeriod, time - Day)
      BY <1>1, <3>1, <3>4 DEF LateRows
    <3> QED
      BY <2>1, <3>1, <3>4, <3>5
  <2>2. ASSUME \A i \in F : results[i].ts < time - Day, NEW i \in LateRows(InPeriod, time - Day)
        PROVE  InPeriod[i].up
    <3>1. i \in 1..m /\ InPeriod[i].ts >= time - Day
      BY <1>1 DEF LateRows
    <3>2. i + k \in 1..n /\ InPeriod[i] = results[i + k] /\ results[i + k].ts \in Nat
      BY <1>1, <1>2, <3>1
    <3>3. ~(results[i + k].ts < time - Day)
      BY <1>3, <3>1, <3>2
    <3> QED
      BY <1>2, <2>2, <3>2, <3>3
  <2> HIDE DEF F
  <2> QED
    BY <2>1, <2>2
<1>5. Full(Share(InPeriod, time - Day)) <=> \A i \in LateRows(InPeriod, time - Day) : InPeriod[i].up
  BY <1>1, ShareFacts
<1>6. Share(InPeriod, time - Day)[2] <= Share(InPeriod, time - WindowDays * Day)[2]
  <2> DEFINE A == LateRows(InPeriod, time - Day)  B == LateRows(InPeriod, time - WindowDays * Day)
  <2>1. A \in SUBSET B
    BY <1>1, <1>3 DEF LateRows
  <2>2. IsFiniteSet(B) /\ Share(InPeriod, time - Day)[2] = Cardinality(A)
        /\ Share(InPeriod, time - WindowDays * Day)[2] = Cardinality(B)
    BY <1>1, ShareFacts
  <2> HIDE DEF A, B
  <2> QED
    BY <2>1, <2>2, FS_Subset
<1> QED
  BY <1>4, <1>5, <1>6

\* The last incident is the last failure there is.
LEMMA IncidentTold ==
    ASSUME ResultsInv, NEW k, RowsAre(k), NEW down, down = {InPeriod[i].ts : i \in {j \in DOMAIN InPeriod : ~InPeriod[j].up}},
           down # {}
    PROVE  LET failures == {i \in DOMAIN results : ~results[i].up} IN
           \E i \in failures : results[i].ts = (CHOOSE t \in down : \A u \in down : u <= t) /\ \A j \in failures : j <= i
<1> DEFINE n == Len(results)  m == n - k  F == {i \in DOMAIN results : ~results[i].up}
           t == CHOOSE t \in down : \A u \in down : u <= t
<1>1. /\ n \in Nat /\ k \in Nat /\ m \in Nat /\ DOMAIN InPeriod = 1..m
      /\ \A i \in 1..m : /\ i + k \in 1..n /\ InPeriod[i] = results[i + k] /\ results[i + k].ts >= Since
                         /\ InPeriod[i].ts \in Nat /\ InPeriod[i].up \in BOOLEAN
      /\ \A j \in 1..n : j > k => j - k \in 1..m /\ (j - k) + k = j /\ InPeriod[j - k] = results[j]
  BY RowFacts
<1>2. DOMAIN results = 1..n /\ \A i \in 1..n : results[i].ts \in Nat /\ results[i].up \in BOOLEAN
  BY ResultTypes
<1>3. time \in Nat /\ \A i \in 1..n : results[i].ts <= time
  BY DEF ResultsInv
<1> HIDE DEF m, n
<1>4. ASSUME NEW u \in down PROVE u \in Nat /\ u <= time
  <2>1. PICK i \in 1..m : u = InPeriod[i].ts
    BY <1>1
  <2>2. InPeriod[i].ts \in Nat /\ i + k \in 1..n /\ InPeriod[i] = results[i + k]
    BY <1>1
  <2>3. results[i + k].ts <= time
    BY <1>3, <2>2
  <2> QED
    BY <2>1, <2>2, <2>3
<1>5. \E u \in down : \A v \in down : v <= u
  <2> DEFINE G == {time - u : u \in down}
  <2>1. G # {} /\ G \subseteq Nat
    BY <1>3, <1>4
  <2> HIDE DEF G
  <2>2. PICK g \in G : \A h \in G : ~(<<h, g>> \in OpToRel(<, Nat))
    BY <2>1, NatLessThanWellFounded, WFMin
  <2>3. PICK u \in down : g = time - u
    BY DEF G
  <2>4. ASSUME NEW v \in down PROVE v <= u
    <3>1. time - v \in G /\ time - v \in Nat /\ g \in Nat
      BY <2>1, <2>2 DEF G
    <3>2. ~(time - v < g)
      BY <2>2, <3>1 DEF OpToRel
    <3>3. u \in Nat /\ v \in Nat /\ ~(time - v < time - u)
      BY <1>4, <2>3, <3>2
    <3> QED
      BY <1>3, <3>3
  <2> QED
    BY <2>4
<1>6. t \in down /\ \A u \in down : u <= t
  BY <1>5
<1> HIDE DEF t
<1>7. PICK i \in 1..m : ~InPeriod[i].up /\ t = InPeriod[i].ts
  BY <1>1, <1>6
<1>8. i + k \in F /\ results[i + k].ts = t /\ i + k \in 1..n
  BY <1>1, <1>2, <1>7
<1>9. ASSUME NEW j \in F PROVE j <= i + k
  <2>1. j \in 1..n /\ ~results[j].up
    BY <1>2
  <2>2. CASE j > k
    <3>1. results[j].ts \in down
      <4>1. j - k \in 1..m /\ InPeriod[j - k] = results[j]
        BY <1>1, <2>1, <2>2
      <4> QED
        BY <1>1, <2>1, <4>1
    <3>2. results[j].ts <= t
      BY <1>6, <3>1
    <3>3. i + k < j => results[i + k].ts < results[j].ts
      BY <1>8, <2>1 DEF ResultsInv, n
    <3>4. results[j].ts \in Nat /\ t \in Nat
      BY <1>4, <1>6, <3>1
    <3>5. ~(t < results[j].ts)
      BY <3>2, <3>4
    <3>6. ~(i + k < j) /\ i + k \in Int /\ j \in Int
      BY <1>8, <2>1, <3>3, <3>5
    <3> QED
      BY <3>6
  <2>3. CASE ~(j > k)
    BY <1>1, <1>7, <2>1, <2>3
  <2> QED
    BY <2>2, <2>3
<1> HIDE DEF F
<1>10. results[i + k].ts = t /\ i + k \in F /\ \A j \in F : j <= i + k
  BY <1>8, <1>9
<1>11. \E l \in F : results[l].ts = t /\ \A j \in F : j <= l
  BY <1>10
<1> QED
  BY <1>11 DEF F, t

\* The incidents of a day's bucket are the outages that began on it.
OnDay(rows, day) ==
    {i \in DOMAIN rows : rows[i].ts >= time - ShowDays * Day /\ rows[i].ts \div Day = day}
NewOn(rows, day) == {i \in OnDay(rows, day) : NewIncident(rows, i)}
OutagesSince(rows) == {i \in DOMAIN rows : NewIncident(rows, i) /\ rows[i].ts >= time - ShowDays * Day}

LEMMA BucketFacts ==
    ASSUME NEW rows, NEW day
    PROVE  /\ Bucket(rows, day).incidents = Cardinality(NewOn(rows, day))
           /\ Bucket(rows, day).share = <<Cardinality(UpRows(rows, OnDay(rows, day))), Cardinality(OnDay(rows, day))>>
BY DEF Bucket, NewOn, OnDay, UpRows

\* The bars add up to the outages of their days, and a bar with one is not full.
LEMMA BarsTold ==
    ASSUME NEW rows, NEW m \in Nat, DOMAIN rows = 1..m, time \in Nat
    PROVE  /\ SumFunction([d \in BarDays |-> [e \in BarDays |-> Bucket(rows, e)][d].incidents])
                = Cardinality({i \in OutagesSince(rows) : rows[i].ts \div Day \in BarDays})
           /\ \A d \in BarDays : Bucket(rows, d).incidents > 0 => ~Full(Bucket(rows, d).share)
<1> DEFINE A == OutagesSince(rows)
           key == [i \in A |-> rows[i].ts \div Day]
           f == [d \in BarDays |-> [e \in BarDays |-> Bucket(rows, e)][d].incidents]
<1>1. IsFiniteSet(1..m)
  BY FS_Interval
<1>2. IsFiniteSet(A)
  <2>1. A \in SUBSET (1..m)
    BY DEF OutagesSince
  <2> HIDE DEF A
  <2> QED
    BY <1>1, <2>1, FS_Subset
<1>3. IsFiniteSet(BarDays)
  <2> DEFINE first == (time - ShowDays * Day) \div Day
  <2>1. time - ShowDays * Day \in Int /\ ShowDays \in Nat /\ Day \in Nat /\ Day > 0
    BY SinceFacts, PageAssumption
  <2>2. first \in Int
    <3> DEFINE x == time - ShowDays * Day
    <3>1. x \in Int
      BY <2>1
    <3> HIDE DEF x
    <3> QED
      BY <2>1, <3>1 DEF x
  <2>3. BarDays = first..(first + ShowDays - 1)
    BY DEF BarDays
  <2> HIDE DEF first
  <2>4. first + ShowDays - 1 \in Int
    BY <2>1, <2>2
  <2> QED
    BY <2>2, <2>3, <2>4, FS_Interval
<1>4. \A d \in BarDays : f[d] = Cardinality(WithKey(A, key, d))
  <2> SUFFICES ASSUME NEW d \in BarDays PROVE f[d] = Cardinality(WithKey(A, key, d))
    OBVIOUS
  <2>1. f[d] = Cardinality(NewOn(rows, d))
    BY BucketFacts
  <2>2. NewOn(rows, d) = WithKey(A, key, d)
    BY DEF NewOn, OnDay, WithKey, OutagesSince
  <2> QED
    BY <2>1, <2>2
<1>5. KeyedBy(A, key, BarDays) = {i \in OutagesSince(rows) : rows[i].ts \div Day \in BarDays}
  BY DEF KeyedBy
<1>6. SumFunction(f) = SumFunctionOnSet(f, BarDays)
  <2>1. DOMAIN f = BarDays
    OBVIOUS
  <2> HIDE DEF f
  <2> QED
    BY <2>1 DEF SumFunction
<1>7. SumFunctionOnSet(f, BarDays) = Cardinality(KeyedBy(A, key, BarDays))
  <2> HIDE DEF A, key, f
  <2> QED
    BY <1>2, <1>3, <1>4, SumOfParts
<1>8. ASSUME NEW d \in BarDays, Bucket(rows, d).incidents > 0 PROVE ~Full(Bucket(rows, d).share)
  <2> DEFINE D == OnDay(rows, d)  U == UpRows(rows, D)
  <2>1. NewOn(rows, d) # {}
    <3> SUFFICES ASSUME NewOn(rows, d) = {} PROVE FALSE
      OBVIOUS
    <3>1. Cardinality({}) = 0
      BY FS_EmptySet
    <3>2. Bucket(rows, d).incidents = Cardinality(NewOn(rows, d))
      BY BucketFacts
    <3>3. Bucket(rows, d).incidents = 0
      BY <3>1, <3>2
    <3> QED
      BY <1>8, <3>3
  <2>2. PICK i \in NewOn(rows, d) : TRUE
    BY <2>1
  <2>3. i \in D /\ ~rows[i].up
    BY DEF NewOn, NewIncident
  <2>4. i \notin U /\ U \in SUBSET D /\ D \in SUBSET (1..m)
    BY <2>3 DEF UpRows, OnDay
  <2>5. Full(Bucket(rows, d).share) <=> Cardinality(U) = Cardinality(D)
    BY BucketFacts DEF Full
  <2> HIDE DEF D, U
  <2>6. IsFiniteSet(D)
    BY <1>1, <2>4, FS_Subset
  <2>7. Cardinality(U) # Cardinality(D)
    BY <2>3, <2>4, <2>6, FS_Subset
  <2> QED
    BY <2>5, <2>7
<1> QED
  BY <1>5, <1>6, <1>7, <1>8

\* Moved positions are as many.
Moved(A, k) == {i + k : i \in A}
LEMMA MovedCounts ==
    ASSUME NEW A \in SUBSET Nat, IsFiniteSet(A), NEW k \in Nat
    PROVE  IsFiniteSet(Moved(A, k)) /\ Cardinality(Moved(A, k)) = Cardinality(A)
<1> DEFINE B == Moved(A, k)  g == [i \in A |-> i + k]
<1>1. \A i, j \in A : i + k = j + k => i = j
  OBVIOUS
<1>2. (\A i \in A : i + k \in B) /\ \A b \in B : \E i \in A : i + k = b
  BY DEF Moved
<1> HIDE DEF B
<1>3. g \in Bijection(A, B)
  BY <1>1, <1>2 DEF Bijection, Injection, Surjection, IsInjective
<1> HIDE DEF g
<1>4. IsFiniteSet(B) /\ Cardinality(B) = Cardinality(A)
  BY <1>3, FS_Bijection DEF ExistsBijection
<1> QED
  BY <1>4 DEF B

\* The weekly report has the same uptime for the same period.
LEMMA ReportTold ==
    ASSUME ResultsInv, NEW k, RowsAre(k), Len(InPeriod) <= RowLimit
    PROVE  buildChecksSummary(time - WindowDays * Day) = {Share(InPeriod, time - WindowDays * Day)}
<1> DEFINE n == Len(results)  m == n - k  from == time - WindowDays * Day
           found == {i \in DOMAIN results : from <= results[i].ts /\ results[i].ts <= time}
           A == LateRows(InPeriod, from)  U == UpRows(InPeriod, A)
           size == IF Cardinality(found) < RowLimit THEN Cardinality(found) ELSE RowLimit
           returned == {b \in SUBSET found : Cardinality(b) = size}
<1>1. /\ n \in Nat /\ k \in Nat /\ m \in Nat /\ DOMAIN InPeriod = 1..m /\ Len(InPeriod) = m
      /\ \A i \in 1..m : /\ i + k \in 1..n /\ InPeriod[i] = results[i + k] /\ results[i + k].ts >= Since
                         /\ InPeriod[i].ts \in Nat /\ InPeriod[i].up \in BOOLEAN
      /\ \A j \in 1..n : j > k => j - k \in 1..m /\ (j - k) + k = j /\ InPeriod[j - k] = results[j]
  BY RowFacts
<1>2. DOMAIN results = 1..n /\ \A i \in 1..n : results[i].ts \in Nat /\ results[i].ts <= time
  BY ResultTypes DEF ResultsInv
<1>3. time \in Nat /\ Since \in Int /\ from \in Int /\ Since <= from
  BY SinceFacts DEF ResultsInv
<1> HIDE DEF from, m, n
<1>4. /\ IsFiniteSet(A) /\ A \in SUBSET (1..m) /\ Cardinality(A) \in 0..m
      /\ Share(InPeriod, from) = <<Cardinality(U), Cardinality(A)>>
  BY <1>1, ShareFacts
<1>5. found = Moved(A, k)
  <2>1. ASSUME NEW j \in found PROVE j \in Moved(A, k)
    <3>1. j \in 1..n /\ results[j].ts >= from /\ results[j].ts \in Nat
      BY <1>2, <1>3
    <3>2. results[j].ts >= Since
      BY <1>3, <3>1
    <3>3. j > k
      BY <3>1, <3>2 DEF RowsAre, n
    <3>4. j - k \in 1..m /\ (j - k) + k = j /\ InPeriod[j - k] = results[j]
      BY <1>1, <3>1, <3>3
    <3>5. j - k \in A
      BY <1>1, <3>1, <3>4 DEF LateRows
    <3> QED
      BY <3>4, <3>5 DEF Moved
  <2>2. ASSUME NEW i \in A PROVE i + k \in found
    <3>1. i \in 1..m /\ InPeriod[i].ts >= from
      BY <1>1 DEF LateRows
    <3>2. i + k \in 1..n /\ results[i + k].ts >= from
      BY <1>1, <3>1
    <3> QED
      BY <1>2, <1>3, <3>2
  <2> HIDE DEF A, found
  <2> QED
    BY <2>1, <2>2 DEF Moved
<1>6. {j \in found : results[j].up} = Moved(U, k)
  <2>1. \A i \in A : InPeriod[i] = results[i + k]
    BY <1>1, <1>4
  <2> HIDE DEF A, found
  <2> QED
    BY <1>5, <2>1 DEF UpRows, Moved
<1>7. A \in SUBSET Nat /\ U \in SUBSET A /\ U \in SUBSET Nat /\ IsFiniteSet(U)
  <2>1. A \in SUBSET Nat
    BY <1>1, <1>4
  <2>2. U \in SUBSET A
    BY DEF UpRows
  <2> HIDE DEF A, U
  <2> QED
    BY <1>4, <2>1, <2>2, FS_Subset
<1>8. /\ IsFiniteSet(found) /\ Cardinality(found) = Cardinality(A)
      /\ Cardinality({j \in found : results[j].up}) = Cardinality(U)
  <2> DEFINE good == {j \in found : results[j].up}
  <2>1. good = Moved(U, k)
    BY <1>6
  <2> HIDE DEF A, U, found, good
  <2>2. IsFiniteSet(found) /\ Cardinality(found) = Cardinality(A)
    BY <1>1, <1>4, <1>5, <1>7, MovedCounts
  <2>3. Cardinality(good) = Cardinality(U)
    BY <1>1, <1>7, <2>1, MovedCounts
  <2> QED
    BY <2>2, <2>3 DEF good
<1>9. size = Cardinality(found)
  <2>1. Cardinality(A) \in Nat /\ Cardinality(A) <= RowLimit /\ RowLimit \in Nat
    BY <1>1, <1>4, PageAssumption
  <2> HIDE DEF A, found
  <2> QED
    BY <1>8, <2>1
<1>10. returned = {found}
  <2> HIDE DEF found, size
  <2>1. \A b \in SUBSET found : Cardinality(b) = size => b = found
    BY <1>8, <1>9, FS_Subset
  <2> QED
    BY <1>9, <2>1
<1>11. buildChecksSummary(from) = {<<Cardinality({i \in b : results[i].up}), Cardinality(b)>> : b \in returned}
  BY DEF buildChecksSummary
<1>12. buildChecksSummary(from) = {<<Cardinality({i \in found : results[i].up}), Cardinality(found)>>}
  <2> HIDE DEF found, returned
  <2> QED
    BY <1>10, <1>11
<1>13. buildChecksSummary(from) = {Share(InPeriod, from)}
  <2> HIDE DEF found, A, U
  <2> QED
    BY <1>4, <1>8, <1>12
<1> QED
  BY <1>13 DEF from

\* The banner is "down" exactly if the check or the agent is.
LEMMA BannerTold ==
    ASSUME ResultsInv, NEW s \in Standing
    PROVE  overallStatus({CheckStatus, AgentStatus(s)}) = "down"
              <=> s = "offline" \/ (results # <<>> /\ ~Last(results).up)
<1> DEFINE All == {"unknown", "down", "degraded", "operational"}
           c == CheckStatus  a == AgentStatus(s)
           best == CHOOSE b \in {c, a} : \A i \in {c, a} : StatusRank[i] <= StatusRank[b]
<1>1. c \in All /\ (c = "down" <=> results # <<>> /\ ~Last(results).up)
  BY DEF CheckStatus
<1>2. a \in All /\ (a = "down" <=> s = "offline")
  BY DEF AgentStatus, Standing
<1>3. /\ StatusRank["unknown"] = 1 /\ StatusRank["down"] = 3 /\ StatusRank["degraded"] = 2
      /\ StatusRank["operational"] = 0
  BY DEF StatusRank
<1>4. overallStatus({c, a}) = best
  <2> HIDE DEF c, a
  <2> QED
    BY DEF overallStatus
<1> HIDE DEF c, a
<1>5. \A x \in All : StatusRank[x] \in Int /\ StatusRank[x] <= 3 /\ (StatusRank[x] = 3 <=> x = "down")
  BY <1>3
<1> HIDE DEF All
<1>6. \E b \in {c, a} : \A i \in {c, a} : StatusRank[i] <= StatusRank[b]
  BY <1>1, <1>2, <1>5
<1>7. best \in {c, a} /\ \A i \in {c, a} : StatusRank[i] <= StatusRank[best]
  BY <1>6
<1> HIDE DEF best
<1>8. best = "down" <=> c = "down" \/ a = "down"
  BY <1>1, <1>2, <1>5, <1>7
<1> QED
  BY <1>1, <1>2, <1>4, <1>8 DEF c, a

LEMMA PageTold == ResultsInv => PageTellsTruth
<1> SUFFICES ASSUME ResultsInv, Len(InPeriod) <= RowLimit
             PROVE  LET m == computeCheckMetrics
                        failures == {i \in DOMAIN results : ~results[i].up} IN
                    /\ Full(m.day) <=> \A i \in failures : results[i].ts < time - Day
                    /\ m.day[2] <= m.all[2]
                    /\ m.lastIncident # <<>> => \E i \in failures : results[i].ts = m.lastIncident[1]
                                                   /\ \A j \in failures : j <= i
                    /\ SumFunction([d \in BarDays |-> m.daily[d].incidents])
                         = Cardinality({i \in Outages : InPeriod[i].ts >= time - ShowDays * Day
                                                        /\ InPeriod[i].ts \div Day \in BarDays})
                    /\ \A d \in BarDays : m.daily[d].incidents > 0 => ~Full(m.daily[d].share)
                    /\ buildChecksSummary(time - WindowDays * Day) = {m.all}
                    /\ \A s \in Standing :
                         overallStatus({CheckStatus, AgentStatus(s)}) = "down"
                             <=> s = "offline" \/ (results # <<>> /\ ~Last(results).up)
  BY DEF PageTellsTruth
<1> DEFINE m == computeCheckMetrics  failures == {i \in DOMAIN results : ~results[i].up}
           down == {InPeriod[i].ts : i \in {j \in DOMAIN InPeriod : ~InPeriod[j].up}}
<1>1. PICK k : RowsAre(k)
  BY PeriodRows
<1>2. Queried = InPeriod
  <2>1. Len(InPeriod) \in Nat
    BY <1>1, RowFacts
  <2> QED
    BY <2>1, PageAssumption DEF Queried
<1>3. /\ m.day = Share(InPeriod, time - Day) /\ m.all = Share(InPeriod, time - WindowDays * Day)
      /\ m.daily = [e \in BarDays |-> Bucket(InPeriod, e)]
      /\ m.lastIncident = IF down = {} THEN <<>> ELSE <<CHOOSE t \in down : \A u \in down : u <= t>>
  BY <1>2 DEF computeCheckMetrics
<1> HIDE DEF m
<1>4. (Full(m.day) <=> \A i \in failures : results[i].ts < time - Day) /\ m.day[2] <= m.all[2]
  BY <1>1, <1>3, DayTold
<1>5. ASSUME m.lastIncident # <<>>
      PROVE  \E i \in failures : results[i].ts = m.lastIncident[1] /\ \A j \in failures : j <= i
  <2> DEFINE d2 == down
  <2> DEFINE last == CHOOSE t \in d2 : \A u \in d2 : u <= t
  <2>1. d2 # {} /\ m.lastIncident[1] = last
    <3>1. m.lastIncident = IF d2 = {} THEN <<>> ELSE <<last>>
      BY <1>3
    <3> HIDE DEF d2, last
    <3> QED
      BY <1>5, <3>1
  <2>2. d2 = {InPeriod[i].ts : i \in {j \in DOMAIN InPeriod : ~InPeriod[j].up}}
    OBVIOUS
  <2> HIDE DEF d2
  <2>3. \E i \in failures : results[i].ts = last /\ \A j \in failures : j <= i
    BY <1>1, <2>1, <2>2, IncidentTold DEF last
  <2> HIDE DEF failures, last, d2
  <2> QED
    BY <2>1, <2>3
<1>6. time \in Nat /\ \E l \in Nat : DOMAIN InPeriod = 1..l
  BY <1>1, RowFacts DEF ResultsInv
<1>7. {i \in Outages : InPeriod[i].ts >= time - ShowDays * Day /\ InPeriod[i].ts \div Day \in BarDays}
        = {i \in OutagesSince(InPeriod) : InPeriod[i].ts \div Day \in BarDays}
  BY DEF Outages, OutagesSince, NewIncident
<1>8. SumFunction([d \in BarDays |-> m.daily[d].incidents])
        = Cardinality({i \in OutagesSince(InPeriod) : InPeriod[i].ts \div Day \in BarDays})
  BY <1>3, <1>6, BarsTold
<1>9. \A d \in BarDays : m.daily[d].incidents > 0 => ~Full(m.daily[d].share)
  BY <1>3, <1>6, BarsTold
<1>10. buildChecksSummary(time - WindowDays * Day) = {m.all}
  BY <1>1, <1>3, ReportTold
<1> HIDE DEF failures
<1>11. \A s \in Standing : overallStatus({CheckStatus, AgentStatus(s)}) = "down"
                             <=> s = "offline" \/ (results # <<>> /\ ~Last(results).up)
  BY BannerTold
<1> QED
  BY <1>4, <1>5, <1>7, <1>8, <1>9, <1>10, <1>11 DEF m, failures

\* What visitors get: their share of requests, and a page that does not gloss over an
\* outage, for any results, limits and lengths of the windows (VisitsCounted, PageTellsTruth).
THEOREM PageHoldsAlways == PageSpec => []PageHolds
<1>1. PageInit(PageParts) => ResultsInv
  <2> SUFFICES ASSUME PageInit(PageParts) PROVE ResultsInv
    OBVIOUS
  <2>1. time = 0 /\ results = <<>> /\ expires \in BOOLEAN
    BY DEF PageInit
  <2> QED
    BY <2>1 DEF ResultsInv
<1>2. PageSpec => []PageTellsTruth
  BY <1>1, ResultsKeep, PageTold, PTL DEF PageSpec
<1>3. VisitsCounted /\ PageTellsTruth => PageHolds
  BY DEF PageHolds
<1> QED
  BY <1>2, <1>3, VisitsCountedAlways, PTL
-----------------------------------------------------------------------------
(* The downtime of a host *)

\* Is a moment in one of the intervals of a sequence; do these follow each other with gaps.
InSome(m, t) == \E i \in 1..Len(m) : m[i][1] <= t /\ t < m[i][2]
Separate(m) ==
    /\ m \in Seq(Int \X Int)
    /\ \A i \in 1..Len(m) : m[i][1] <= m[i][2]
    /\ \A i, j \in 1..Len(m) : i < j => m[i][2] < m[j][1]

\* The moments of a window in one interval, in one of a sequence.
Inside(iv, from, to) == {t \in from..(to - 1) : iv[1] <= t /\ t < iv[2]}
InsideSome(m, from, to) == {t \in from..(to - 1) : InSome(m, t)}

LEMMA OverlapCounts ==
    ASSUME NEW iv \in Int \X Int, NEW from \in Int, NEW to \in Int
    PROVE  Overlap(iv, from, to) = Cardinality(Inside(iv, from, to))
<1> DEFINE start == IF iv[1] < from THEN from ELSE iv[1]
           end == IF iv[2] > to THEN to ELSE iv[2]
<1>1. start \in Int /\ end \in Int /\ iv[1] \in Int /\ iv[2] \in Int
  OBVIOUS
<1>2. Inside(iv, from, to) = start..(end - 1)
  <2>1. \A t \in Int : from <= t /\ t <= to - 1 /\ iv[1] <= t /\ t < iv[2] <=> start <= t /\ t <= end - 1
    BY <1>1
  <2> HIDE DEF start, end
  <2> QED
    BY <1>1, <2>1 DEF Inside
<1>3. Overlap(iv, from, to) = IF end > start THEN end - start ELSE 0
  BY DEF Overlap
<1> HIDE DEF start, end
<1>4. end - 1 \in Int
  BY <1>1
<1>5. Cardinality(start..(end - 1)) = IF start > end - 1 THEN 0 ELSE (end - 1) - start + 1
  BY <1>1, <1>4, FS_Interval
<1> QED
  BY <1>1, <1>2, <1>3, <1>5

\* Of intervals with gaps between them, every moment is in one only.
LEMMA DowntimeCounts ==
    ASSUME NEW m, Separate(m), NEW from \in Int, NEW to \in Int
    PROVE  Downtime(m, from, to) = Cardinality(InsideSome(m, from, to))
<1> DEFINE A == InsideSome(m, from, to)
           key == [t \in A |-> CHOOSE i \in 1..Len(m) : m[i][1] <= t /\ t < m[i][2]]
           f == [i \in DOMAIN m |-> Overlap(m[i], from, to)]
           D == 1..Len(m)
<1>1. /\ Len(m) \in Nat /\ DOMAIN m = D
      /\ \A i \in D : m[i] \in Int \X Int /\ m[i][1] \in Int /\ m[i][2] \in Int /\ m[i][1] <= m[i][2]
      /\ \A i, j \in D : i < j => m[i][2] < m[j][1]
  BY DEF Separate
<1>2. IsFiniteSet(A)
  <2>1. A \in SUBSET (from..(to - 1)) /\ IsFiniteSet(from..(to - 1))
    <3>1. to - 1 \in Int
      OBVIOUS
    <3> QED
      BY <3>1, FS_Interval DEF InsideSome
  <2> HIDE DEF A
  <2> QED
    BY <2>1, FS_Subset
<1>3. IsFiniteSet(D)
  BY <1>1, FS_Interval
<1>4. \A i \in D : f[i] = Cardinality(WithKey(A, key, i))
  <2> SUFFICES ASSUME NEW i \in D PROVE f[i] = Cardinality(WithKey(A, key, i))
    OBVIOUS
  <2>1. f[i] = Cardinality(Inside(m[i], from, to))
    BY <1>1, OverlapCounts
  <2>2. ASSUME NEW t \in A PROVE key[t] = i <=> m[i][1] <= t /\ t < m[i][2]
    <3>1. t \in Int /\ \E j \in D : m[j][1] <= t /\ t < m[j][2]
      BY DEF InsideSome, InSome
    <3>2. PICK k \in D : k = key[t] /\ m[k][1] <= t /\ t < m[k][2]
      BY <3>1
    <3> HIDE DEF A, key
    <3>3. i = k \/ i < k \/ k < i
      BY <1>1
    <3>4. ASSUME m[i][1] <= t, t < m[i][2] PROVE ~(i < k) /\ ~(k < i)
      <4>1. i < k => m[i][2] < m[k][1]
        BY <1>1
      <4>2. k < i => m[k][2] < m[i][1]
        BY <1>1
      <4>3. m[i][1] \in Int /\ m[i][2] \in Int /\ m[k][1] \in Int /\ m[k][2] \in Int
        BY <1>1
      <4> QED
        BY <3>1, <3>2, <3>4, <4>1, <4>2, <4>3
    <3> QED
      BY <3>2, <3>3, <3>4
  <2>3. WithKey(A, key, i) = Inside(m[i], from, to)
    <3>1. A = {t \in from..(to - 1) : InSome(m, t)}
      BY DEF InsideSome
    <3>2. \A t : m[i][1] <= t /\ t < m[i][2] => InSome(m, t)
      BY DEF InSome
    <3> HIDE DEF A, key
    <3> QED
      BY <2>2, <3>1, <3>2 DEF WithKey, Inside
  <2> QED
    BY <2>1, <2>3
<1>5. KeyedBy(A, key, D) = A
  <2>1. ASSUME NEW t \in A PROVE key[t] \in D
    <3>1. \E j \in D : m[j][1] <= t /\ t < m[j][2]
      BY DEF InsideSome, InSome
    <3> QED
      BY <3>1
  <2> HIDE DEF A, key
  <2> QED
    BY <2>1 DEF KeyedBy
<1>6. Downtime(m, from, to) = SumFunctionOnSet(f, D)
  <2>1. DOMAIN f = D
    BY <1>1
  <2>2. Downtime(m, from, to) = SumFunction(f)
    BY DEF Downtime
  <2> HIDE DEF f
  <2> QED
    BY <2>1, <2>2 DEF SumFunction
<1> HIDE DEF A, key, f, D
<1>7. SumFunctionOnSet(f, D) = Cardinality(KeyedBy(A, key, D))
  BY <1>2, <1>3, <1>4, SumOfParts
<1> QED
  BY <1>5, <1>6, <1>7 DEF A

\* One interval more that begins no earlier than the last one.
LEMMA JoinType ==
    ASSUME NEW m \in Seq(Int \X Int), NEW cur \in Int \X Int
    PROVE  Join(m, cur) \in Seq(Int \X Int)
<1>1. CASE m = <<>>
  BY <1>1 DEF Join
<1>2. CASE m # <<>>
  <2>1. Len(m) \in Nat /\ Len(m) >= 1 /\ Last(m) = m[Len(m)] /\ m[Len(m)] \in Int \X Int
    BY <1>2 DEF Last
  <2>2. Front(m) \in Seq(Int \X Int)
    BY <2>1 DEF Front
  <2>3. <<Last(m)[1], cur[2]>> \in Int \X Int
    BY <2>1
  <2> QED
    BY <2>2, <2>3, AppendProperties DEF Join
<1> QED
  BY <1>1, <1>2

LEMMA JoinFacts ==
    ASSUME NEW m, Separate(m), NEW cur \in Int \X Int, cur[1] <= cur[2],
           m # <<>> => Last(m)[1] <= cur[1]
    PROVE  LET j == Join(m, cur) IN
           /\ Separate(j) /\ j # <<>> /\ Last(j)[1] <= cur[1]
           /\ \A t \in Int : InSome(j, t) <=> InSome(m, t) \/ (cur[1] <= t /\ t < cur[2])
<1> DEFINE n == Len(m)
<1>1. /\ n \in Nat /\ m \in Seq(Int \X Int) /\ (m = <<>> <=> n = 0)
      /\ \A i \in 1..n : m[i] \in Int \X Int /\ m[i][1] \in Int /\ m[i][2] \in Int /\ m[i][1] <= m[i][2]
      /\ \A i, j \in 1..n : i < j => m[i][2] < m[j][1]
      /\ cur[1] \in Int /\ cur[2] \in Int
  BY DEF Separate
<1>2. CASE ~(m # <<>> /\ cur[1] <= Last(m)[2])
  <2> DEFINE j == Append(m, cur)
  <2>1. Join(m, cur) = j
    BY <1>2 DEF Join
  <2>2. j \in Seq(Int \X Int) /\ Len(j) = n + 1 /\ j[n + 1] = cur /\ \A i \in 1..n : j[i] = m[i]
    BY <1>1
  <2> HIDE DEF j, n
  <2>3. \A i \in 1..n : m[i][2] < cur[1]
    <3> SUFFICES ASSUME NEW i \in 1..n PROVE m[i][2] < cur[1]
      OBVIOUS
    <3>1. m # <<>> /\ Last(m) = m[n] /\ n \in 1..n
      BY <1>1 DEF Last, n
    <3>2. ~(cur[1] <= m[n][2])
      BY <1>2, <3>1
    <3>3. m[n][2] < cur[1] /\ m[n][1] <= m[n][2] /\ m[n][1] \in Int /\ m[n][2] \in Int
      BY <1>1, <3>1, <3>2
    <3>4. i = n \/ (i < n /\ m[i][2] < m[n][1])
      <4>1. i = n \/ i < n
        BY <1>1
      <4>2. i < n => m[i][2] < m[n][1]
        BY <1>1, <3>1
      <4> QED
        BY <4>1, <4>2
    <3>5. m[i][2] \in Int
      BY <1>1
    <3> QED
      BY <1>1, <3>3, <3>4, <3>5
  <2>4. ASSUME NEW i \in 1..(n + 1) PROVE (i \in 1..n /\ j[i] = m[i]) \/ (i = n + 1 /\ j[i] = cur)
    BY <1>1, <2>2
  <2>5. \A i \in 1..(n + 1) : j[i][1] <= j[i][2]
    BY <1>1, <2>4
  <2>6. ASSUME NEW i \in 1..(n + 1), NEW k \in 1..(n + 1), i < k PROVE j[i][2] < j[k][1]
    <3>1. i \in 1..n
      BY <1>1, <2>6
    <3>2. CASE k \in 1..n
      <4>1. j[i] = m[i] /\ j[k] = m[k] /\ m[i][2] < m[k][1]
        BY <1>1, <2>2, <2>6, <3>1, <3>2
      <4> QED
        BY <4>1
    <3>3. CASE k = n + 1
      BY <2>2, <2>3, <3>1, <3>3
    <3> QED
      BY <1>1, <3>2, <3>3
  <2>7. Separate(j)
    BY <2>2, <2>5, <2>6 DEF Separate
  <2>8. j # <<>> /\ Last(j) = cur
    BY <1>1, <2>2 DEF Last
  <2>9. \A t \in Int : InSome(j, t) <=> InSome(m, t) \/ (cur[1] <= t /\ t < cur[2])
    <3>1. \A i : i \in 1..Len(j) <=> i \in 1..n \/ i = n + 1
      BY <1>1, <2>2
    <3> QED
      BY <2>2, <3>1 DEF InSome, n
  <2> QED
    BY <1>1, <2>1, <2>7, <2>8, <2>9
<1>3. CASE m # <<>> /\ cur[1] <= Last(m)[2]
  <2>1. n \in 1..n /\ Last(m) = m[n] /\ m[n][1] <= cur[1] /\ cur[1] <= m[n][2]
    BY <1>1, <1>3 DEF Last
  <2>2. CASE ~(cur[2] > m[n][2])
    <3>1. Join(m, cur) = m
      BY <1>3, <2>1, <2>2 DEF Join
    <3>2. \A t \in Int : cur[1] <= t /\ t < cur[2] => m[n][1] <= t /\ t < m[n][2]
      BY <1>1, <2>1, <2>2
    <3>3. \A t \in Int : cur[1] <= t /\ t < cur[2] => InSome(m, t)
      BY <2>1, <3>2 DEF InSome
    <3> QED
      BY <1>3, <2>1, <3>1, <3>3
  <2>3. CASE cur[2] > m[n][2]
    <3> DEFINE last == <<m[n][1], cur[2]>>  j == Append(Front(m), last)
    <3>1. Join(m, cur) = j
      BY <1>3, <2>1, <2>3 DEF Join
    <3>2. last \in Int \X Int /\ last[1] = m[n][1] /\ last[2] = cur[2]
      BY <1>1, <2>1
    <3> HIDE DEF last
    <3>3. Front(m) \in Seq(Int \X Int) /\ Len(Front(m)) = n - 1 /\ \A i \in 1..(n - 1) : Front(m)[i] = m[i]
      <4>1. Front(m) = SubSeq(m, 1, n - 1) /\ n - 1 \in Nat /\ n - 1 <= Len(m)
        BY <1>1, <2>1 DEF Front
      <4> HIDE DEF n
      <4>2. SubSeq(m, 1, n - 1) \in Seq(Int \X Int) /\ Len(SubSeq(m, 1, n - 1)) = n - 1
            /\ \A i \in 1..(n - 1) : SubSeq(m, 1, n - 1)[i] = m[i]
        BY <1>1, <4>1
      <4> QED
        BY <4>1, <4>2
    <3>4. j \in Seq(Int \X Int) /\ Len(j) = n /\ j[n] = last /\ \A i \in 1..(n - 1) : j[i] = m[i]
      <4> DEFINE fr == Front(m)
      <4>1. fr \in Seq(Int \X Int) /\ Len(fr) = n - 1 /\ \A i \in 1..(n - 1) : fr[i] = m[i]
        BY <3>3
      <4> HIDE DEF fr, n
      <4> QED
        BY <1>1, <2>1, <3>2, <4>1, AppendProperties DEF fr
    <3> HIDE DEF j, n
    <3>5. ASSUME NEW i \in 1..n PROVE (i \in 1..(n - 1) /\ i < n /\ j[i] = m[i]) \/ (i = n /\ j[i] = last)
      <4>1. i = n \/ (i \in 1..(n - 1) /\ i < n)
        BY <1>1, <2>1
      <4> QED
        BY <3>4, <4>1
    <3>6. last[1] <= last[2]
      BY <1>1, <2>1, <2>3, <3>2
    <3>7. \A i \in 1..n : j[i][1] <= j[i][2]
      BY <1>1, <3>5, <3>6
    <3>8. ASSUME NEW i \in 1..n, NEW k \in 1..n, i < k PROVE j[i][2] < j[k][1]
      <4>1. i # n /\ j[i] = m[i] /\ m[i][2] < m[k][1]
        BY <1>1, <3>5, <3>8
      <4>2. j[k][1] = m[k][1]
        BY <3>2, <3>5
      <4> QED
        BY <4>1, <4>2
    <3>9. Separate(j)
      BY <3>4, <3>7, <3>8 DEF Separate
    <3>10. j # <<>> /\ Last(j) = last
      BY <1>1, <2>1, <3>4 DEF Last
    <3>11. \A t \in Int : last[1] <= t /\ t < last[2]
                            <=> (m[n][1] <= t /\ t < m[n][2]) \/ (cur[1] <= t /\ t < cur[2])
      BY <1>1, <2>1, <2>3, <3>2
    <3>12. \A t \in Int : InSome(j, t) <=> InSome(m, t) \/ (cur[1] <= t /\ t < cur[2])
      <4>1. \A i : i \in 1..n <=> i \in 1..(n - 1) \/ i = n
        BY <1>1, <2>1
      <4> QED
        BY <3>4, <3>11, <4>1 DEF InSome, n
    <3> QED
      BY <2>1, <3>1, <3>2, <3>9, <3>10, <3>12
  <2> QED
    BY <2>2, <2>3
<1> QED
  BY <1>2, <1>3

\* All intervals, in the order of their beginnings.
LEMMA JoinedFacts ==
    ASSUME NEW s \in Seq(Int \X Int), \A i \in 1..Len(s) : s[i][1] <= s[i][2],
           \A i, j \in 1..Len(s) : i < j => s[i][1] <= s[j][1]
    PROVE  Separate(Joined(s)) /\ \A t \in Int : InSome(Joined(s), t) <=> InSome(s, t)
<1> DEFINE L == Len(s)
           V == Seq(Int \X Int)
           Is(f) == f = [n \in 0..L |-> IF n = 0 THEN <<>> ELSE Join(f[n - 1], s[n])]
           u == CHOOSE f : Is(f)
<1>1. L \in Nat /\ (\A i \in 1..L : s[i] \in Int \X Int)
      /\ (\A i \in 1..L : s[i][1] <= s[i][2]) /\ \A i, j \in 1..L : i < j => s[i][1] <= s[j][1]
  OBVIOUS
<1>2. Joined(s) = u[L]
  BY DEF Joined
<1> HIDE DEF L
<1>3. \E f : Is(f)
  <2> DEFINE step == [p \in Nat \X V |-> IF p[1] + 1 \in 1..L THEN Join(p[2], s[p[1] + 1]) ELSE p[2]]
  <2>1. step \in [Nat \X V -> V]
    <3> SUFFICES ASSUME NEW p \in Nat \X V
                 PROVE  (IF p[1] + 1 \in 1..L THEN Join(p[2], s[p[1] + 1]) ELSE p[2]) \in V
      OBVIOUS
    <3>1. p[2] \in V
      OBVIOUS
    <3>2. ASSUME p[1] + 1 \in 1..L PROVE Join(p[2], s[p[1] + 1]) \in V
      BY <1>1, <3>1, <3>2, JoinType
    <3> HIDE DEF V
    <3> QED
      BY <3>1, <3>2
  <2>2. <<>> \in V
    OBVIOUS
  <2>3. \A n \in Nat, m \in V : n + 1 \in 1..L => step[<<n, m>>] = Join(m, s[n + 1])
    <3> HIDE DEF V
    <3> QED
      OBVIOUS
  <2> HIDE DEF V, step
  <2>4. PICK g : Unfolds(g, V, <<>>, step)
    BY <2>1, <2>2, Iterates
  <2>5. g \in [Nat -> V] /\ g[0] = <<>> /\ \A n \in Nat : g[n + 1] = step[<<n, g[n]>>]
    BY <2>4 DEF Unfolds
  <2> DEFINE h == [n \in 0..L |-> g[n]]
  <2>6. ASSUME NEW n \in 0..L PROVE h[n] = IF n = 0 THEN <<>> ELSE Join(h[n - 1], s[n])
    <3>1. CASE n = 0
      BY <2>5, <3>1
    <3>2. CASE n # 0
      <4>1. n - 1 \in Nat /\ (n - 1) + 1 = n /\ n \in 1..L /\ n - 1 \in 0..L
        BY <1>1, <3>2
      <4>2. g[n] = step[<<n - 1, g[n - 1]>>] /\ g[n - 1] \in V
        BY <2>5, <4>1
      <4>3. step[<<n - 1, g[n - 1]>>] = Join(g[n - 1], s[n])
        BY <2>3, <4>1, <4>2
      <4> QED
        BY <3>2, <4>1, <4>2, <4>3
    <3> QED
      BY <3>1, <3>2
  <2>7. Is(h)
    <3>1. h = [n \in 0..L |-> h[n]]
      OBVIOUS
    <3> HIDE DEF h
    <3> QED
      BY <2>6, <3>1
  <2> HIDE DEF h, Is
  <2> QED
    BY <2>7
<1>4. Is(u)
  <2> HIDE DEF Is
  <2> QED
    BY <1>3
<1>5. u[0] = <<>> /\ \A n \in Nat : n + 1 \in 1..L => u[n + 1] = Join(u[n], s[n + 1])
  <2> HIDE DEF u
  <2>1. u = [n \in 0..L |-> IF n = 0 THEN <<>> ELSE Join(u[n - 1], s[n])]
    BY <1>4
  <2>2. u[0] = <<>>
    BY <1>1, <2>1
  <2>3. ASSUME NEW n \in Nat, n + 1 \in 1..L PROVE u[n + 1] = Join(u[n], s[n + 1])
    <3>1. n + 1 \in 0..L /\ n + 1 # 0 /\ (n + 1) - 1 = n
      BY <1>1, <2>3
    <3> QED
      BY <2>1, <3>1
  <2> QED
    BY <2>2, <2>3
<1> HIDE DEF u
\* What has been joined so far.
<1> DEFINE Good(n) == /\ Separate(u[n])
                      /\ u[n] # <<>> => n > 0 /\ Last(u[n])[1] <= s[n][1]
                      /\ \A t \in Int : InSome(u[n], t) <=> \E i \in 1..n : s[i][1] <= t /\ t < s[i][2]
           P == {n \in Nat : n <= L => Good(n)}
<1>6. 0 \in P
  <2>1. Separate(<<>>) /\ \A t : ~InSome(<<>>, t)
    BY DEF Separate, InSome
  <2> QED
    BY <1>5, <2>1
<1>7. ASSUME NEW n \in P PROVE n + 1 \in P
  <2> SUFFICES ASSUME n + 1 <= L PROVE Good(n + 1)
    OBVIOUS
  <2>1. n \in Nat /\ Good(n) /\ n + 1 \in 1..L
    <3>1. n \in Nat /\ (n <= L => Good(n))
      OBVIOUS
    <3> HIDE DEF Good
    <3> QED
      BY <1>1, <3>1
  <2> DEFINE cur == s[n + 1]
  <2>2. u[n + 1] = Join(u[n], cur) /\ cur \in Int \X Int /\ cur[1] <= cur[2]
    BY <1>1, <1>5, <2>1
  <2>3. u[n] # <<>> => Last(u[n])[1] <= cur[1]
    <3> SUFFICES ASSUME u[n] # <<>> PROVE Last(u[n])[1] <= cur[1]
      OBVIOUS
    <3>1. n > 0 /\ Last(u[n])[1] <= s[n][1] /\ n \in 1..L
      BY <1>1, <2>1
    <3>2. s[n][1] <= s[n + 1][1] /\ s[n][1] \in Int /\ s[n + 1][1] \in Int
      BY <1>1, <2>1, <3>1
    <3>3. Last(u[n])[1] \in Int
      <4>1. u[n] \in Seq(Int \X Int)
        BY <2>1 DEF Separate
      <4> DEFINE m == u[n]
      <4> HIDE DEF m, Good
      <4>2. m \in Seq(Int \X Int) /\ m # <<>> => Last(m) \in Int \X Int
        BY DEF Last
      <4>3. Last(m) \in Int \X Int
        BY <4>1, <4>2 DEF m
      <4> QED
        BY <4>3 DEF m
    <3> QED
      BY <3>1, <3>2, <3>3
  <2>4. Separate(u[n])
    BY <2>1
  <2>5. /\ Separate(u[n + 1]) /\ u[n + 1] # <<>> /\ Last(u[n + 1])[1] <= cur[1]
        /\ \A t \in Int : InSome(u[n + 1], t) <=> InSome(u[n], t) \/ (cur[1] <= t /\ t < cur[2])
    <3> HIDE DEF cur, Good
    <3> QED
      BY <2>2, <2>3, <2>4, JoinFacts
  <2>6. \A i : i \in 1..(n + 1) <=> i \in 1..n \/ i = n + 1
    BY <2>1
  <2>7. \A t \in Int : InSome(u[n + 1], t) <=> \E i \in 1..(n + 1) : s[i][1] <= t /\ t < s[i][2]
    BY <2>1, <2>5, <2>6
  <2>8. n + 1 > 0
    BY <2>1
  <2> QED
    BY <2>5, <2>7, <2>8
<1>8. L \in P
  <2>1. P \in SUBSET Nat
    OBVIOUS
  <2> HIDE DEF P
  <2> QED
    BY <1>1, <1>6, <1>7, <2>1, AllNumbers
<1>9. Good(L)
  BY <1>1, <1>8
<1> QED
  BY <1>2, <1>9 DEF InSome, L

\* Whatever a set of intervals looks like, merging it keeps what they cover.
Within(ivs, t) == \E iv \in ivs : iv[1] <= t /\ t < iv[2]

LEMMA MergeFacts ==
    ASSUME NEW ivs \in SUBSET (Int \X Int), IsFiniteSet(ivs), \A iv \in ivs : iv[1] <= iv[2]
    PROVE  Separate(Merge(ivs)) /\ \A t \in Int : InSome(Merge(ivs), t) <=> Within(ivs, t)
<1> DEFINE R == BeginsBefore(ivs)  n == Cardinality(ivs)  s == Sorted(ivs, R)
<1>1. \A x, y \in ivs : <<x, y>> \in R <=> x[1] < y[1] \/ (x[1] = y[1] /\ x[2] < y[2])
  BY DEF BeginsBefore
<1>2. \A x \in ivs : x[1] \in Int /\ x[2] \in Int /\ x = <<x[1], x[2]>>
  OBVIOUS
<1> HIDE DEF R
<1>3. \A x \in ivs : <<x, x>> \notin R
  BY <1>1, <1>2
<1>4. \A x, y, z \in ivs : <<x, y>> \in R /\ <<y, z>> \in R => <<x, z>> \in R
  <2> SUFFICES ASSUME NEW x \in ivs, NEW y \in ivs, NEW z \in ivs, <<x, y>> \in R, <<y, z>> \in R
               PROVE  <<x, z>> \in R
    OBVIOUS
  <2>1. /\ x[1] < y[1] \/ (x[1] = y[1] /\ x[2] < y[2])
        /\ y[1] < z[1] \/ (y[1] = z[1] /\ y[2] < z[2])
    BY <1>1
  <2>2. x[1] < z[1] \/ (x[1] = z[1] /\ x[2] < z[2])
    BY <1>2, <2>1
  <2> QED
    BY <1>1, <2>2
<1>5. \A x, y \in ivs : x # y => <<x, y>> \in R \/ <<y, x>> \in R
  <2> SUFFICES ASSUME NEW x \in ivs, NEW y \in ivs, x # y PROVE <<x, y>> \in R \/ <<y, x>> \in R
    OBVIOUS
  <2>1. x[1] # y[1] \/ x[2] # y[2]
    BY <1>2
  <2>2. x[1] < y[1] \/ (x[1] = y[1] /\ x[2] < y[2]) \/ y[1] < x[1] \/ (y[1] = x[1] /\ y[2] < x[2])
    BY <1>2, <2>1
  <2> QED
    BY <1>1, <2>2
<1>6. /\ n \in Nat /\ s \in Bijection(1..n, ivs)
      /\ \A i, j \in 1..n : i < j => <<s[i], s[j]>> \in R
  BY <1>3, <1>4, <1>5, SortedElements
<1> HIDE DEF s, n
<1>7. s \in [1..n -> ivs] /\ \A iv \in ivs : \E i \in 1..n : s[i] = iv
  BY <1>6 DEF Bijection, Injection, Surjection
<1>8. s \in Seq(Int \X Int) /\ Len(s) = n
  BY <1>6, <1>7
<1>9. \A i \in 1..n : s[i] \in ivs
  BY <1>7
<1>10. \A i \in 1..n : s[i][1] <= s[i][2]
  BY <1>9
<1>11. \A i, j \in 1..n : i < j => s[i][1] <= s[j][1]
  <2> SUFFICES ASSUME NEW i \in 1..n, NEW j \in 1..n, i < j PROVE s[i][1] <= s[j][1]
    OBVIOUS
  <2>1. s[i] \in ivs /\ s[j] \in ivs /\ <<s[i], s[j]>> \in R
    BY <1>6, <1>9
  <2>2. s[i][1] < s[j][1] \/ s[i][1] = s[j][1]
    BY <1>1, <2>1
  <2> QED
    BY <1>2, <2>1, <2>2
<1>12. Separate(Joined(s)) /\ \A t \in Int : InSome(Joined(s), t) <=> InSome(s, t)
  BY <1>8, <1>10, <1>11, JoinedFacts
<1>13. \A t \in Int : InSome(s, t) <=> Within(ivs, t)
  BY <1>7, <1>8, <1>9 DEF InSome, Within
<1>14. Merge(ivs) = Joined(s)
  BY DEF Merge, s, R
<1> QED
  BY <1>12, <1>13, <1>14

\* What is down is what the intervals cover.
WithinWindow(ivs, from, to) == {t \in from..(to - 1) : Within(ivs, t)}

LEMMA DowntimeOfMerged ==
    ASSUME NEW ivs \in SUBSET (Int \X Int), IsFiniteSet(ivs), \A iv \in ivs : iv[1] <= iv[2],
           NEW from \in Int, NEW to \in Int
    PROVE  Downtime(Merge(ivs), from, to) = Cardinality(WithinWindow(ivs, from, to))
<1>1. Separate(Merge(ivs)) /\ \A t \in Int : InSome(Merge(ivs), t) <=> Within(ivs, t)
  BY MergeFacts
<1>2. InsideSome(Merge(ivs), from, to) = WithinWindow(ivs, from, to)
  BY <1>1 DEF InsideSome, WithinWindow
<1> QED
  BY <1>1, <1>2, DowntimeCounts

AlertRow == [host : ReportedHost, rule : Nat, fired : Nat, resolved : Nat]

LEMMA HistoryFacts ==
    ASSUME history \in Histories
    PROVE  /\ IsFiniteSet(history) /\ Moment \in Nat /\ Span \in Nat /\ PeriodStart \in Int
           /\ \A a \in history : /\ a \in AlertRow /\ a.host \in ReportedHost /\ a.rule \in Nat
                                 /\ a.fired \in Nat /\ a.resolved \in Nat
<1>1. IsFiniteSet(history) /\ history \in SUBSET AlertRow
  BY FleetAssumption DEF AlertRow
<1>2. \A a \in AlertRow : a.host \in ReportedHost /\ a.rule \in Nat /\ a.fired \in Nat /\ a.resolved \in Nat
  BY DEF AlertRow
<1>3. Moment \in Nat /\ Span \in Nat /\ PeriodStart \in Int
  BY FleetAssumption DEF PeriodStart
<1> QED
  BY <1>1, <1>2, <1>3

\* The alerts a query for a host returns: all of them unless they are too many.
AllOf(h) == {a \in history : a.host = h}

LEMMA AlertsFacts ==
    ASSUME history \in Histories, NEW h
    PROVE  LET rows == AlertsOf(h) IN
           /\ \E k \in Nat : DOMAIN rows = 1..k
           /\ \A i \in DOMAIN rows : rows[i] \in history /\ rows[i].host = h /\ rows[i].fired <= Moment
           /\ Cardinality(AllOf(h)) <= AlertLimit =>
                 \A a \in history : a.host = h /\ a.fired <= Moment => \E i \in DOMAIN rows : rows[i] = a
<1> DEFINE found == {a \in history : a.host = h /\ a.fired <= Moment}
           R == FiredBefore(found)  n == Cardinality(found)  s == Sorted(found, R)
<1>1. found \in SUBSET AllOf(h) /\ AllOf(h) \in SUBSET history
  BY DEF AllOf
<1>2. /\ \A x \in found : x \in AlertRow /\ x.fired \in Int /\ x.rule \in Int /\ x.resolved \in Int
      /\ \A x \in found : x \in history /\ x.host = h /\ x.fired <= Moment
  BY HistoryFacts
<1>3. \A a \in history : a.host = h /\ a.fired <= Moment => a \in found
  OBVIOUS
<1>4. \A x, y \in found : <<x, y>> \in R <=>
          \/ x.fired < y.fired
          \/ x.fired = y.fired /\ x.rule < y.rule
          \/ x.fired = y.fired /\ x.rule = y.rule /\ x.resolved < y.resolved
  BY DEF FiredBefore
<1>5. AlertsOf(h) = IF Len(s) > AlertLimit THEN SubSeq(s, 1, AlertLimit) ELSE s
  BY DEF AlertsOf
<1>6. IsFiniteSet(AllOf(h)) /\ IsFiniteSet(found) /\ n <= Cardinality(AllOf(h))
  <2> HIDE DEF found
  <2>1. IsFiniteSet(history)
    BY HistoryFacts
  <2>2. IsFiniteSet(AllOf(h))
    BY <1>1, <2>1, FS_Subset
  <2> QED
    BY <1>1, <2>2, FS_Subset
<1> HIDE DEF found, R
<1>7. \A x \in found : <<x, x>> \notin R
  BY <1>2, <1>4
<1>8. \A x, y, z \in found : <<x, y>> \in R /\ <<y, z>> \in R => <<x, z>> \in R
  <2> SUFFICES ASSUME NEW x \in found, NEW y \in found, NEW z \in found, <<x, y>> \in R, <<y, z>> \in R
               PROVE  <<x, z>> \in R
    OBVIOUS
  <2>1. /\ \/ x.fired < y.fired
           \/ x.fired = y.fired /\ x.rule < y.rule
           \/ x.fired = y.fired /\ x.rule = y.rule /\ x.resolved < y.resolved
        /\ \/ y.fired < z.fired
           \/ y.fired = z.fired /\ y.rule < z.rule
           \/ y.fired = z.fired /\ y.rule = z.rule /\ y.resolved < z.resolved
    BY <1>4
  <2>2. /\ x.fired \in Int /\ x.rule \in Int /\ x.resolved \in Int
        /\ y.fired \in Int /\ y.rule \in Int /\ y.resolved \in Int
        /\ z.fired \in Int /\ z.rule \in Int /\ z.resolved \in Int
    BY <1>2
  <2>3. \/ x.fired < z.fired
        \/ x.fired = z.fired /\ x.rule < z.rule
        \/ x.fired = z.fired /\ x.rule = z.rule /\ x.resolved < z.resolved
    BY <2>1, <2>2
  <2> QED
    BY <1>4, <2>3
<1>9. \A x, y \in found : x # y => <<x, y>> \in R \/ <<y, x>> \in R
  <2> SUFFICES ASSUME NEW x \in found, NEW y \in found, x # y PROVE <<x, y>> \in R \/ <<y, x>> \in R
    OBVIOUS
  <2>1. x.fired # y.fired \/ x.rule # y.rule \/ x.resolved # y.resolved
    <3>1. x \in AlertRow /\ y \in AlertRow /\ x.host = y.host
      BY <1>2
    <3> QED
      BY <3>1 DEF AlertRow
  <2>2. /\ x.fired \in Int /\ x.rule \in Int /\ x.resolved \in Int
        /\ y.fired \in Int /\ y.rule \in Int /\ y.resolved \in Int
    BY <1>2
  <2>3. \/ x.fired < y.fired
        \/ x.fired = y.fired /\ x.rule < y.rule
        \/ x.fired = y.fired /\ x.rule = y.rule /\ x.resolved < y.resolved
        \/ y.fired < x.fired
        \/ y.fired = x.fired /\ y.rule < x.rule
        \/ y.fired = x.fired /\ y.rule = x.rule /\ y.resolved < x.resolved
    BY <2>1, <2>2
  <2> QED
    BY <1>4, <2>3
<1>10. n \in Nat /\ s \in Bijection(1..n, found)
  BY <1>6, <1>7, <1>8, <1>9, SortedElements
<1> HIDE DEF s, n
<1>11. s \in [1..n -> found] /\ \A a \in found : \E i \in 1..n : s[i] = a
  BY <1>10 DEF Bijection, Injection, Surjection
<1>12. s \in Seq(found) /\ Len(s) = n /\ DOMAIN s = 1..n /\ \A i \in 1..n : s[i] \in found
  BY <1>10, <1>11
<1>13. AlertLimit \in Nat /\ Cardinality(AllOf(h)) \in Nat
  BY <1>6, FS_CardinalityType, FleetAssumption
<1>14. CASE n > AlertLimit
  <2> DEFINE rows == SubSeq(s, 1, AlertLimit)
  <2>1. AlertsOf(h) = rows
    BY <1>5, <1>12, <1>14
  <2>2. DOMAIN rows = 1..AlertLimit /\ \A i \in 1..AlertLimit : rows[i] = s[i] /\ i \in 1..n
    BY <1>10, <1>12, <1>13, <1>14
  <2>3. ~(Cardinality(AllOf(h)) <= AlertLimit)
    BY <1>6, <1>10, <1>13, <1>14
  <2> HIDE DEF rows
  <2>4. \A i \in DOMAIN rows : rows[i] \in found
    BY <1>12, <2>2
  <2> QED
    BY <1>2, <1>13, <2>1, <2>2, <2>3, <2>4
<1>15. CASE ~(n > AlertLimit)
  <2>1. AlertsOf(h) = s
    BY <1>5, <1>12, <1>15
  <2> QED
    BY <1>2, <1>3, <1>10, <1>11, <1>12, <2>1
<1> QED
  BY <1>14, <1>15

\* Those of them that do not end before a moment.
LEMMA LastingFacts ==
    ASSUME history \in Histories, NEW h, NEW from \in Int
    PROVE  LET rows == LastingTo(h, from) IN
           /\ \E k \in Nat : DOMAIN rows = 1..k
           /\ \A i \in DOMAIN rows : /\ rows[i] \in history /\ rows[i].host = h /\ rows[i].fired <= Moment
                                     /\ EndOf(rows[i]) >= from
           /\ Cardinality(AllOf(h)) <= AlertLimit =>
                 \A a \in history : a.host = h /\ a.fired <= Moment /\ EndOf(a) >= from
                                      => \E i \in DOMAIN rows : rows[i] = a
<1> DEFINE all == AlertsOf(h)  P == {i \in DOMAIN all : EndOf(all[i]) >= from}  c == Cardinality(P)
<1>1. PICK k \in Nat : DOMAIN all = 1..k
  BY AlertsFacts
<1>2. /\ \A i \in DOMAIN all : all[i] \in history /\ all[i].host = h /\ all[i].fired <= Moment
      /\ Cardinality(AllOf(h)) <= AlertLimit =>
            \A a \in history : a.host = h /\ a.fired <= Moment => \E i \in DOMAIN all : all[i] = a
  BY AlertsFacts
<1>3. LastingTo(h, from) = At(all, P)
  BY DEF LastingTo
<1> HIDE DEF all
<1>4. P \in SUBSET (1..k) /\ P \in SUBSET Int
  BY <1>1
<1>5. \A i : i \in P <=> i \in DOMAIN all /\ EndOf(all[i]) >= from
  OBVIOUS
<1> HIDE DEF P
<1>6. IsFiniteSet(P)
  <2>1. IsFiniteSet(1..k)
    BY <1>1, FS_Interval
  <2> QED
    BY <1>4, <2>1, FS_Subset
<1>7. PICK pos \in Bijection(1..c, P) : c \in Nat /\ At(all, P) = [i \in 1..c |-> all[pos[i]]]
  BY <1>4, <1>6, AtElements
<1> HIDE DEF c
<1>8. pos \in [1..c -> P] /\ \A p \in P : \E i \in 1..c : pos[i] = p
  BY <1>7 DEF Bijection, Injection, Surjection
<1> DEFINE rows == At(all, P)
<1>9. DOMAIN rows = 1..c /\ \A i \in 1..c : rows[i] = all[pos[i]] /\ pos[i] \in P
  BY <1>7, <1>8
<1> HIDE DEF rows
<1>10. \A i \in DOMAIN rows : rows[i] \in history /\ rows[i].host = h /\ rows[i].fired <= Moment /\ EndOf(rows[i]) >= from
  BY <1>2, <1>5, <1>9
<1>11. ASSUME Cardinality(AllOf(h)) <= AlertLimit, NEW a \in history, a.host = h, a.fired <= Moment, EndOf(a) >= from
       PROVE  \E i \in DOMAIN rows : rows[i] = a
  <2>1. PICK j \in DOMAIN all : all[j] = a
    BY <1>2, <1>11
  <2>2. j \in P
    BY <1>5, <1>11, <2>1
  <2> QED
    BY <1>8, <1>9, <2>1, <2>2
<1> QED
  BY <1>3, <1>7, <1>9, <1>10, <1>11 DEF rows

LEMMA LastingIsFunction ==
    ASSUME NEW h, NEW from
    PROVE  LastingTo(h, from) = [i \in DOMAIN LastingTo(h, from) |-> LastingTo(h, from)[i]]
BY DEF LastingTo, At

\* The moments at which an alert of a host was firing.
Firing(a, t) == a.fired <= t /\ (a.resolved = 0 \/ t < a.resolved)
FiringWithin(h, from, to) == {t \in from..(to - 1) : \E a \in history : a.host = h /\ Firing(a, t)}

LEMMA EndFacts ==
    ASSUME history \in Histories, NEW a \in history
    PROVE  /\ EndOf(a) \in Int /\ a.fired <= EndOf(a)
           /\ \A t \in Int : t < Moment => (Firing(a, t) <=> a.fired <= t /\ t < EndOf(a))
<1> DEFINE end == IF a.resolved = 0 THEN Moment ELSE a.resolved
<1>1. a.fired \in Int /\ a.resolved \in Int /\ Moment \in Int
  BY HistoryFacts
<1>2. end \in Int
  BY <1>1
<1>3. EndOf(a) = IF end < a.fired THEN a.fired ELSE end
  BY DEF EndOf
<1>4. \A t \in Int : t < Moment => (Firing(a, t) <=> a.fired <= t /\ t < end)
  BY <1>1 DEF Firing
<1> HIDE DEF end
<1> QED
  BY <1>1, <1>2, <1>3, <1>4

\* A window of the intervals of a host's alerts.
LEMMA IntervalsFacts ==
    ASSUME history \in Histories, NEW h, NEW from \in Int
    PROVE  /\ Intervals(h, from) \in SUBSET (Int \X Int) /\ IsFiniteSet(Intervals(h, from))
           /\ \A iv \in Intervals(h, from) : iv[1] <= iv[2]
<1> DEFINE rows == LastingTo(h, from)
<1>1. PICK k \in Nat : DOMAIN rows = 1..k
  BY LastingFacts
<1>2. \A i \in DOMAIN rows : rows[i] \in history
  BY LastingFacts
<1>3. Intervals(h, from) = {<<rows[i].fired, EndOf(rows[i])>> : i \in DOMAIN rows}
  BY DEF Intervals
<1> HIDE DEF rows
<1>4. \A i \in DOMAIN rows : rows[i].fired \in Int /\ EndOf(rows[i]) \in Int /\ rows[i].fired <= EndOf(rows[i])
  BY <1>2, EndFacts, HistoryFacts
<1>5. IsFiniteSet(1..k)
  BY <1>1, FS_Interval
<1> DEFINE g == [i \in 1..k |-> <<rows[i].fired, EndOf(rows[i])>>]
<1>6. Intervals(h, from) = {g[i] : i \in 1..k}
  BY <1>1, <1>3
<1>7. g \in Surjection(1..k, Intervals(h, from))
  <2>1. g \in [1..k -> Intervals(h, from)] /\ \A iv \in Intervals(h, from) : \E i \in 1..k : g[i] = iv
    BY <1>1, <1>3
  <2> HIDE DEF g
  <2> QED
    BY <2>1 DEF Surjection
<1> HIDE DEF g
<1>8. IsFiniteSet(Intervals(h, from))
  BY <1>5, <1>7, FS_Surjection
<1> QED
  BY <1>3, <1>4, <1>8

LEMMA WindowTold ==
    ASSUME history \in Histories, NEW h, Cardinality(AllOf(h)) <= AlertLimit,
           NEW from \in Int, NEW lo \in Int, NEW hi \in Int, from <= lo, hi <= Moment
    PROVE  Downtime(Merge(Intervals(h, from)), lo, hi) = Covered(h, lo, hi)
<1> DEFINE rows == LastingTo(h, from)
<1>1. /\ \A i \in DOMAIN rows : rows[i] \in history /\ rows[i].host = h /\ rows[i].fired <= Moment
      /\ \A a \in history : a.host = h /\ a.fired <= Moment /\ EndOf(a) >= from
                                      => \E i \in DOMAIN rows : rows[i] = a
  BY LastingFacts
<1>2. Intervals(h, from) = {<<rows[i].fired, EndOf(rows[i])>> : i \in DOMAIN rows}
  BY DEF Intervals
<1> HIDE DEF rows
<1>3. Moment \in Int /\ \A a \in history : a.fired \in Int /\ EndOf(a) \in Int
                            /\ \A t \in Int : t < Moment => (Firing(a, t) <=> a.fired <= t /\ t < EndOf(a))
  BY HistoryFacts, EndFacts
<1>4. ASSUME NEW t \in lo..(hi - 1)
      PROVE  Within(Intervals(h, from), t) <=> \E a \in history : a.host = h /\ Firing(a, t)
  <2>0. t \in Int /\ from <= t /\ t < Moment
    BY <1>3
  <2>1. ASSUME Within(Intervals(h, from), t) PROVE \E a \in history : a.host = h /\ Firing(a, t)
    <3>1. PICK i \in DOMAIN rows : rows[i].fired <= t /\ t < EndOf(rows[i])
      BY <1>2, <2>1 DEF Within
    <3>2. rows[i] \in history /\ rows[i].host = h
      BY <1>1
    <3> QED
      BY <1>3, <2>0, <3>1, <3>2
  <2>2. ASSUME NEW a \in history, a.host = h, Firing(a, t) PROVE Within(Intervals(h, from), t)
    <3>1. a.fired <= t /\ t < EndOf(a) /\ a.fired \in Int /\ EndOf(a) \in Int
      BY <1>3, <2>0, <2>2
    <3>2. a.fired <= Moment /\ EndOf(a) >= from
      BY <1>3, <2>0, <3>1
    <3>3. PICK i \in DOMAIN rows : rows[i] = a
      BY <1>1, <2>2, <3>2
    <3>4. <<a.fired, EndOf(a)>> \in Intervals(h, from)
      BY <1>2, <3>3
    <3> DEFINE iv == <<a.fired, EndOf(a)>>
    <3>5. iv \in Intervals(h, from) /\ iv[1] <= t /\ t < iv[2]
      BY <3>1, <3>4
    <3> QED
      BY <3>5 DEF Within
  <2> QED
    BY <2>1, <2>2
<1>5. WithinWindow(Intervals(h, from), lo, hi) = FiringWithin(h, lo, hi)
  BY <1>4 DEF WithinWindow, FiringWithin
<1>6. Downtime(Merge(Intervals(h, from)), lo, hi) = Cardinality(WithinWindow(Intervals(h, from), lo, hi))
  BY IntervalsFacts, DowntimeOfMerged
<1>7. Covered(h, lo, hi) = Cardinality(FiringWithin(h, lo, hi))
  BY DEF Covered, FiringWithin, Firing
<1> QED
  BY <1>5, <1>6, <1>7

\* A period in days: each of its moments is in one day.
LEMMA Times ==
    ASSUME NEW x \in Nat, NEW y \in Nat, NEW n \in Nat, y <= x
    PROVE  y * n <= x * n /\ (y + 1) * n = y * n + n /\ y * n \in Nat
OBVIOUS

DaysBegin(start, bars, len, end) == \A d \in 0..bars : start[d] = end - (bars - d) * len
DaysFill(start, bars, first, end) ==
    /\ \A d \in 0..bars : start[d] \in Int
    /\ start[0] = first /\ start[bars] = end
    /\ \A d \in 0..(bars - 1) : start[0] <= start[d] /\ start[d + 1] <= end
    /\ \A d, e \in 0..(bars - 1) : d < e => start[d + 1] <= start[e]
    /\ \A t \in Int : start[0] <= t /\ t < end => \E d \in 0..(bars - 1) : start[d] <= t /\ t < start[d + 1]

LEMMA DaysOfPeriod ==
    ASSUME NEW bars \in Nat \ {0}, NEW len \in Nat \ {0}, NEW end \in Int, NEW start,
           DaysBegin(start, bars, len, end)
    PROVE  DaysFill(start, bars, end - bars * len, end)
<1>0. \A d \in 0..bars : start[d] = end - (bars - d) * len
  BY DEF DaysBegin
<1>1. \A d \in 0..bars : bars - d \in Nat /\ (bars - d) * len \in Nat
  BY Times
<1>2. \A d \in 0..bars : start[d] \in Int
  BY <1>0, <1>1
<1>3. start[0] = end - bars * len /\ start[bars] = end
  <2>1. 0 \in 0..bars /\ bars \in 0..bars /\ bars - 0 = bars /\ bars - bars = 0 /\ 0 * len = 0
    OBVIOUS
  <2> QED
    BY <1>0, <2>1
<1>4. \A d, e \in 0..bars : d <= e => start[d] <= start[e]
  <2> SUFFICES ASSUME NEW d \in 0..bars, NEW e \in 0..bars, d <= e PROVE start[d] <= start[e]
    OBVIOUS
  <2> DEFINE x == bars - d  y == bars - e
  <2>1. x \in Nat /\ y \in Nat /\ y <= x
    OBVIOUS
  <2>2. start[d] = end - x * len /\ start[e] = end - y * len
    BY <1>0
  <2> HIDE DEF x, y
  <2>3. y * len <= x * len /\ x * len \in Nat /\ y * len \in Nat
    BY <2>1, Times
  <2> QED
    BY <2>2, <2>3
<1>5. \A d \in 0..(bars - 1) : d \in 0..bars /\ d + 1 \in 0..bars
  OBVIOUS
<1>6. \A d \in 0..(bars - 1) : start[0] <= start[d] /\ start[d + 1] <= end
  <2> SUFFICES ASSUME NEW d \in 0..(bars - 1) PROVE start[0] <= start[d] /\ start[d + 1] <= end
    OBVIOUS
  <2>1. 0 \in 0..bars /\ bars \in 0..bars /\ 0 <= d /\ d + 1 <= bars
    OBVIOUS
  <2> QED
    BY <1>3, <1>4, <1>5, <2>1
<1>7. \A d, e \in 0..(bars - 1) : d < e => start[d + 1] <= start[e]
  <2> SUFFICES ASSUME NEW d \in 0..(bars - 1), NEW e \in 0..(bars - 1), d < e PROVE start[d + 1] <= start[e]
    OBVIOUS
  <2>1. d + 1 <= e
    OBVIOUS
  <2> QED
    BY <1>4, <1>5, <2>1
<1> DEFINE P == {n \in Nat : n <= bars =>
                    \A t \in Int : start[0] <= t /\ t < start[n] =>
                        \E d \in 0..(bars - 1) : start[d] <= t /\ t < start[d + 1]}
<1>8. 0 \in P
  BY <1>2
<1>9. ASSUME NEW n \in P PROVE n + 1 \in P
  <2> SUFFICES ASSUME n + 1 <= bars, NEW t \in Int, start[0] <= t, t < start[n + 1]
               PROVE  \E d \in 0..(bars - 1) : start[d] <= t /\ t < start[d + 1]
    OBVIOUS
  <2>1. n \in Nat /\ n <= bars /\ n \in 0..(bars - 1) /\ n \in 0..bars
    OBVIOUS
  <2>2. CASE t < start[n]
    BY <2>1, <2>2
  <2>3. CASE ~(t < start[n])
    <3>1. start[n] <= t
      BY <1>2, <2>1, <2>3
    <3> QED
      BY <2>1, <3>1
  <2> QED
    BY <2>2, <2>3
<1>10. bars \in P
  <2>1. P \in SUBSET Nat
    OBVIOUS
  <2> HIDE DEF P
  <2> QED
    BY <1>8, <1>9, <2>1, AllNumbers
<1>11. \A t \in Int : start[0] <= t /\ t < end => \E d \in 0..(bars - 1) : start[d] <= t /\ t < start[d + 1]
  BY <1>3, <1>10
<1> QED
  BY <1>2, <1>3, <1>6, <1>7, <1>11 DEF DaysFill

\* The bars of the status page, one day after the other, add up to their period.
LEMMA BarsAddUp ==
    ASSUME history \in Histories, NEW h, Cardinality(AllOf(h)) <= AlertLimit,
           NEW from \in Int, from <= Moment - Bars * DayLength, NEW start,
           DaysBegin(start, Bars, DayLength, Moment),
           NEW f, \A d \in 0..(Bars - 1) : f[d] = Downtime(Merge(Intervals(h, from)), start[d], start[d + 1])
    PROVE  SumFunctionOnSet(f, 0..(Bars - 1)) = Covered(h, Moment - Bars * DayLength, Moment)
<1> DEFINE D == 0..(Bars - 1)  first == Moment - Bars * DayLength
           A == FiringWithin(h, first, Moment)
           key == [t \in A |-> CHOOSE d \in D : start[d] <= t /\ t < start[d + 1]]
<1>1. Bars \in Nat \ {0} /\ DayLength \in Nat \ {0} /\ Moment \in Int
  BY FleetAssumption
<1>2. /\ \A d \in 0..Bars : start[d] \in Int
      /\ start[0] = first
      /\ \A d \in D : start[0] <= start[d] /\ start[d + 1] <= Moment
      /\ \A d, e \in D : d < e => start[d + 1] <= start[e]
      /\ \A t \in Int : start[0] <= t /\ t < Moment => \E d \in D : start[d] <= t /\ t < start[d + 1]
  BY <1>1, DaysOfPeriod DEF DaysFill
<1>3. first \in Int /\ from <= first
  <2>1. 0 \in 0..Bars
    BY <1>1
  <2> QED
    BY <1>2, <2>1
<1>4. \A d \in D : d \in Int /\ start[d] \in Int /\ start[d + 1] \in Int
  <2>1. \A d \in D : d \in 0..Bars /\ d + 1 \in 0..Bars
    BY <1>1
  <2> QED
    BY <1>2, <2>1
<1> HIDE DEF first
<1>5. A \in SUBSET (first..(Moment - 1)) /\ \A t \in A : t \in Int /\ first <= t /\ t < Moment
  BY <1>1, <1>3 DEF FiringWithin
<1>6. IsFiniteSet(A) /\ IsFiniteSet(D)
  <2>1. Moment - 1 \in Int /\ Bars - 1 \in Int
    BY <1>1
  <2>2. IsFiniteSet(first..(Moment - 1)) /\ IsFiniteSet(D)
    BY <1>3, <2>1, FS_Interval
  <2> HIDE DEF A, D
  <2> QED
    BY <1>5, <2>2, FS_Subset
<1>7. ASSUME NEW t \in A PROVE key[t] \in D /\ start[key[t]] <= t /\ t < start[key[t] + 1]
  <2>1. \E d \in D : start[d] <= t /\ t < start[d + 1]
    BY <1>2, <1>5
  <2> HIDE DEF A, D
  <2> QED
    BY <2>1
<1>8. ASSUME NEW d \in D, NEW t \in A, start[d] <= t, t < start[d + 1] PROVE key[t] = d
  <2> DEFINE e == key[t]
  <2>1. e \in D /\ start[e] <= t /\ t < start[e + 1]
    BY <1>7
  <2> HIDE DEF e, A
  <2>2. d < e => start[d + 1] <= start[e]
    BY <1>2, <2>1
  <2>3. e < d => start[e + 1] <= start[d]
    BY <1>2, <2>1
  <2>4. t \in Int /\ start[d] \in Int /\ start[d + 1] \in Int /\ start[e] \in Int /\ start[e + 1] \in Int /\ d \in Int /\ e \in Int
    BY <1>4, <1>5, <2>1
  <2>5. ~(d < e) /\ ~(e < d)
    BY <1>8, <2>1, <2>2, <2>3, <2>4
  <2> QED
    BY <2>4, <2>5 DEF e
<1>9. ASSUME NEW d \in D PROVE f[d] = Cardinality(WithKey(A, key, d))
  <2>1. start[d] \in Int /\ start[d + 1] \in Int /\ from <= start[d] /\ start[d + 1] <= Moment /\ first <= start[d]
    BY <1>1, <1>2, <1>3, <1>4
  <2>2. f[d] = Covered(h, start[d], start[d + 1])
    BY <2>1, WindowTold
  <2>3. f[d] = Cardinality(FiringWithin(h, start[d], start[d + 1]))
    BY <2>2 DEF Covered, FiringWithin, Firing
  <2>4. \A t \in FiringWithin(h, start[d], start[d + 1]) : t \in A /\ start[d] <= t /\ t < start[d + 1]
    BY <1>1, <1>3, <2>1 DEF FiringWithin
  <2>5. \A t \in A : start[d] <= t /\ t < start[d + 1] => t \in FiringWithin(h, start[d], start[d + 1])
    BY <1>5, <2>1 DEF FiringWithin
  <2>6. WithKey(A, key, d) = FiringWithin(h, start[d], start[d + 1])
    <3> HIDE DEF A, key
    <3>1. \A t \in WithKey(A, key, d) : t \in FiringWithin(h, start[d], start[d + 1])
      BY <1>7, <2>5 DEF WithKey
    <3>2. \A t \in FiringWithin(h, start[d], start[d + 1]) : t \in WithKey(A, key, d)
      BY <1>8, <2>4 DEF WithKey
    <3> QED
      BY <3>1, <3>2
  <2> QED
    BY <2>3, <2>6
<1>10. KeyedBy(A, key, D) = A
  <2> HIDE DEF A, key, D
  <2> QED
    BY <1>7 DEF KeyedBy
<1>11. SumFunctionOnSet(f, D) = Cardinality(KeyedBy(A, key, D))
  <2> HIDE DEF A, key, D
  <2> QED
    BY <1>6, <1>9, SumOfParts
<1>12. Covered(h, first, Moment) = Cardinality(A)
  BY DEF Covered, FiringWithin, Firing
<1> QED
  BY <1>10, <1>11, <1>12 DEF first

\* A sum of as many numbers that have a bound.
LEMMA SumBounds ==
    ASSUME NEW D, IsFiniteSet(D), NEW f, \A d \in D : f[d] \in Int, NEW c \in Nat
    PROVE  /\ (\A d \in D : c <= f[d]) => Cardinality(D) * c <= SumFunctionOnSet(f, D)
           /\ (\A d \in D : f[d] <= c) => SumFunctionOnSet(f, D) <= Cardinality(D) * c
<1> DEFINE Sum(T) == SumFunctionOnSet(f, T)
           Least == \A d \in D : c <= f[d]
           Most == \A d \in D : f[d] <= c
           P == {n \in Nat : \A T \in SUBSET D : Cardinality(T) = n =>
                                (Least => n * c <= Sum(T)) /\ (Most => Sum(T) <= n * c)}
<1>1. \A T \in SUBSET D : IsFiniteSet(T) /\ Cardinality(T) \in Nat /\ \A d \in T : f[d] \in Int
  BY FS_Subset, FS_CardinalityType
<1>2. Sum({}) = 0 /\ \A T \in SUBSET D : Sum(T) \in Int /\ (T # {} => Sum(T) = f[Picked(T)] + Sum(T \ {Picked(T)}))
  BY <1>1, SumPicked
<1>3. \A d \in D : (Least => c <= f[d]) /\ (Most => f[d] <= c)
  OBVIOUS
<1> HIDE DEF Sum, Least, Most
<1>4. 0 \in P
  <2> SUFFICES ASSUME NEW T \in SUBSET D, Cardinality(T) = 0 PROVE Sum(T) = 0 /\ 0 * c = 0
    OBVIOUS
  <2>1. T = {}
    BY <1>1, FS_EmptySet
  <2> QED
    BY <1>2, <2>1
<1>5. ASSUME NEW n \in P PROVE n + 1 \in P
  <2>1. n \in Nat /\ \A T \in SUBSET D : Cardinality(T) = n => (Least => n * c <= Sum(T)) /\ (Most => Sum(T) <= n * c)
    OBVIOUS
  <2> SUFFICES ASSUME NEW T \in SUBSET D, Cardinality(T) = n + 1
               PROVE  (Least => (n + 1) * c <= Sum(T)) /\ (Most => Sum(T) <= (n + 1) * c)
    BY <2>1
  <2> DEFINE d == Picked(T)  v == f[d]  s == Sum(T \ {d})  a == n * c
  <2>2. T # {} /\ IsFiniteSet(T)
    BY <1>1, <2>1, FS_EmptySet
  <2>3. d \in T /\ Cardinality(T \ {d}) = (n + 1) - 1
    BY <2>2, Shrinks
  <2>4. Sum(T) = v + s
    BY <1>2, <2>2
  <2>5. v \in Int /\ (Least => c <= v) /\ (Most => v <= c)
    BY <1>3, <2>3
  <2>6. s \in Int /\ (Least => a <= s) /\ (Most => s <= a)
    <3> DEFINE U == T \ {d}
    <3>1. U \in SUBSET D /\ Cardinality(U) = n
      BY <2>1, <2>3
    <3> HIDE DEF U
    <3>2. (Least => n * c <= Sum(U)) /\ (Most => Sum(U) <= n * c) /\ Sum(U) \in Int
      BY <1>2, <2>1, <3>1
    <3> QED
      BY <3>2 DEF U
  <2>7. (n + 1) * c = a + c /\ a \in Nat
    BY <2>1, Times
  <2> HIDE DEF v, s, a
  <2> QED
    BY <2>4, <2>5, <2>6, <2>7
<1> HIDE DEF P
<1>6. P = Nat
  <2>1. P \in SUBSET Nat
    BY DEF P
  <2> QED
    BY <1>4, <1>5, <2>1, AllNumbers
<1>7. D \in SUBSET D /\ Cardinality(D) \in Nat
  BY <1>1
<1> QED
  BY <1>6, <1>7 DEF P, Sum, Least, Most

\* No fleet is down for longer than there was.
LEMMA FleetTold ==
    ASSUME history \in Histories
    PROVE  buildFleetSummary[1] <= buildFleetSummary[2]
<1> DEFINE f == [h \in ReportedHost |-> agentUptimePercent(h)]
<1>1. IsFiniteSet(ReportedHost) /\ Span \in Nat /\ Moment \in Int /\ PeriodStart \in Int /\ Moment - PeriodStart = Span
  BY FleetAssumption, HistoryFacts DEF PeriodStart
<1>2. ASSUME NEW h \in ReportedHost PROVE f[h] \in Int /\ 0 <= f[h] /\ f[h] <= Span
  <2> DEFINE W == WithinWindow(Intervals(h, PeriodStart), PeriodStart, Moment)
  <2>1. f[h] = Downtime(Merge(Intervals(h, PeriodStart)), PeriodStart, Moment)
    BY DEF agentUptimePercent
  <2>2. f[h] = Cardinality(W)
    BY <1>1, <2>1, IntervalsFacts, DowntimeOfMerged
  <2>3. W \in SUBSET (PeriodStart..(Moment - 1))
    BY DEF WithinWindow
  <2>4. IsFiniteSet(PeriodStart..(Moment - 1)) /\ Cardinality(PeriodStart..(Moment - 1)) = Span
    <3> DEFINE b == Moment - 1
    <3>1. b \in Int /\ (PeriodStart > b => Span = 0) /\ b - PeriodStart + 1 = Span
      BY <1>1
    <3> HIDE DEF b
    <3>2. IsFiniteSet(PeriodStart..b)
          /\ Cardinality(PeriodStart..b) = IF PeriodStart > b THEN 0 ELSE b - PeriodStart + 1
      BY <1>1, <3>1, FS_Interval
    <3> QED
      BY <3>1, <3>2 DEF b
  <2> HIDE DEF W
  <2>5. Cardinality(W) <= Span /\ IsFiniteSet(W)
    BY <2>3, <2>4, FS_Subset
  <2>6. Cardinality(W) \in Nat
    BY <2>5, FS_CardinalityType
  <2> HIDE DEF f
  <2> QED
    BY <2>2, <2>5, <2>6
<1>3. SumFunction(f) = SumFunctionOnSet(f, ReportedHost)
  <2>1. DOMAIN f = ReportedHost
    OBVIOUS
  <2> HIDE DEF f
  <2> QED
    BY <2>1 DEF SumFunction
<1>4. buildFleetSummary = <<SumFunction(f), Cardinality(ReportedHost) * Span>>
  BY DEF buildFleetSummary
<1> HIDE DEF f
<1>5. SumFunctionOnSet(f, ReportedHost) <= Cardinality(ReportedHost) * Span
  BY <1>1, <1>2, SumBounds
<1> QED
  BY <1>3, <1>4, <1>5

\* The alerts fired in the period, by their rules.
LEMMA FiredFacts ==
    ASSUME history \in Histories
    PROVE  /\ IsFiniteSet(Fired) /\ Cardinality(Fired) \in Nat
           /\ \A a \in Fired : a.rule \in Int /\ a.fired \in Int /\ a.resolved \in Int
<1>1. Fired \in SUBSET history
  BY DEF Fired
<1>2. IsFiniteSet(Fired)
  BY <1>1, HistoryFacts, FS_Subset
<1> QED
  BY <1>1, <1>2, HistoryFacts, FS_CardinalityType

LEMMA RulesTold ==
    ASSUME history \in Histories
    PROVE  /\ SumFunction([i \in DOMAIN TopRules |-> TopRules[i][2]]) = Cardinality(Fired)
           /\ \A i \in 1..(Len(TopRules) - 1) : TopRules[i][2] >= TopRules[i + 1][2]
<1> DEFINE rules == {a.rule : a \in Fired}  R == MoreFirings(rules)  n == Cardinality(rules)  s == Sorted(rules, R)
           f == [i \in DOMAIN TopRules |-> TopRules[i][2]]
<1>1. IsFiniteSet(Fired) /\ (\A a \in Fired : a.rule \in rules) /\ (\A r \in rules : r \in Int)
      /\ \A r \in rules : \E a \in Fired : a.rule = r
  BY FiredFacts
<1>2. \A x, y \in rules : <<x, y>> \in R <=> Firings(x) > Firings(y) \/ (Firings(x) = Firings(y) /\ x < y)
  BY DEF MoreFirings
<1>3. TopRules = [i \in DOMAIN s |-> <<s[i], Firings(s[i])>>]
  BY DEF TopRules
<1>4. IsFiniteSet(rules)
  <2> DEFINE g == [a \in Fired |-> a.rule]
  <2>1. g \in [Fired -> rules] /\ \A r \in rules : \E a \in Fired : g[a] = r
    OBVIOUS
  <2>2. g \in Surjection(Fired, rules)
    <3> HIDE DEF g, rules
    <3> QED
      BY <2>1 DEF Surjection
  <2> HIDE DEF g, rules
  <2> QED
    BY <1>1, <2>2, FS_Surjection
<1> HIDE DEF rules, R
<1>5. \A r : Firings(r) \in Nat
  <2> TAKE r
  <2> DEFINE S == {a \in Fired : a.rule = r}
  <2>1. S \in SUBSET Fired /\ Firings(r) = Cardinality(S)
    BY DEF Firings
  <2> HIDE DEF S
  <2>2. IsFiniteSet(S)
    BY <1>1, <2>1, FS_Subset
  <2> QED
    BY <2>1, <2>2, FS_CardinalityType
<1>6. \A x \in rules : <<x, x>> \notin R
  BY <1>1, <1>2, <1>5
<1>7. \A x, y, z \in rules : <<x, y>> \in R /\ <<y, z>> \in R => <<x, z>> \in R
  <2> SUFFICES ASSUME NEW x \in rules, NEW y \in rules, NEW z \in rules, <<x, y>> \in R, <<y, z>> \in R
               PROVE  <<x, z>> \in R
    OBVIOUS
  <2>1. /\ Firings(x) > Firings(y) \/ (Firings(x) = Firings(y) /\ x < y)
        /\ Firings(y) > Firings(z) \/ (Firings(y) = Firings(z) /\ y < z)
    BY <1>2
  <2>2. x \in Int /\ y \in Int /\ z \in Int /\ Firings(x) \in Int /\ Firings(y) \in Int /\ Firings(z) \in Int
    BY <1>1, <1>5
  <2>3. Firings(x) > Firings(z) \/ (Firings(x) = Firings(z) /\ x < z)
    BY <2>1, <2>2
  <2> QED
    BY <1>2, <2>3
<1>8. \A x, y \in rules : x # y => <<x, y>> \in R \/ <<y, x>> \in R
  <2> SUFFICES ASSUME NEW x \in rules, NEW y \in rules, x # y PROVE <<x, y>> \in R \/ <<y, x>> \in R
    OBVIOUS
  <2>1. x \in Int /\ y \in Int /\ Firings(x) \in Int /\ Firings(y) \in Int
    BY <1>1, <1>5
  <2>2. \/ Firings(x) > Firings(y) \/ (Firings(x) = Firings(y) /\ x < y)
        \/ Firings(y) > Firings(x) \/ (Firings(y) = Firings(x) /\ y < x)
    BY <2>1
  <2> QED
    BY <1>2, <2>2
<1>9. /\ n \in Nat /\ s \in Bijection(1..n, rules)
      /\ \A i, j \in 1..n : i < j => <<s[i], s[j]>> \in R
  BY <1>4, <1>6, <1>7, <1>8, SortedElements
<1> HIDE DEF s, n
<1>10. /\ s \in [1..n -> rules] /\ DOMAIN s = 1..n /\ (\A r \in rules : \E i \in 1..n : s[i] = r)
       /\ (\A i \in 1..n : s[i] \in rules) /\ \A i, j \in 1..n : s[i] = s[j] => i = j
  BY <1>9 DEF Bijection, Injection, Surjection, IsInjective
<1>11. DOMAIN TopRules = 1..n /\ Len(TopRules) = n /\ \A i \in 1..n : TopRules[i][2] = Firings(s[i])
  BY <1>3, <1>9, <1>10
<1>12. \A i \in 1..(Len(TopRules) - 1) : TopRules[i][2] >= TopRules[i + 1][2]
  <2> SUFFICES ASSUME NEW i \in 1..(n - 1) PROVE TopRules[i][2] >= TopRules[i + 1][2]
    BY <1>11
  <2>1. i \in 1..n /\ i + 1 \in 1..n /\ i < i + 1
    BY <1>9
  <2>2. <<s[i], s[i + 1]>> \in R /\ s[i] \in rules /\ s[i + 1] \in rules
    BY <1>9, <1>10, <2>1
  <2>3. Firings(s[i]) > Firings(s[i + 1]) \/ Firings(s[i]) = Firings(s[i + 1])
    BY <1>2, <2>2
  <2> QED
    BY <1>5, <1>11, <2>1, <2>3
<1> DEFINE key == [a \in Fired |-> CHOOSE i \in 1..n : s[i] = a.rule]
<1>13. ASSUME NEW a \in Fired PROVE key[a] \in 1..n /\ s[key[a]] = a.rule
  <2>1. \E i \in 1..n : s[i] = a.rule
    BY <1>1, <1>10
  <2> QED
    BY <2>1
<1> HIDE DEF key
<1>14. \A i \in 1..n : f[i] = Cardinality(WithKey(Fired, key, i))
  <2> SUFFICES ASSUME NEW i \in 1..n PROVE f[i] = Cardinality(WithKey(Fired, key, i))
    OBVIOUS
  <2>1. f[i] = Firings(s[i])
    BY <1>11
  <2>2. \A a \in Fired : key[a] = i <=> a.rule = s[i]
    BY <1>10, <1>13
  <2>3. WithKey(Fired, key, i) = {a \in Fired : a.rule = s[i]}
    BY <2>2 DEF WithKey
  <2> QED
    BY <2>1, <2>3 DEF Firings
<1>15. KeyedBy(Fired, key, 1..n) = Fired
  BY <1>13 DEF KeyedBy
<1>16. SumFunction(f) = SumFunctionOnSet(f, 1..n)
  <2>1. DOMAIN f = 1..n
    BY <1>11
  <2> HIDE DEF f
  <2> QED
    BY <2>1 DEF SumFunction
<1>17. IsFiniteSet(1..n)
  BY <1>9, FS_Interval
<1>18. SumFunction(f) = Cardinality(Fired)
  <2> DEFINE D == 1..n
  <2>1. IsFiniteSet(D) /\ (\A i \in D : f[i] = Cardinality(WithKey(Fired, key, i))) /\ KeyedBy(Fired, key, D) = Fired
    BY <1>14, <1>15, <1>17
  <2> HIDE DEF f, D
  <2>2. SumFunctionOnSet(f, D) = Cardinality(KeyedBy(Fired, key, D))
    BY <1>1, <2>1, SumOfParts
  <2> QED
    BY <1>16, <2>1, <2>2 DEF D
<1> QED
  BY <1>12, <1>18

\* The times to resolution are of alerts of the period, each at least a moment.
LEMMA ResolutionTold ==
    ASSUME history \in Histories
    PROVE  TimesToResolve[2] <= Cardinality(Fired) /\ TimesToResolve[1] >= TimesToResolve[2]
<1> DEFINE resolved == {a \in Fired : a.resolved > a.fired}
           f == [a \in resolved |-> a.resolved - a.fired]
<1>1. resolved \in SUBSET Fired /\ \A a \in resolved : f[a] \in Int /\ 1 <= f[a]
  BY FiredFacts
<1>2. TimesToResolve = <<SumFunction(f), Cardinality(resolved)>>
  BY DEF TimesToResolve
<1>3. SumFunction(f) = SumFunctionOnSet(f, resolved)
  <2>1. DOMAIN f = resolved
    OBVIOUS
  <2> HIDE DEF f, resolved
  <2> QED
    BY <2>1 DEF SumFunction
<1> HIDE DEF f, resolved
<1>4. IsFiniteSet(resolved) /\ Cardinality(resolved) <= Cardinality(Fired)
  BY <1>1, FiredFacts, FS_Subset
<1>5. Cardinality(resolved) * 1 <= SumFunctionOnSet(f, resolved)
  BY <1>1, <1>4, SumBounds
<1>6. Cardinality(resolved) * 1 = Cardinality(resolved)
  BY <1>4, FS_CardinalityType
<1> QED
  BY <1>2, <1>3, <1>4, <1>5, <1>6

\* The report and the page give the same downtime, and the bars add up to it.
LEMMA AgentTold ==
    ASSUME history \in Histories, NEW h, Cardinality({a \in history : a.host = h}) <= AlertLimit
    PROVE  LET m == computeAgentMetrics(h) IN
           /\ agentUptimePercent(h) = Covered(h, PeriodStart, Moment)
           /\ m.day = Covered(h, Moment - DayLength, Moment)
           /\ m.longest = Covered(h, Moment - LongestDays * DayLength, Moment)
           /\ SumFunction([d \in 0..(Bars - 1) |-> m.daily[d].down])
                = Covered(h, Moment - Bars * DayLength, Moment)
           /\ m.day > 0 => m.lastIncident > 0 \/ \E a \in history : a.host = h /\ a.fired = 0
<1> DEFINE m == computeAgentMetrics(h)
           most == IF Bars < LongestDays THEN LongestDays ELSE Bars
           from == Moment - DayLength * most
           start == [d \in 0..Bars |-> Moment - (Bars - d) * DayLength]
           rows == LastingTo(h, from)
           f == [d \in 0..(Bars - 1) |-> m.daily[d].down]
<1>1. Cardinality(AllOf(h)) <= AlertLimit
  BY DEF AllOf
<1>2. Moment \in Int /\ PeriodStart \in Int /\ DayLength \in Nat \ {0} /\ Bars \in Nat \ {0} /\ LongestDays \in Nat \ {0}
  BY HistoryFacts, FleetAssumption
<1>3. agentUptimePercent(h) = Covered(h, PeriodStart, Moment)
  BY <1>1, <1>2, WindowTold DEF agentUptimePercent
<1>4. /\ m.day = Downtime(Merge(Intervals(h, from)), Moment - DayLength, Moment)
      /\ m.longest = Downtime(Merge(Intervals(h, from)), Moment - LongestDays * DayLength, Moment)
      /\ m.lastIncident = IF rows = <<>> THEN 0 ELSE Last(rows).fired
      /\ \A d \in 0..(Bars - 1) :
            m.daily[d].down = Downtime(Merge(Intervals(h, from)), Moment - (Bars - d) * DayLength,
                                       Moment - (Bars - (d + 1)) * DayLength)
  BY DEF computeAgentMetrics
<1>5. /\ from \in Int /\ from <= Moment - DayLength /\ from <= Moment - LongestDays * DayLength
      /\ from <= Moment - Bars * DayLength
      /\ Moment - DayLength \in Int /\ Moment - LongestDays * DayLength \in Int
  <2>1. most \in Nat /\ 1 <= most /\ LongestDays <= most /\ Bars <= most
    BY <1>2
  <2> DEFINE x == most * DayLength  y == LongestDays * DayLength  z == Bars * DayLength  one == 1 * DayLength
  <2>2. DayLength * most = x /\ one = DayLength
    BY <1>2, <2>1
  <2> HIDE DEF most
  <2>3. one <= x /\ y <= x /\ z <= x /\ one \in Nat /\ y \in Nat /\ z \in Nat
    BY <1>2, <2>1, Times
  <2>4. x \in Nat
    <3>1. most \in Nat /\ DayLength \in Nat /\ most <= most
      BY <1>2, <2>1
    <3> QED
      BY <3>1, Times
  <2> HIDE DEF x, y, z, one
  <2> QED
    BY <1>2, <2>2, <2>3, <2>4 DEF y, z
<1> HIDE DEF m, from
<1>6. m.day = Covered(h, Moment - DayLength, Moment)
  <2> DEFINE low == Moment - DayLength
  <2>1. low \in Int /\ from <= low /\ m.day = Downtime(Merge(Intervals(h, from)), low, Moment)
    BY <1>4, <1>5
  <2> HIDE DEF low
  <2>2. Downtime(Merge(Intervals(h, from)), low, Moment) = Covered(h, low, Moment)
    BY <1>1, <1>2, <1>5, <2>1, WindowTold
  <2> QED
    BY <2>1, <2>2 DEF low
<1>7. m.longest = Covered(h, Moment - LongestDays * DayLength, Moment)
  <2> DEFINE low == Moment - LongestDays * DayLength
  <2>1. low \in Int /\ from <= low /\ m.longest = Downtime(Merge(Intervals(h, from)), low, Moment)
    BY <1>4, <1>5
  <2> HIDE DEF low
  <2>2. Downtime(Merge(Intervals(h, from)), low, Moment) = Covered(h, low, Moment)
    BY <1>1, <1>2, <1>5, <2>1, WindowTold
  <2> QED
    BY <2>1, <2>2 DEF low
<1>8. SumFunction(f) = Covered(h, Moment - Bars * DayLength, Moment)
  <2>1. DaysBegin(start, Bars, DayLength, Moment)
    BY DEF DaysBegin
  <2>2. ASSUME NEW d \in 0..(Bars - 1) PROVE f[d] = Downtime(Merge(Intervals(h, from)), start[d], start[d + 1])
    <3>1. d \in 0..Bars /\ d + 1 \in 0..Bars
      BY <1>2
    <3>2. start[d] = Moment - (Bars - d) * DayLength /\ start[d + 1] = Moment - (Bars - (d + 1)) * DayLength
      BY <3>1
    <3> HIDE DEF start
    <3> QED
      BY <1>4, <3>2
  <2>3. DOMAIN f = 0..(Bars - 1)
    OBVIOUS
  <2> HIDE DEF f, start
  <2>4. SumFunctionOnSet(f, 0..(Bars - 1)) = Covered(h, Moment - Bars * DayLength, Moment)
    BY <1>1, <1>5, <2>1, <2>2, BarsAddUp
  <2> QED
    BY <2>3, <2>4 DEF SumFunction
<1>9. ASSUME m.day > 0 PROVE m.lastIncident > 0 \/ \E a \in history : a.host = h /\ a.fired = 0
  <2> DEFINE low == Moment - DayLength
  <2>1. Cardinality(FiringWithin(h, low, Moment)) > 0
    BY <1>6, <1>9 DEF Covered, FiringWithin, Firing
  <2>2. FiringWithin(h, low, Moment) # {}
    <3> SUFFICES ASSUME FiringWithin(h, low, Moment) = {} PROVE FALSE
      OBVIOUS
    <3>1. Cardinality(FiringWithin(h, low, Moment)) = 0
      BY FS_EmptySet
    <3> QED
      BY <2>1, <3>1
  <2>3. PICK t \in low..(Moment - 1) : \E a \in history : a.host = h /\ Firing(a, t)
    BY <2>2 DEF FiringWithin
  <2>4. PICK a \in history : a.host = h /\ Firing(a, t)
    BY <2>3
  <2>5. t \in Int /\ low <= t /\ t < Moment /\ from <= low
    BY <1>2, <1>5
  <2>6. a.fired \in Int /\ EndOf(a) \in Int /\ a.fired <= t /\ t < EndOf(a)
    BY <2>4, <2>5, EndFacts, HistoryFacts
  <2>7. a.fired <= Moment /\ EndOf(a) >= from
    BY <1>2, <1>5, <2>5, <2>6
  <2>8. PICK k \in Nat : DOMAIN rows = 1..k
    BY <1>5, LastingFacts
  <2>9. /\ \A i \in DOMAIN rows : rows[i] \in history /\ rows[i].host = h
        /\ \E i \in DOMAIN rows : rows[i] = a
    <3> DEFINE Found(rs) ==
                 /\ \A i \in DOMAIN rs : rs[i] \in history /\ rs[i].host = h
                 /\ \A b \in history : b.host = h /\ b.fired <= Moment /\ EndOf(b) >= from
                                            => \E i \in DOMAIN rs : rs[i] = b
    <3>1. Found(rows)
      BY <1>1, <1>5, LastingFacts
    <3> HIDE DEF rows
    <3> QED
      BY <2>4, <2>7, <3>1
  <2> HIDE DEF rows
  <2>10. rows # <<>> /\ k \in 1..k
    BY <2>8, <2>9
  <2>11. rows \in Seq(history) /\ Len(rows) = k
    <3>1. rows = [i \in 1..k |-> rows[i]]
      <4>1. rows = [i \in DOMAIN rows |-> rows[i]]
        BY <1>5, LastingIsFunction DEF rows
      <4> QED
        BY <2>8, <4>1
    <3> QED
      BY <2>8, <2>9, <3>1
  <2>12. m.lastIncident = rows[k].fired
    BY <1>4, <2>10, <2>11 DEF Last
  <2>13. rows[k] \in history /\ rows[k].host = h /\ rows[k].fired \in Nat
    BY <2>8, <2>9, <2>10, HistoryFacts
  <2> QED
    BY <2>12, <2>13
<1> QED
  BY <1>3, <1>6, <1>7, <1>8, <1>9 DEF m

\* The figures made of the alert history, of any history of any hosts and for any lengths of
\* the windows (ReportAddsUp): the report and the page agree on the moments at which an alert
\* was firing, the bars add up, and the rules account for every alert fired.
THEOREM ReportAddsUpAtStart == FleetInit(Histories) => ReportAddsUp
<1> SUFFICES ASSUME history \in Histories PROVE ReportAddsUp
  BY DEF FleetInit
<1>1. /\ SumFunction([i \in DOMAIN TopRules |-> TopRules[i][2]]) = Cardinality(Fired)
      /\ \A i \in 1..(Len(TopRules) - 1) : TopRules[i][2] >= TopRules[i + 1][2]
  BY RulesTold
<1>2. TimesToResolve[2] <= Cardinality(Fired) /\ TimesToResolve[1] >= TimesToResolve[2]
  BY ResolutionTold
<1>3. buildFleetSummary[1] <= buildFleetSummary[2]
  BY FleetTold
<1>4. /\ Build.alerts.topRules = TopRules /\ Build.alerts.resolution = TimesToResolve
      /\ Build.fleet = buildFleetSummary
  BY DEF Build, buildAlertsSummary
<1>5. LET rules == Build.alerts.topRules
          resolution == Build.alerts.resolution IN
      /\ SumFunction([i \in DOMAIN rules |-> rules[i][2]]) = Cardinality(Fired)
      /\ \A i \in 1..(Len(rules) - 1) : rules[i][2] >= rules[i + 1][2]
      /\ resolution[2] <= Cardinality(Fired) /\ resolution[1] >= resolution[2]
      /\ Build.fleet[1] <= Build.fleet[2]
  BY <1>1, <1>2, <1>3, <1>4
<1> QED
  BY <1>5, AgentTold DEF ReportAddsUp
-----------------------------------------------------------------------------
(* Reductions of metrics *)

\* A fraction, and its bounds by a whole number.
Fraction == [kind : {"number"}, num : Nat, den : Nat \ {0}]
AtMost(v, n) == v.num <= n * v.den
AtLeast(v, n) == n * v.den <= v.num

LEMMA Products ==
    ASSUME NEW a \in Nat, NEW b \in Nat
    PROVE  a * b \in Nat /\ a * b = b * a /\ (a > 0 /\ b > 0 => a * b > 0)
OBVIOUS

LEMMA ProductsGrow ==
    ASSUME NEW a \in Nat, NEW b \in Nat, NEW c \in Nat, a <= b
    PROVE  a * c <= b * c
OBVIOUS

LEMMA ProductsFit ==
    ASSUME NEW a \in Nat, NEW b \in Nat, NEW c \in Nat
    PROVE  (a * b) * c = a * (b * c) /\ (a + b) * c = a * c + b * c
OBVIOUS

LEMMA PlusFacts ==
    ASSUME NEW v \in Fraction, NEW w \in Fraction, NEW m \in Nat, NEW n \in Nat
    PROVE  /\ Plus(v, w) \in Fraction
           /\ AtMost(v, m) /\ AtMost(w, n) => AtMost(Plus(v, w), m + n)
           /\ AtLeast(v, m) /\ AtLeast(w, n) => AtLeast(Plus(v, w), m + n)
<1> DEFINE a == v.num  b == v.den  c == w.num  d == w.den
           x == a * d  y == c * b  z == b * d
<1>1. a \in Nat /\ b \in Nat /\ b > 0 /\ c \in Nat /\ d \in Nat /\ d > 0
  BY DEF Fraction
<1>2. Plus(v, w) = [kind |-> "number", num |-> x + y, den |-> z]
  BY DEF Plus
<1>3. AtMost(v, m) <=> a <= m * b
  BY DEF AtMost
<1>4. AtMost(w, n) <=> c <= n * d
  BY DEF AtMost
<1>5. AtLeast(v, m) <=> m * b <= a
  BY DEF AtLeast
<1>6. AtLeast(w, n) <=> n * d <= c
  BY DEF AtLeast
<1> HIDE DEF a, b, c, d
<1>7. x \in Nat /\ y \in Nat /\ z \in Nat /\ z > 0
  BY <1>1, Products
<1>8. (m + n) * z = m * z + n * z /\ m * z \in Nat /\ n * z \in Nat
  BY <1>7, ProductsFit, Products
<1>9. m * z = (m * b) * d /\ n * z = (n * d) * b /\ m * b \in Nat /\ n * d \in Nat
  <2>1. m * z = (m * b) * d
    BY <1>1, ProductsFit
  <2>2. z = d * b
    BY <1>1, Products
  <2>3. n * (d * b) = (n * d) * b
    BY <1>1, ProductsFit
  <2> QED
    BY <1>1, <2>1, <2>2, <2>3, Products
<1>10. /\ a <= m * b => x <= m * z
       /\ m * b <= a => m * z <= x
  BY <1>1, <1>9, ProductsGrow
<1>11. /\ c <= n * d => y <= n * z
       /\ n * d <= c => n * z <= y
  BY <1>1, <1>9, ProductsGrow
<1> HIDE DEF x, y, z
<1>12. Plus(v, w) \in Fraction /\ Plus(v, w).num = x + y /\ Plus(v, w).den = z
  BY <1>2, <1>7 DEF Fraction
<1>13. /\ a <= m * b /\ c <= n * d => x + y <= (m + n) * z
       /\ m * b <= a /\ n * d <= c => (m + n) * z <= x + y
  <2> DEFINE p == m * z  q == n * z
  <2>1. p \in Nat /\ q \in Nat /\ (m + n) * z = p + q
    BY <1>8
  <2>2. /\ a <= m * b => x <= p
        /\ m * b <= a => p <= x
        /\ c <= n * d => y <= q
        /\ n * d <= c => q <= y
    BY <1>10, <1>11
  <2> HIDE DEF p, q
  <2> QED
    BY <1>7, <2>1, <2>2
<1> QED
  BY <1>3, <1>4, <1>5, <1>6, <1>12, <1>13 DEF AtMost, AtLeast

\* The total of fractions that all have a bound.
LEMMA TotalFacts ==
    ASSUME NEW values \in Seq(Fraction)
    PROVE  /\ Total(values) \in Fraction
           /\ \A n \in Nat :
                /\ (\A i \in 1..Len(values) : AtMost(values[i], n)) => AtMost(Total(values), n * Len(values))
                /\ (\A i \in 1..Len(values) : AtLeast(values[i], n)) => AtLeast(Total(values), n * Len(values))
<1> DEFINE L == Len(values)
           Is(f) == f = [n \in 0..L |-> IF n = 0 THEN Number(0) ELSE Plus(f[n - 1], values[n])]
           u == CHOOSE f : Is(f)
<1>1. L \in Nat /\ \A i \in 1..L : values[i] \in Fraction
  OBVIOUS
<1>2. Total(values) = u[L]
  BY DEF Total
<1> HIDE DEF L
<1>3. Number(0) \in Fraction /\ Number(0).num = 0 /\ Number(0).den = 1
  BY DEF Number, Fraction
<1>4. \E f : Is(f)
  <2> DEFINE step == [p \in Nat \X Fraction |-> IF p[1] + 1 \in 1..L THEN Plus(p[2], values[p[1] + 1]) ELSE p[2]]
  <2>1. step \in [Nat \X Fraction -> Fraction]
    <3> SUFFICES ASSUME NEW p \in Nat \X Fraction
                 PROVE  (IF p[1] + 1 \in 1..L THEN Plus(p[2], values[p[1] + 1]) ELSE p[2]) \in Fraction
      OBVIOUS
    <3>1. p[2] \in Fraction
      OBVIOUS
    <3>2. ASSUME p[1] + 1 \in 1..L PROVE Plus(p[2], values[p[1] + 1]) \in Fraction
      <4>1. 0 \in Nat /\ values[p[1] + 1] \in Fraction
        BY <1>1, <3>2
      <4> QED
        BY <3>1, <4>1, PlusFacts
    <3> QED
      BY <3>1, <3>2
  <2>2. \A n \in Nat, v \in Fraction : n + 1 \in 1..L => step[<<n, v>>] = Plus(v, values[n + 1])
    OBVIOUS
  <2> HIDE DEF step
  <2>3. PICK g : Unfolds(g, Fraction, Number(0), step)
    BY <1>3, <2>1, Iterates
  <2>4. g \in [Nat -> Fraction] /\ g[0] = Number(0) /\ \A n \in Nat : g[n + 1] = step[<<n, g[n]>>]
    BY <2>3 DEF Unfolds
  <2> DEFINE h == [n \in 0..L |-> g[n]]
  <2>5. ASSUME NEW n \in 0..L PROVE h[n] = IF n = 0 THEN Number(0) ELSE Plus(h[n - 1], values[n])
    <3>1. CASE n = 0
      BY <2>4, <3>1
    <3>2. CASE n # 0
      <4>1. n - 1 \in Nat /\ (n - 1) + 1 = n /\ n \in 1..L /\ n - 1 \in 0..L
        BY <1>1, <3>2
      <4>2. g[n] = step[<<n - 1, g[n - 1]>>] /\ g[n - 1] \in Fraction
        BY <2>4, <4>1
      <4>3. step[<<n - 1, g[n - 1]>>] = Plus(g[n - 1], values[n])
        BY <2>2, <4>1, <4>2
      <4> QED
        BY <3>2, <4>1, <4>2, <4>3
    <3> QED
      BY <3>1, <3>2
  <2>6. Is(h)
    <3>1. h = [n \in 0..L |-> h[n]]
      OBVIOUS
    <3> HIDE DEF h
    <3> QED
      BY <2>5, <3>1
  <2> HIDE DEF h, Is
  <2> QED
    BY <2>6
<1>5. Is(u)
  <2> HIDE DEF Is
  <2> QED
    BY <1>4
<1>6. u[0] = Number(0) /\ \A n \in Nat : n + 1 \in 1..L => u[n + 1] = Plus(u[n], values[n + 1])
  <2> HIDE DEF u
  <2>1. u = [n \in 0..L |-> IF n = 0 THEN Number(0) ELSE Plus(u[n - 1], values[n])]
    BY <1>5
  <2>2. u[0] = Number(0)
    BY <1>1, <2>1
  <2>3. ASSUME NEW n \in Nat, n + 1 \in 1..L PROVE u[n + 1] = Plus(u[n], values[n + 1])
    <3>1. n + 1 \in 0..L /\ n + 1 # 0 /\ (n + 1) - 1 = n
      BY <1>1, <2>3
    <3> QED
      BY <2>1, <3>1
  <2> QED
    BY <2>2, <2>3
<1> HIDE DEF u
<1> DEFINE Most(b) == \A i \in 1..L : AtMost(values[i], b)
           Least(b) == \A i \in 1..L : AtLeast(values[i], b)
           Good(n) == u[n] \in Fraction /\ \A b \in Nat : /\ Most(b) => AtMost(u[n], b * n)
                                                          /\ Least(b) => AtLeast(u[n], b * n)
           P == {n \in Nat : n <= L => Good(n)}
<1>7. \A b \in Nat : \A i \in 1..L : (Most(b) => AtMost(values[i], b)) /\ (Least(b) => AtLeast(values[i], b))
  OBVIOUS
<1> HIDE DEF Most, Least
<1>8. 0 \in P
  <2>1. u[0] \in Fraction /\ u[0].num = 0 /\ u[0].den = 1
    BY <1>3, <1>6
  <2>2. \A b \in Nat : AtMost(u[0], b * 0) /\ AtLeast(u[0], b * 0)
    BY <2>1 DEF AtMost, AtLeast
  <2> QED
    BY <2>1, <2>2
<1>9. ASSUME NEW n \in P PROVE n + 1 \in P
  <2> SUFFICES ASSUME n + 1 <= L PROVE Good(n + 1)
    OBVIOUS
  <2>1. n \in Nat /\ (n <= L => Good(n))
    OBVIOUS
  <2>2. n <= L /\ n + 1 \in 1..L
    BY <1>1, <2>1
  <2>3. u[n + 1] = Plus(u[n], values[n + 1]) /\ values[n + 1] \in Fraction
    BY <1>1, <1>6, <2>1, <2>2
  <2>4. u[n] \in Fraction /\ \A b \in Nat : (Most(b) => AtMost(u[n], b * n)) /\ (Least(b) => AtLeast(u[n], b * n))
    BY <2>1, <2>2
  <2>5. u[n + 1] \in Fraction
    <3>1. 0 \in Nat
      OBVIOUS
    <3> QED
      BY <2>3, <2>4, <3>1, PlusFacts
  <2>6. ASSUME NEW b \in Nat PROVE (Most(b) => AtMost(u[n + 1], b * (n + 1))) /\ (Least(b) => AtLeast(u[n + 1], b * (n + 1)))
    <3> DEFINE c == b * n
    <3>1. c \in Nat /\ b * (n + 1) = c + b
      BY <2>1, Products
    <3>2. (Most(b) => AtMost(u[n], c)) /\ (Least(b) => AtLeast(u[n], c))
      BY <2>4
    <3> HIDE DEF c
    <3>3. (Most(b) => AtMost(values[n + 1], b)) /\ (Least(b) => AtLeast(values[n + 1], b))
      BY <1>7, <2>2
    <3>4. /\ AtMost(u[n], c) /\ AtMost(values[n + 1], b) => AtMost(u[n + 1], c + b)
          /\ AtLeast(u[n], c) /\ AtLeast(values[n + 1], b) => AtLeast(u[n + 1], c + b)
      BY <2>3, <2>4, <3>1, PlusFacts
    <3> QED
      BY <3>1, <3>2, <3>3, <3>4
  <2> QED
    BY <2>5, <2>6
<1>10. L \in P
  <2>1. P \in SUBSET Nat
    OBVIOUS
  <2> HIDE DEF P
  <2> QED
    BY <1>1, <1>8, <1>9, <2>1, AllNumbers
<1>11. Good(L)
  BY <1>1, <1>10
<1> QED
  BY <1>2, <1>11 DEF Most, Least, L

\* A mean lies between the smallest and the greatest.
LEMMA MeanFacts ==
    ASSUME NEW values \in Seq(Fraction), Len(values) > 0
    PROVE  /\ Mean(values) \in Fraction
           /\ \A n \in Nat : /\ (\A i \in 1..Len(values) : AtMost(values[i], n)) => AtMost(Mean(values), n)
                             /\ (\A i \in 1..Len(values) : AtLeast(values[i], n)) => AtLeast(Mean(values), n)
<1> DEFINE t == Total(values)  l == Len(values)
<1>1. t \in Fraction /\ l \in Nat /\ l > 0
  BY TotalFacts
<1>2. \A n \in Nat : /\ (\A i \in 1..Len(values) : AtMost(values[i], n)) => AtMost(t, n * l)
                     /\ (\A i \in 1..Len(values) : AtLeast(values[i], n)) => AtLeast(t, n * l)
  BY TotalFacts
<1>3. Mean(values) = [t EXCEPT !.den = @ * l]
  BY DEF Mean
<1> HIDE DEF t, l
<1>4. t.num \in Nat /\ t.den \in Nat /\ t.den > 0 /\ t.kind = "number"
  BY <1>1 DEF Fraction
<1>5. t.den * l \in Nat /\ t.den * l > 0
  BY <1>1, <1>4, Products
<1>6. Mean(values) \in Fraction /\ Mean(values).num = t.num /\ Mean(values).den = t.den * l
  <2> DEFINE d == t.den * l
  <2>1. Mean(values) = [t EXCEPT !.den = d] /\ d \in Nat \ {0}
    BY <1>3, <1>5
  <2> HIDE DEF d
  <2>2. Mean(values) \in Fraction /\ Mean(values).num = t.num /\ Mean(values).den = d
    BY <1>1, <2>1 DEF Fraction
  <2> QED
    BY <2>2 DEF d
<1>7. \A n \in Nat : n * (t.den * l) = (n * l) * t.den
  <2> SUFFICES ASSUME NEW n \in Nat PROVE n * (t.den * l) = (n * l) * t.den
    OBVIOUS
  <2>1. t.den * l = l * t.den
    BY <1>1, <1>4, Products
  <2> QED
    BY <1>1, <1>4, <2>1, ProductsFit
<1>8. \A n \in Nat : /\ AtMost(t, n * l) => AtMost(Mean(values), n)
                     /\ AtLeast(t, n * l) => AtLeast(Mean(values), n)
  BY <1>6, <1>7 DEF AtMost, AtLeast
<1> QED
  BY <1>2, <1>6, <1>8

\* Data with a percentage only, and data without numbers and strings.
CpuData(d) == DOMAIN d = {"total_percent"} /\ d["total_percent"] \in Fraction
Unaveraged(d) == \A f \in DOMAIN d : d[f].kind \notin {"number", "string"}

LEMMA CpuAverage ==
    ASSUME NEW datas, NEW n \in Nat \ {0}, DOMAIN datas = 1..n, \A i \in 1..n : CpuData(datas[i])
    PROVE  LET mean == averageMaps(datas) IN
           /\ CpuData(mean)
           /\ \A b \in Nat :
                /\ (\A i \in 1..n : AtMost(datas[i]["total_percent"], b)) => AtMost(mean["total_percent"], b)
                /\ (\A i \in 1..n : AtLeast(datas[i]["total_percent"], b)) => AtLeast(mean["total_percent"], b)
<1> DEFINE x == "total_percent"
           fields == UNION {DOMAIN datas[i] : i \in DOMAIN datas}
           having(f, kind) == {i \in DOMAIN datas : f \in DOMAIN datas[i] /\ datas[i][f].kind = kind}
           numeric == {f \in fields : having(f, "number") # {}}
           textual == {f \in fields : having(f, "string") # {}}
           found(f) == At(datas, having(f, "number"))
           values(f) == [i \in DOMAIN found(f) |-> found(f)[i][f]]
<1>1. \A i \in 1..n : DOMAIN datas[i] = {x} /\ datas[i][x] \in Fraction /\ datas[i][x].kind = "number"
  BY DEF CpuData, Fraction
<1>2. averageMaps(datas) = [f \in numeric \union textual |->
                              IF f \in numeric THEN Mean(values(f)) ELSE Last(At(datas, having(f, "string")))[f]]
  BY DEF averageMaps
<1>3. having(x, "number") = 1..n
  BY <1>1
<1>4. numeric = {x} /\ textual = {}
  <2>1. fields = {x}
    <3>1. 1 \in 1..n
      OBVIOUS
    <3> QED
      BY <1>1, <3>1
  <2>2. having(x, "number") # {}
    BY <1>3
  <2>3. having(x, "string") = {}
    BY <1>1
  <2> HIDE DEF having, fields
  <2> QED
    BY <2>1, <2>2, <2>3
<1> HIDE DEF having, numeric, textual
<1>5. DOMAIN averageMaps(datas) = {x} /\ averageMaps(datas)[x] = Mean(values(x))
  BY <1>2, <1>4
<1> DEFINE P == 1..n  c == Cardinality(P)
<1>6. P \in SUBSET Int /\ IsFiniteSet(P) /\ c = n
  <2>1. 1 \in Int /\ n \in Int
    OBVIOUS
  <2>2. IsFiniteSet(1..n) /\ Cardinality(1..n) = IF 1 > n THEN 0 ELSE n - 1 + 1
    BY <2>1, FS_Interval
  <2> QED
    BY <2>2
<1> HIDE DEF P
<1>7. PICK pos \in Bijection(1..c, P) : At(datas, P) = [i \in 1..c |-> datas[pos[i]]]
  BY <1>6, AtElements
<1>8. pos \in [1..n -> 1..n]
  BY <1>6, <1>7 DEF Bijection, Injection, P
<1>9. found(x) = [i \in 1..n |-> datas[pos[i]]]
  BY <1>3, <1>6, <1>7 DEF P
<1> HIDE DEF found
<1>10. values(x) = [i \in 1..n |-> datas[pos[i]][x]]
  BY <1>9
<1> DEFINE vs == values(x)
<1> HIDE DEF values
<1>11. /\ vs \in Seq(Fraction) /\ Len(vs) = n
       /\ \A i \in 1..n : pos[i] \in 1..n /\ vs[i] = datas[pos[i]][x]
  <2>1. \A i \in 1..n : pos[i] \in 1..n /\ datas[pos[i]][x] \in Fraction
    BY <1>1, <1>8
  <2>2. vs = [i \in 1..n |-> datas[pos[i]][x]]
    BY <1>10
  <2> HIDE DEF vs
  <2> QED
    BY <2>1, <2>2
<1> HIDE DEF vs
<1>12. /\ Mean(vs) \in Fraction
       /\ \A b \in Nat : /\ (\A i \in 1..Len(vs) : AtMost(vs[i], b)) => AtMost(Mean(vs), b)
                         /\ (\A i \in 1..Len(vs) : AtLeast(vs[i], b)) => AtLeast(Mean(vs), b)
  BY <1>11, MeanFacts
<1>13. averageMaps(datas)[x] = Mean(vs)
  BY <1>5 DEF vs
<1> QED
  BY <1>5, <1>11, <1>12, <1>13 DEF CpuData

LEMMA OtherAverage ==
    ASSUME NEW datas, \A i \in DOMAIN datas : Unaveraged(datas[i])
    PROVE  DOMAIN averageMaps(datas) = {}
<1> DEFINE fields == UNION {DOMAIN datas[i] : i \in DOMAIN datas}
           having(f, kind) == {i \in DOMAIN datas : f \in DOMAIN datas[i] /\ datas[i][f].kind = kind}
           numeric == {f \in fields : having(f, "number") # {}}
           textual == {f \in fields : having(f, "string") # {}}
<1>1. \A f : having(f, "number") = {} /\ having(f, "string") = {}
  BY DEF Unaveraged
<1>2. numeric = {} /\ textual = {}
  <2> HIDE DEF having, fields
  <2> QED
    BY <1>1
<1>3. DOMAIN averageMaps(datas) = numeric \union textual
  BY DEF averageMaps
<1> HIDE DEF numeric, textual
<1> QED
  BY <1>2, <1>3

\* What an agent reports of each type.
OtherTypes == {"processes", "services", "cve_scan", "disk"}

LEMMA SnapshotFacts ==
    ASSUME NEW type
    PROVE
    /\ type = "cpu" => \A s \in Snapshot(type) : CpuData(s) /\ s.total_percent.num \in Nat /\ s.total_percent.den = 1
                                            /\ s.total_percent = s["total_percent"]
    /\ type \in OtherTypes => \A s \in Snapshot(type) : Unaveraged(s)
<1>1. Percents \subseteq Nat
  BY ReaderAssumption
<1>2. ASSUME type = "cpu", NEW s \in Snapshot(type)
      PROVE  CpuData(s) /\ s.total_percent.num \in Nat /\ s.total_percent.den = 1
             /\ s.total_percent = s["total_percent"]
  <2>1. PICK p \in Percents : s = [total_percent |-> Number(p)]
    BY <1>2 DEF Snapshot
  <2>2. s.total_percent = Number(p) /\ s["total_percent"] = Number(p) /\ DOMAIN s = {"total_percent"}
    BY <2>1
  <2>3. Number(p) \in Fraction /\ Number(p).num \in Nat /\ Number(p).den = 1
    BY <1>1 DEF Number, Fraction
  <2> QED
    BY <2>2, <2>3 DEF CpuData
<1>3. ASSUME type = "processes", NEW s \in Snapshot(type) PROVE Unaveraged(s)
  BY <1>3 DEF Snapshot, List, Unaveraged
<1>4. ASSUME type = "services", NEW s \in Snapshot(type) PROVE Unaveraged(s)
  BY <1>4 DEF Snapshot, List, Unaveraged
<1>5. ASSUME type = "cve_scan", NEW s \in Snapshot(type) PROVE Unaveraged(s)
  <2>1. PICK b \in BOOLEAN, p \in Percents :
             s = [available |-> [kind |-> "bool", is |-> b], totals |-> [kind |-> "map", critical |-> Number(p)]]
    BY <1>5 DEF Snapshot
  <2>2. DOMAIN s = {"available", "totals"} /\ s["available"].kind = "bool" /\ s["totals"].kind = "map"
    BY <2>1
  <2> QED
    BY <2>2 DEF Unaveraged
<1>6. ASSUME type = "disk", NEW s \in Snapshot(type) PROVE Unaveraged(s)
  BY <1>6 DEF Snapshot, List, Unaveraged
<1> QED
  BY <1>2, <1>3, <1>4, <1>5, <1>6 DEF OtherTypes

\* A value is no greater, and no smaller, than all that was reported.
RestsOn(v, reps) ==
    \A n \in Nat :
      /\ (\A i \in 1..Len(reps) : reps[i].total_percent.num <= n) => AtMost(v, n)
      /\ (\A i \in 1..Len(reps) : n <= reps[i].total_percent.num) => AtLeast(v, n)

\* Reductions keep a percentage within what was reported, and leave nothing else: a row
\* without numbers is one of the reports or empty.
ReadersInv ==
    /\ mtype \in MetricTypes /\ clock \in Nat
    /\ \A type : type = mtype => reports \in Seq(Snapshot(type))
    /\ IsFiniteSet(table) /\ (table # {} => mtype # "logs" /\ Len(reports) > 0)
    /\ \A r \in table : r.ts \in Nat
    /\ \A r, q \in table : r.res = q.res /\ r.ts = q.ts => r = q
    /\ mtype = "cpu" => \A r \in table : CpuData(r.data) /\ RestsOn(r.data["total_percent"], reports)
    /\ mtype \in OtherTypes => \A r \in table : DOMAIN r.data = {} \/ \E i \in 1..Len(reports) : r.data = reports[i]

LEMMA TypesOfMetrics == ReadersInv => mtype \in {"cpu", "logs"} \union OtherTypes
BY ReaderAssumption DEF ReadersInv, OtherTypes

LEMMA ReportStep ==
    ASSUME ReadersInv, ReportMetric
    PROVE  ReadersInv'
<1>1. PICK s \in Snapshot(mtype) : /\ reports' = Append(reports, s)
                                   /\ table' = table \union {[ts |-> clock, res |-> "raw", data |-> s]}
  BY DEF ReportMetric
<1>2. mtype' = mtype /\ clock' = clock /\ mtype # "logs" /\ \A r \in table : r.res = "raw" => r.ts < clock
  BY DEF ReportMetric
<1>3. mtype \in MetricTypes /\ clock \in Nat /\ reports \in Seq(Snapshot(mtype)) /\ IsFiniteSet(table)
  BY DEF ReadersInv
<1> DEFINE row == [ts |-> clock, res |-> "raw", data |-> s]  n == Len(reports)
<1>4. row.ts = clock /\ row.res = "raw" /\ row.data = s
  OBVIOUS
<1>5. table' = table \union {row}
  BY <1>1
<1> HIDE DEF row
<1>6. /\ n \in Nat /\ Len(reports') = n + 1 /\ reports' \in Seq(Snapshot(mtype))
      /\ reports'[n + 1] = s /\ \A i \in 1..n : reports'[i] = reports[i]
  <2> DEFINE S == Snapshot(mtype)
  <2>1. reports \in Seq(S) /\ s \in S /\ reports' = Append(reports, s)
    BY <1>1, <1>3
  <2> HIDE DEF S
  <2>2. /\ n \in Nat /\ Len(reports') = n + 1 /\ reports' \in Seq(S)
        /\ reports'[n + 1] = s /\ \A i \in 1..n : reports'[i] = reports[i]
    BY <2>1, AppendProperties
  <2> QED
    BY <2>2 DEF S
<1> HIDE DEF n
<1>7. /\ n + 1 \in 1..(n + 1) /\ \A i \in 1..n : i \in 1..(n + 1)
      /\ n + 1 > 0
  BY <1>6
<1>8. IsFiniteSet(table')
  BY <1>3, <1>5, FS_AddElement
<1>9. \A r \in table' : r.ts \in Nat
  BY <1>3, <1>4, <1>5 DEF ReadersInv
<1>10. \A r, q \in table' : r.res = q.res /\ r.ts = q.ts => r = q
  <2>1. \A r \in table : ~(r.res = row.res /\ r.ts = row.ts)
    <3> SUFFICES ASSUME NEW r \in table, r.res = row.res, r.ts = row.ts PROVE FALSE
      OBVIOUS
    <3>1. r.ts < clock
      BY <1>2, <1>4
    <3> QED
      BY <1>3, <1>4, <3>1
  <2> QED
    BY <1>5, <2>1 DEF ReadersInv
<1>11. ASSUME mtype = "cpu", NEW r \in table'
       PROVE  CpuData(r.data) /\ RestsOn(r.data["total_percent"], reports')
  <2>1. CASE r \in table
    <3>1. CpuData(r.data) /\ RestsOn(r.data["total_percent"], reports)
      BY <1>11, <2>1 DEF ReadersInv
    <3>2. \A m \in Nat : /\ (\A i \in 1..Len(reports') : reports'[i].total_percent.num <= m)
                               => \A i \in 1..Len(reports) : reports[i].total_percent.num <= m
                         /\ (\A i \in 1..Len(reports') : m <= reports'[i].total_percent.num)
                               => \A i \in 1..Len(reports) : m <= reports[i].total_percent.num
      BY <1>6, <1>7 DEF n
    <3> QED
      BY <3>1, <3>2 DEF RestsOn
  <2>2. CASE r = row
    <3>1. /\ CpuData(s) /\ s.total_percent.num \in Nat /\ s.total_percent.den = 1
          /\ s.total_percent = s["total_percent"]
      BY <1>1, <1>11, SnapshotFacts
    <3> DEFINE v == s["total_percent"]
    <3>2. v = s.total_percent /\ v.num \in Nat /\ v.den = 1
      BY <3>1
    <3> HIDE DEF v
    <3>3. \A m \in Nat : (v.num <= m => AtMost(v, m)) /\ (m <= v.num => AtLeast(v, m))
      BY <3>2 DEF AtMost, AtLeast
    <3>4. reports'[n + 1].total_percent = v
      BY <1>6, <3>2
    <3>5. RestsOn(v, reports')
      BY <1>6, <1>7, <3>3, <3>4 DEF RestsOn
    <3> QED
      BY <1>4, <2>2, <3>1, <3>5 DEF v
  <2> QED
    BY <1>5, <2>1, <2>2
<1>12. ASSUME mtype \in OtherTypes, NEW r \in table'
       PROVE  DOMAIN r.data = {} \/ \E i \in 1..Len(reports') : r.data = reports'[i]
  <2>1. CASE r \in table
    <3>1. DOMAIN r.data = {} \/ \E i \in 1..n : r.data = reports[i]
      BY <1>12, <2>1 DEF ReadersInv, n
    <3> QED
      BY <1>6, <1>7, <3>1
  <2>2. CASE r = row
    BY <1>4, <1>6, <1>7, <2>2
  <2> QED
    BY <1>5, <2>1, <2>2
<1>13. \A type : type = mtype' => reports' \in Seq(Snapshot(type))
  BY <1>2, <1>6
<1>14. Len(reports') > 0
  BY <1>6, <1>7
<1> QED
  BY <1>2, <1>3, <1>8, <1>9, <1>10, <1>11, <1>12, <1>13, <1>14 DEF ReadersInv

\* A reduction averages rows of the table and puts the average in their place.
LEMMA ReduceStep ==
    ASSUME ReadersInv, NEW low, NEW high, NEW size \in Nat \ {0}, ReduceData(low, high, size)
    PROVE  ReadersInv'
<1>1. PICK r \in table :
        LET start == (r.ts \div size) * size
            recs == {q \in table : q.res = low /\ (q.ts \div size) * size = start /\ q.ts < clock}
            there == \E q \in table : q.res = high /\ q.ts = start
            byTime == Sorted(recs, {p \in recs \X recs : p[1].ts < p[2].ts}) IN
        /\ r.res = low /\ recs # {}
        /\ table' = (table \ recs) \union
                       IF there THEN {}
                       ELSE {[ts |-> start, res |-> high,
                              data |-> averageMaps([i \in DOMAIN byTime |-> byTime[i].data])]}
        /\ UNCHANGED <<mtype, clock, reports, lines>>
  BY DEF ReduceData
<1> DEFINE start == (r.ts \div size) * size
           recs == {q \in table : q.res = low /\ (q.ts \div size) * size = start /\ q.ts < clock}
           there == \E q \in table : q.res = high /\ q.ts = start
           R == {p \in recs \X recs : p[1].ts < p[2].ts}
           byTime == Sorted(recs, R)
           datas == [i \in DOMAIN byTime |-> byTime[i].data]
           row == [ts |-> start, res |-> high, data |-> averageMaps(datas)]
           n == Cardinality(recs)
<1>2. recs # {} /\ recs \in SUBSET table /\ mtype' = mtype /\ clock' = clock /\ reports' = reports
  BY <1>1
<1>3. table' = (table \ recs) \union IF there THEN {} ELSE {row}
  BY <1>1
<1>4. row.ts = start /\ row.res = high /\ row.data = averageMaps(datas)
  OBVIOUS
<1>5. start \in Nat
  <2>1. r.ts \in Nat
    BY DEF ReadersInv
  <2>2. r.ts \div size \in Nat
    BY <2>1
  <2> QED
    BY <2>2, Products
<1>6. \A q \in table : q.ts \in Int
  BY DEF ReadersInv
<1>7. \A p, q \in recs : p # q => p.ts # q.ts
  <2>1. \A q \in recs : q \in table /\ q.res = low
    OBVIOUS
  <2> QED
    BY <2>1 DEF ReadersInv
<1>8. ~there => \A q \in table : ~(q.res = high /\ q.ts = start)
  OBVIOUS
<1> HIDE DEF row, there, start, recs
<1>9. \A p, q \in recs : <<p, q>> \in R <=> p.ts < q.ts
  OBVIOUS
<1>10. byTime = Sorted(recs, R) /\ datas = [i \in DOMAIN byTime |-> byTime[i].data]
  OBVIOUS
<1> HIDE DEF R, byTime, datas
<1>11. \A p \in recs : p.ts \in Int
  BY <1>2, <1>6
<1>12. /\ \A p \in recs : <<p, p>> \notin R
       /\ \A p, q, o \in recs : <<p, q>> \in R /\ <<q, o>> \in R => <<p, o>> \in R
       /\ \A p, q \in recs : p # q => <<p, q>> \in R \/ <<q, p>> \in R
  BY <1>7, <1>9, <1>11
<1>13. IsFiniteSet(table) /\ IsFiniteSet(recs)
  BY <1>2, FS_Subset DEF ReadersInv
<1>14. n \in Nat /\ byTime \in Bijection(1..n, recs)
  BY <1>10, <1>12, <1>13, SortedElements
<1>15. n # 0
  BY <1>2, <1>13, FS_EmptySet
<1> HIDE DEF n
<1>16. DOMAIN byTime = 1..n /\ \A i \in 1..n : byTime[i] \in recs
  BY <1>14 DEF Bijection, Injection
<1>17. DOMAIN datas = 1..n /\ \A i \in 1..n : byTime[i] \in table /\ datas[i] = byTime[i].data
  BY <1>2, <1>10, <1>16
<1>18. table # {} /\ mtype # "logs" /\ Len(reports) > 0
  BY <1>2 DEF ReadersInv
<1>19. IsFiniteSet(table')
  <2>1. IsFiniteSet(table \ recs)
    BY <1>13, FS_Subset
  <2>2. IsFiniteSet((table \ recs) \union {row})
    BY <2>1, FS_AddElement
  <2> QED
    BY <1>3, <2>1, <2>2
<1>20. \A q \in table' : q \in table \/ (q = row /\ ~there)
  BY <1>3
<1>21. \A q \in table' : q.ts \in Nat
  BY <1>4, <1>5, <1>20 DEF ReadersInv
<1>22. \A p, q \in table' : p.res = q.res /\ p.ts = q.ts => p = q
  <2>1. ~there => \A q \in table : ~(q.res = row.res /\ q.ts = row.ts)
    BY <1>4, <1>8
  <2> QED
    BY <1>20, <2>1 DEF ReadersInv
<1>23. ASSUME mtype = "cpu" PROVE CpuData(row.data) /\ RestsOn(row.data["total_percent"], reports)
  <2>1. \A i \in 1..n : CpuData(datas[i]) /\ RestsOn(datas[i]["total_percent"], reports)
    BY <1>17, <1>23 DEF ReadersInv
  <2>2. /\ CpuData(averageMaps(datas))
        /\ \A b \in Nat :
             /\ (\A i \in 1..n : AtMost(datas[i]["total_percent"], b)) => AtMost(averageMaps(datas)["total_percent"], b)
             /\ (\A i \in 1..n : AtLeast(datas[i]["total_percent"], b)) => AtLeast(averageMaps(datas)["total_percent"], b)
    BY <1>14, <1>15, <1>17, <2>1, CpuAverage
  <2>3. RestsOn(averageMaps(datas)["total_percent"], reports)
    BY <2>1, <2>2 DEF RestsOn
  <2> QED
    BY <1>4, <2>2, <2>3
<1>24. ASSUME mtype \in OtherTypes PROVE DOMAIN row.data = {}
  <2>1. ASSUME NEW i \in 1..n PROVE Unaveraged(datas[i])
    <3>1. DOMAIN datas[i] = {} \/ \E j \in 1..Len(reports) : datas[i] = reports[j]
      BY <1>17, <1>24 DEF ReadersInv
    <3>2. CASE DOMAIN datas[i] = {}
      BY <3>2 DEF Unaveraged
    <3>3. ASSUME NEW j \in 1..Len(reports), datas[i] = reports[j] PROVE Unaveraged(datas[i])
      <4>1. reports \in Seq(Snapshot(mtype))
        BY DEF ReadersInv
      <4> DEFINE S == Snapshot(mtype)
      <4>2. reports \in Seq(S) /\ \A s \in S : Unaveraged(s)
        BY <1>24, <4>1, SnapshotFacts
      <4> HIDE DEF S
      <4>3. reports[j] \in S
        BY <4>2
      <4> QED
        BY <3>3, <4>2, <4>3
    <3> QED
      BY <3>1, <3>2, <3>3
  <2> QED
    BY <1>4, <1>17, <2>1, OtherAverage
<1>25. mtype = "cpu" => \A q \in table' : CpuData(q.data) /\ RestsOn(q.data["total_percent"], reports)
  BY <1>20, <1>23 DEF ReadersInv
<1>26. mtype \in OtherTypes =>
          \A q \in table' : DOMAIN q.data = {} \/ \E i \in 1..Len(reports) : q.data = reports[i]
  BY <1>20, <1>24 DEF ReadersInv
<1>27. /\ mtype \in MetricTypes /\ clock \in Nat /\ \A type : type = mtype => reports \in Seq(Snapshot(type))
  BY DEF ReadersInv
<1> QED
  BY <1>2, <1>18, <1>19, <1>21, <1>22, <1>25, <1>26, <1>27 DEF ReadersInv

LEMMA ReadersKeep == ReadersInv /\ [ReaderNext]_readerVars => ReadersInv'
<1> SUFFICES ASSUME ReadersInv, [ReaderNext]_readerVars PROVE ReadersInv'
  OBVIOUS
<1>1. FiveMinutes \in Nat \ {0} /\ AnHour \in Nat \ {0}
  BY ReaderAssumption
<1>2. CASE ReportMetric
  BY <1>2, ReportStep
<1>3. CASE ReduceData("raw", "5m", FiveMinutes)
  BY <1>1, <1>3, ReduceStep
<1>4. CASE ReduceData("5m", "1h", AnHour)
  BY <1>1, <1>4, ReduceStep
<1>5. CASE ReaderTick \/ ReportLine \/ UNCHANGED readerVars
  <2>1. UNCHANGED <<mtype, reports, table>> /\ clock' \in Nat
    BY <1>5 DEF ReaderTick, ReportLine, readerVars, ReadersInv
  <2> QED
    BY <2>1 DEF ReadersInv, RestsOn
<1> QED
  BY <1>2, <1>3, <1>4, <1>5 DEF ReaderNext

\* A finite set has a greatest element, in an order of all its elements.
LEMMA Greatest ==
    ASSUME NEW S, IsFiniteSet(S), S # {}, NEW R,
           \A x, y \in S : <<x, y>> \in R \/ <<y, x>> \in R,
           \A x, y, z \in S : <<x, y>> \in R /\ <<y, z>> \in R => <<x, z>> \in R
    PROVE  \E v \in S : \A w \in S : <<w, v>> \in R
<1> DEFINE HasOne(T) == \E v \in T : \A w \in T : <<w, v>> \in R
           P == {n \in Nat : \A T \in SUBSET S : Cardinality(T) = n + 1 => HasOne(T)}
<1>1. 0 \in P
  <2> SUFFICES ASSUME NEW T \in SUBSET S, Cardinality(T) = 1 PROVE HasOne(T)
    OBVIOUS
  <2>1. IsFiniteSet(T)
    BY FS_Subset
  <2>2. PICK x : T = {x}
    BY <2>1, FS_Singleton
  <2> QED
    BY <2>2
<1>2. ASSUME NEW n \in P PROVE n + 1 \in P
  <2>1. n \in Nat /\ \A T \in SUBSET S : Cardinality(T) = n + 1 => HasOne(T)
    OBVIOUS
  <2> SUFFICES ASSUME NEW T \in SUBSET S, Cardinality(T) = (n + 1) + 1 PROVE HasOne(T)
    BY <2>1
  <2>2. IsFiniteSet(T)
    BY FS_Subset
  <2>3. T # {}
    BY <2>1, <2>2, FS_EmptySet
  <2>4. PICK x \in T : TRUE
    BY <2>3
  <2> DEFINE U == T \ {x}
  <2>5. Cardinality(U) = n + 1 /\ U \in SUBSET S /\ T = U \union {x}
    <3>1. Cardinality(U) = Cardinality(T) - 1
      BY <2>2, <2>4, FS_RemoveElement
    <3> QED
      BY <2>1, <2>4, <3>1
  <2>6. HasOne(U)
    <3> HIDE DEF U, HasOne
    <3> QED
      BY <2>1, <2>5
  <2>7. PICK v \in U : \A w \in U : <<w, v>> \in R
    BY <2>6
  <2> HIDE DEF U
  <2>8. v \in S /\ x \in S /\ v \in T
    BY <2>4, <2>5
  <2>9. CASE <<x, v>> \in R
    BY <2>5, <2>7, <2>8, <2>9
  <2>10. CASE <<v, x>> \in R
    <3>1. <<x, x>> \in R
      BY <2>8
    <3>2. \A w \in U : <<w, x>> \in R
      BY <2>5, <2>7, <2>8, <2>10
    <3> QED
      BY <2>4, <2>5, <3>1, <3>2
  <2> QED
    BY <2>8, <2>9, <2>10
<1>3. P = Nat
  <2>1. P \in SUBSET Nat
    OBVIOUS
  <2> HIDE DEF P
  <2> QED
    BY <1>1, <1>2, <2>1, AllNumbers
<1>4. Cardinality(S) \in Nat /\ Cardinality(S) # 0
  BY FS_CardinalityType, FS_EmptySet
<1>5. Cardinality(S) - 1 \in P
  BY <1>3, <1>4
<1> QED
  BY <1>4, <1>5

\* Of fractions too, compared by their products.
LEMMA FractionsOrdered ==
    ASSUME NEW a \in Nat, NEW b \in Nat, NEW c \in Nat, NEW d \in Nat, NEW e \in Nat, NEW f \in Nat,
           b > 0, d > 0, f > 0, a * d <= c * b, c * f <= e * d
    PROVE  a * f <= e * b
<1> DEFINE x == a * f  y == e * b
<1>1. x \in Nat /\ y \in Nat
  BY Products
<1>2. x * d = (a * d) * f /\ (c * b) * f = (c * f) * b /\ (e * d) * b = y * d
  <2>1. x * d = a * (f * d) /\ (a * d) * f = a * (d * f) /\ f * d = d * f
    BY Products, ProductsFit
  <2>2. (c * b) * f = c * (b * f) /\ (c * f) * b = c * (f * b) /\ b * f = f * b
    BY Products, ProductsFit
  <2>3. (e * d) * b = e * (d * b) /\ y * d = e * (b * d) /\ b * d = d * b
    BY Products, ProductsFit
  <2> QED
    BY <2>1, <2>2, <2>3
<1>3. (a * d) * f <= (c * b) * f /\ (c * f) * b <= (e * d) * b
  BY Products, ProductsGrow
<1>4. x * d \in Nat /\ y * d \in Nat /\ (c * b) * f \in Nat
  BY <1>1, Products
<1>5. x * d <= y * d
  <2> DEFINE p == (a * d) * f  q == (c * b) * f  r == (e * d) * b
  <2>1. p = x * d /\ r = y * d /\ p <= q /\ q <= r /\ q \in Nat
    BY <1>2, <1>3, <1>4
  <2> HIDE DEF p, q, r, x, y
  <2> QED
    BY <1>4, <2>1
<1> HIDE DEF x, y
<1>6. x <= y
  <2> SUFFICES ASSUME y + 1 <= x PROVE FALSE
    BY <1>1
  <2>1. (y + 1) * d <= x * d /\ (y + 1) * d = y * d + 1 * d
    BY <1>1, ProductsGrow, ProductsFit
  <2> QED
    BY <1>4, <1>5, <2>1
<1> QED
  BY <1>6 DEF x, y

\* What is taken from the latest data is taken from a row of the table.
LEMMA LatestIsARow == \A data \in latestMetricData : \E r \in table : data = r.data
BY DEF latestMetricData

LEMMA CpuReports ==
    ASSUME ReadersInv, mtype = "cpu"
    PROVE  \A i \in 1..Len(reports) : reports[i].total_percent.num \in Nat /\ reports[i].total_percent.den = 1
<1> DEFINE S == Snapshot(mtype)
<1>1. reports \in Seq(S)
  BY DEF ReadersInv
<1>2. \A s \in S : s.total_percent.num \in Nat /\ s.total_percent.den = 1
  BY SnapshotFacts
<1> HIDE DEF S
<1> QED
  BY <1>1, <1>2

LEMMA CpuVerdicts ==
    ASSUME ReadersInv, mtype = "cpu", NEW data \in latestMetricData, NEW c \in {"gt", "lt"}, NEW t \in Percents,
           evalThreshold(data, "total_percent", c, t).breaching
    PROVE  \E i \in DOMAIN reports : checkCondition(reports[i].total_percent, c, t)
<1> DEFINE v == data["total_percent"]
<1>1. CpuData(data) /\ RestsOn(v, reports)
  <2>1. PICK r \in table : data = r.data
    BY LatestIsARow
  <2>2. CpuData(r.data) /\ RestsOn(r.data["total_percent"], reports)
    BY DEF ReadersInv
  <2> QED
    BY <2>1, <2>2
<1>2. v \in Fraction /\ DOMAIN data = {"total_percent"}
  BY <1>1 DEF CpuData
<1>3. v.kind = "number" /\ v.num \in Nat /\ v.den \in Nat
  BY <1>2 DEF Fraction
<1>4. getLatestMetricValue(data, "total_percent") = <<v>>
  BY <1>2, <1>3 DEF getLatestMetricValue
<1>5. checkCondition(v, c, t)
  BY <1>4 DEF evalThreshold, Verdict
<1> HIDE DEF v
<1>6. t \in Nat /\ t * v.den \in Nat
  BY <1>3, Products, ReaderAssumption
<1>7. DOMAIN reports = 1..Len(reports)
  BY DEF ReadersInv
<1>8. \A i \in 1..Len(reports) : reports[i].total_percent.num \in Nat /\ reports[i].total_percent.den = 1
  BY CpuReports
<1>9. CASE c = "gt"
  <2>1. ~AtMost(v, t)
    BY <1>3, <1>5, <1>6, <1>9 DEF checkCondition, AtMost
  <2>2. PICK i \in 1..Len(reports) : ~(reports[i].total_percent.num <= t)
    BY <1>1, <1>6, <2>1 DEF RestsOn
  <2>3. reports[i].total_percent.num > t * reports[i].total_percent.den
    BY <1>6, <1>8, <2>2
  <2> QED
    BY <1>7, <1>9, <2>3 DEF checkCondition
<1>10. CASE c = "lt"
  <2>1. ~AtLeast(v, t)
    BY <1>3, <1>5, <1>6, <1>10 DEF checkCondition, AtLeast
  <2>2. PICK i \in 1..Len(reports) : ~(t <= reports[i].total_percent.num)
    BY <1>1, <1>6, <2>1 DEF RestsOn
  <2>3. reports[i].total_percent.num < t * reports[i].total_percent.den
    BY <1>6, <1>8, <2>2
  <2> QED
    BY <1>7, <1>10, <2>3 DEF checkCondition
<1> QED
  BY <1>9, <1>10

LEMMA FallbackRows == queryMetricsWithFallback \in SUBSET table
BY DEF queryMetricsWithFallback

LEMMA CpuPeak ==
    ASSUME ReadersInv, mtype = "cpu", buildResourcePeaks.cpu[1] > 0
    PROVE  \E i \in DOMAIN reports :
              reports[i].total_percent.num * buildResourcePeaks.cpu[2] >= buildResourcePeaks.cpu[1]
<1> DEFINE x == "total_percent"
           rows == {q \in queryMetricsWithFallback : x \in DOMAIN q.data /\ q.data[x].kind = "number"}
           values == {<<r.data[x].num, r.data[x].den>> : r \in rows}
           peak == buildResourcePeaks.cpu
           R == {p \in values \X values : p[1][1] * p[2][2] <= p[2][1] * p[1][2]}
<1>1. peak = IF values = {} THEN <<0, 1>>
             ELSE CHOOSE v \in values : \A w \in values : w[1] * v[2] <= v[1] * w[2]
  BY DEF buildResourcePeaks, maxMetricPercent
<1>2. rows \in SUBSET table
  BY FallbackRows
<1>3. IsFiniteSet(values)
  <2>1. IsFiniteSet(rows)
    BY <1>2, FS_Subset DEF ReadersInv
  <2> DEFINE f == [r \in rows |-> <<r.data[x].num, r.data[x].den>>]
  <2>2. \A v \in values : \E r \in rows : f[r] = v
    OBVIOUS
  <2>3. f \in [rows -> values]
    OBVIOUS
  <2> HIDE DEF rows, values, f
  <2>4. f \in Surjection(rows, values)
    BY <2>2, <2>3 DEF Surjection
  <2> QED
    BY <2>1, <2>4, FS_Surjection
<1>4. \A r \in rows : r.data[x] \in Fraction /\ RestsOn(r.data[x], reports)
  BY <1>2 DEF ReadersInv, CpuData
<1>5. \A v \in values : /\ v = <<v[1], v[2]>> /\ v[1] \in Nat /\ v[2] \in Nat /\ v[2] > 0
                        /\ \E r \in rows : v[1] = r.data[x].num /\ v[2] = r.data[x].den
  BY <1>4 DEF Fraction
<1>6. peak # <<0, 1>>
  <2>1. peak[1] > 0
    OBVIOUS
  <2> HIDE DEF peak
  <2> QED
    BY <2>1
<1> HIDE DEF peak, values, rows
<1>7. values # {}
  BY <1>1, <1>6
<1>8. \A v, w \in values : <<v, w>> \in R <=> v[1] * w[2] <= w[1] * v[2]
  OBVIOUS
<1> HIDE DEF R
<1>9. \A v, w \in values : <<v, w>> \in R \/ <<w, v>> \in R
  <2> SUFFICES ASSUME NEW v \in values, NEW w \in values PROVE <<v, w>> \in R \/ <<w, v>> \in R
    OBVIOUS
  <2>1. v[1] * w[2] \in Nat /\ w[1] * v[2] \in Nat
    BY <1>5, Products
  <2> QED
    BY <1>8, <2>1
<1>10. \A v, w, u \in values : <<v, w>> \in R /\ <<w, u>> \in R => <<v, u>> \in R
  BY <1>5, <1>8, FractionsOrdered
<1>11. \E v \in values : \A w \in values : <<w, v>> \in R
  BY <1>3, <1>7, <1>9, <1>10, Greatest
<1>12. peak \in values
  BY <1>1, <1>7, <1>8, <1>11
<1>13. PICK r \in rows : peak[1] = r.data[x].num /\ peak[2] = r.data[x].den
  BY <1>5, <1>12
<1> DEFINE v == r.data[x]
<1>14. RestsOn(v, reports) /\ v.num = peak[1] /\ v.den = peak[2]
  BY <1>4, <1>13
<1>15. peak[1] \in Nat /\ peak[2] \in Nat
  BY <1>5, <1>12
<1> HIDE DEF v
<1> DEFINE L == Len(reports)  at == [i \in 1..L |-> reports[i].total_percent.num]
           Q == {p \in (1..L) \X (1..L) : at[p[1]] <= at[p[2]]}
<1>16. L \in Nat /\ L > 0 /\ DOMAIN reports = 1..L
  <2>1. table # {}
    BY <1>2, <1>13
  <2> QED
    BY <2>1 DEF ReadersInv
<1>17. \A i \in 1..L : at[i] \in Nat /\ at[i] = reports[i].total_percent.num
  BY CpuReports
<1>18. \A i, j \in 1..L : <<i, j>> \in Q <=> at[i] <= at[j]
  OBVIOUS
<1>19. IsFiniteSet(1..L) /\ 1..L # {}
  <2>1. 1 \in Int /\ L \in Int /\ 1 \in 1..L
    BY <1>16
  <2> QED
    BY <2>1, FS_Interval
<1> DEFINE I == 1..L
<1>20. /\ IsFiniteSet(I) /\ I # {}
       /\ \A i \in I : at[i] \in Nat
       /\ \A i, j \in I : <<i, j>> \in Q <=> at[i] <= at[j]
  BY <1>17, <1>18, <1>19
<1> HIDE DEF L, at, Q
<1>21. PICK h \in I : \A i \in I : <<i, h>> \in Q
  <2> HIDE DEF I
  <2>1. /\ \A i, j \in I : <<i, j>> \in Q \/ <<j, i>> \in Q
        /\ \A i, j, k \in I : <<i, j>> \in Q /\ <<j, k>> \in Q => <<i, k>> \in Q
    BY <1>20
  <2> QED
    BY <1>20, <2>1, Greatest
<1>22. \A i \in 1..L : reports[i].total_percent.num <= at[h]
  BY <1>17, <1>20, <1>21
<1>23. AtMost(v, at[h])
  BY <1>14, <1>20, <1>21, <1>22 DEF RestsOn, L
<1>24. peak[1] <= at[h] * peak[2]
  BY <1>14, <1>23 DEF AtMost
<1>25. at[h] * peak[2] \in Nat
  BY <1>15, <1>20, <1>21, Products
<1>26. reports[h].total_percent.num * peak[2] >= peak[1]
  BY <1>15, <1>17, <1>21, <1>24, <1>25
<1> QED
  BY <1>16, <1>21, <1>26 DEF peak

\* A list of mounts has a percentage, a report without one none.
LEMMA DiskFacts ==
    /\ \A data : DOMAIN data = {} => diskPercentFromData(data) = 0
    /\ \A type : type = "disk" => \A s \in Snapshot(type) : diskPercentFromData(s) \in Nat
<1>1. ASSUME NEW data, DOMAIN data = {} PROVE diskPercentFromData(data) = 0
  BY <1>1 DEF diskPercentFromData
<1>2. ASSUME NEW type, type = "disk", NEW s \in Snapshot(type) PROVE diskPercentFromData(s) \in Nat
  <2>1. PICK m \in Mounts : s = [mounts |-> List(m)]
    BY <1>2 DEF Snapshot
  <2> DEFINE roots == {i \in DOMAIN m : m[i].root}
             first == CHOOSE i \in roots : \A j \in roots : i <= j
  <2>2. diskPercentFromData(s) = CASE m = <<>> -> 0
                                   [] roots # {} -> m[first].used
                                   [] OTHER -> Head(m).used
    <3>1. DOMAIN s = {"mounts"} /\ s["mounts"].kind = "list" /\ s["mounts"].elems = m
      BY <2>1 DEF List
    <3> QED
      BY <3>1 DEF diskPercentFromData
  <2>3. PICK p \in Percents : \/ m = <<[root |-> FALSE, used |-> p]>>
                              \/ m = <<[root |-> FALSE, used |-> 0], [root |-> TRUE, used |-> p]>>
    BY DEF Mounts
  <2>4. p \in Nat
    BY ReaderAssumption
  <2>5. CASE m = <<[root |-> FALSE, used |-> p]>>
    <3>1. m # <<>> /\ roots = {} /\ Head(m).used = p
      BY <2>5
    <3> HIDE DEF roots
    <3> QED
      BY <2>2, <2>4, <3>1
  <2>6. CASE m = <<[root |-> FALSE, used |-> 0], [root |-> TRUE, used |-> p]>>
    <3>1. m # <<>> /\ DOMAIN m = {1, 2} /\ ~m[1].root /\ m[2].root /\ m[2].used = p
      BY <2>6
    <3>2. roots = {2}
      BY <3>1
    <3>3. first = 2
      <4> HIDE DEF roots
      <4> QED
        BY <3>2
    <3> HIDE DEF roots, first
    <3> QED
      BY <2>2, <2>4, <3>1, <3>2, <3>3
  <2> QED
    BY <2>3, <2>5, <2>6
<1> QED
  BY <1>1, <1>2

\* The latest data of a list, a map or a flag are a report's, or none.
LEMMA OtherLatest ==
    ASSUME ReadersInv, mtype \in OtherTypes, NEW data \in latestMetricData
    PROVE  DOMAIN data = {} \/ \E i \in DOMAIN reports : data = reports[i]
<1>1. PICK r \in table : data = r.data
  BY LatestIsARow
<1>2. DOMAIN reports = 1..Len(reports)
  BY DEF ReadersInv
<1> QED
  BY <1>1, <1>2 DEF ReadersInv

LEMMA DiskPeak ==
    ASSUME ReadersInv, mtype = "disk", NEW data \in latestMetricData
    PROVE  \E i \in DOMAIN reports : buildResourcePeaks.disk \in {0, diskPercentFromData(reports[i])}
<1> DEFINE rows == queryMetricsWithFallback
           values == {diskPercentFromData(r.data) : r \in rows}
           peak == buildResourcePeaks.disk
           R == {p \in values \X values : p[1] <= p[2]}
<1>1. peak = IF values = {} THEN 0 ELSE CHOOSE v \in values : \A w \in values : w <= v
  BY DEF buildResourcePeaks, maxDiskPercent
<1>2. \E i \in 1..Len(reports) : TRUE
  <2>1. \E r \in table : TRUE
    BY LatestIsARow
  <2>2. Len(reports) > 0 /\ Len(reports) \in Nat
    BY <2>1 DEF ReadersInv
  <2> QED
    BY <2>2
<1>3. DOMAIN reports = 1..Len(reports)
  BY DEF ReadersInv
<1>4. ASSUME NEW r \in rows
      PROVE  /\ diskPercentFromData(r.data) \in Nat
             /\ diskPercentFromData(r.data) = 0 \/ \E i \in 1..Len(reports) : diskPercentFromData(r.data) = diskPercentFromData(reports[i])
  <2>1. DOMAIN r.data = {} \/ \E i \in 1..Len(reports) : r.data = reports[i]
    BY FallbackRows DEF ReadersInv, OtherTypes
  <2>2. CASE DOMAIN r.data = {}
    <3>1. \A d : DOMAIN d = {} => diskPercentFromData(d) = 0
      BY DiskFacts
    <3>2. diskPercentFromData(r.data) = 0
      BY <2>2, <3>1
    <3> QED
      BY <3>2
  <2>3. ASSUME NEW i \in 1..Len(reports), r.data = reports[i] PROVE diskPercentFromData(r.data) \in Nat
    <3> DEFINE S == Snapshot(mtype)
    <3>1. reports \in Seq(S)
      BY DEF ReadersInv
    <3>2. \A s \in S : diskPercentFromData(s) \in Nat
      BY DiskFacts
    <3> HIDE DEF S
    <3> QED
      BY <2>3, <3>1, <3>2
  <2> QED
    BY <2>1, <2>2, <2>3
<1>5. IsFiniteSet(values)
  <2>1. IsFiniteSet(rows)
    BY FallbackRows, FS_Subset DEF ReadersInv
  <2> DEFINE f == [r \in rows |-> diskPercentFromData(r.data)]
  <2>2. \A v \in values : \E r \in rows : f[r] = v
    OBVIOUS
  <2>3. f \in [rows -> values]
    OBVIOUS
  <2> HIDE DEF rows, values, f
  <2>4. f \in Surjection(rows, values)
    BY <2>2, <2>3 DEF Surjection
  <2> QED
    BY <2>1, <2>4, FS_Surjection
<1>6. \A v \in values : v \in Nat /\ (v = 0 \/ \E i \in 1..Len(reports) : v = diskPercentFromData(reports[i]))
  BY <1>4
<1> HIDE DEF values, rows, peak
<1>7. CASE values = {}
  BY <1>1, <1>2, <1>3, <1>7 DEF peak
<1>8. CASE values # {}
  <2>1. \A v, w \in values : <<v, w>> \in R <=> v <= w
    OBVIOUS
  <2> HIDE DEF R
  <2>2. /\ \A v, w \in values : <<v, w>> \in R \/ <<w, v>> \in R
        /\ \A v, w, u \in values : <<v, w>> \in R /\ <<w, u>> \in R => <<v, u>> \in R
    BY <1>6, <2>1
  <2>3. \E v \in values : \A w \in values : <<w, v>> \in R
    BY <1>5, <1>8, <2>2, Greatest
  <2>4. peak \in values
    BY <1>1, <1>8, <2>1, <2>3
  <2> QED
    BY <1>2, <1>3, <1>6, <2>4 DEF peak
<1> QED
  BY <1>7, <1>8

LEMMA ScanVerdicts ==
    ASSUME ReadersInv, mtype = "cve_scan", NEW data \in latestMetricData
    PROVE  /\ \A t \in Percents :
                evalCveCount(data, "gt", t).breaching =>
                    \E i \in DOMAIN reports : evalCveCount(reports[i], "gt", t).breaching
           /\ buildCVETotals \subseteq {reports[i].totals.critical.num :
                                         i \in {j \in DOMAIN reports : reports[j].available.is}}
<1>1. \A d : DOMAIN d = {} => \A t : ~evalCveCount(d, "gt", t).breaching
  BY DEF evalCveCount, Unknown
<1>2. mtype \in OtherTypes
  BY DEF OtherTypes
<1>3. ASSUME NEW t \in Percents, evalCveCount(data, "gt", t).breaching
      PROVE  \E i \in DOMAIN reports : evalCveCount(reports[i], "gt", t).breaching
  BY <1>1, <1>2, <1>3, OtherLatest
<1>4. ASSUME NEW n \in buildCVETotals
      PROVE  n \in {reports[i].totals.critical.num : i \in {j \in DOMAIN reports : reports[j].available.is}}
  <2>1. PICK d \in latestMetricData : /\ n = d["totals"].critical.num
                                      /\ "available" \in DOMAIN d /\ d["available"].is
    BY DEF buildCVETotals
  <2>2. PICK i \in DOMAIN reports : d = reports[i]
    BY <1>2, <2>1, OtherLatest
  <2> QED
    BY <2>1, <2>2
<1> QED
  BY <1>3, <1>4

LEMMA ListVerdicts ==
    ASSUME ReadersInv, mtype \in {"processes", "services"}, NEW data \in latestMetricData,
           ~evaluateRule(data).breaching
    PROVE  \E i \in DOMAIN reports : ~evaluateRule(reports[i]).breaching
<1>1. DOMAIN data # {}
  <2> SUFFICES ASSUME DOMAIN data = {} PROVE FALSE
    OBVIOUS
  <2>1. Elems(data, "processes") = {} /\ Elems(data, "services") = {}
    BY DEF Elems
  <2>2. CASE mtype = "processes"
    BY <2>1, <2>2 DEF evaluateRule, evalProcessDown, Verdict
  <2>3. CASE mtype = "services"
    BY <2>1, <2>3 DEF evaluateRule, evalServiceFailed, Verdict
  <2> QED
    BY <2>2, <2>3
<1>2. mtype \in OtherTypes
  BY DEF OtherTypes
<1> QED
  BY <1>1, <1>2, OtherLatest

\* Of every row there is something to say.
LEMMA ReadersRestOnReports == ReadersInv => ReadersInventNothing
<1> SUFFICES ASSUME ReadersInv, NEW data \in latestMetricData
             PROVE  /\ mtype = "cpu" =>
                         /\ \A c \in {"gt", "lt"}, t \in Percents :
                              evalThreshold(data, "total_percent", c, t).breaching =>
                                  \E i \in DOMAIN reports : checkCondition(reports[i].total_percent, c, t)
                         /\ LET peak == buildResourcePeaks.cpu IN
                            peak[1] > 0 => \E i \in DOMAIN reports : reports[i].total_percent.num * peak[2] >= peak[1]
                    /\ mtype = "disk" =>
                         \E i \in DOMAIN reports : buildResourcePeaks.disk \in {0, diskPercentFromData(reports[i])}
                    /\ mtype = "cve_scan" =>
                         /\ \A t \in Percents :
                              evalCveCount(data, "gt", t).breaching =>
                                  \E i \in DOMAIN reports : evalCveCount(reports[i], "gt", t).breaching
                         /\ buildCVETotals \subseteq {reports[i].totals.critical.num :
                                                       i \in {j \in DOMAIN reports : reports[j].available.is}}
                    /\ mtype \in {"processes", "services"} =>
                         (~evaluateRule(data).breaching =>
                              \E i \in DOMAIN reports : ~evaluateRule(reports[i]).breaching)
  BY DEF ReadersInventNothing
<1>1. CASE mtype = "cpu"
  BY <1>1, CpuVerdicts, CpuPeak
<1>2. CASE mtype = "disk"
  BY <1>2, DiskPeak
<1>3. CASE mtype = "cve_scan"
  BY <1>3, ScanVerdicts
<1>4. CASE mtype \in {"processes", "services"}
  BY <1>4, ListVerdicts
<1> QED
  BY <1>1, <1>2, <1>3, <1>4

LEMMA ReadersStart == ReaderInit(MetricTypes) => ReadersInv
<1> SUFFICES ASSUME ReaderInit(MetricTypes) PROVE ReadersInv
  OBVIOUS
<1>1. mtype \in MetricTypes /\ clock = 0 /\ reports = <<>> /\ table = {}
  BY DEF ReaderInit
<1>2. \A S : <<>> \in Seq(S)
  OBVIOUS
<1>3. IsFiniteSet({})
  BY FS_EmptySet
<1> QED
  BY <1>1, <1>2, <1>3 DEF ReadersInv
-----------------------------------------------------------------------------
(* Rules on log lines *)

LinesStamped ==
    /\ clock \in Nat
    /\ lines \in Seq([ts : Nat, hit : BOOLEAN])
    /\ \A i \in DOMAIN lines : lines[i].ts <= clock

LEMMA LinesStampedStep == LinesStamped /\ [ReaderNext]_readerVars => LinesStamped'
<1> SUFFICES ASSUME LinesStamped, [ReaderNext]_readerVars PROVE LinesStamped'
  OBVIOUS
<1>1. CASE UNCHANGED <<clock, lines>>
  BY <1>1 DEF LinesStamped
<1>2. CASE ReportLine
  <2>1. PICK hit \in BOOLEAN : lines' = Append(lines, [ts |-> clock, hit |-> hit])
    BY <1>2 DEF ReportLine
  <2> DEFINE e == [ts |-> clock, hit |-> hit]
  <2>2. e \in [ts : Nat, hit : BOOLEAN] /\ e.ts = clock /\ clock' = clock
    BY <1>2 DEF LinesStamped, ReportLine
  <2> HIDE DEF e
  <2>3. /\ lines' \in Seq([ts : Nat, hit : BOOLEAN]) /\ DOMAIN lines' = 1..(Len(lines) + 1)
        /\ \A i \in 1..Len(lines) : lines'[i] = lines[i]
        /\ lines'[Len(lines) + 1] = e
    BY <2>1, <2>2, AppendProperties DEF LinesStamped, e
  <2>4. \A i \in 1..Len(lines) : lines[i].ts <= clock
    BY DEF LinesStamped
  <2>5. \A i \in DOMAIN lines' : i \in 1..Len(lines) \/ i = Len(lines) + 1
    BY <2>3 DEF LinesStamped
  <2>6. \A i \in DOMAIN lines' : lines'[i].ts <= clock'
    BY <2>2, <2>3, <2>4, <2>5 DEF LinesStamped
  <2> QED
    BY <2>2, <2>3, <2>6 DEF LinesStamped
<1>3. CASE ReaderTick
  <2>1. clock' = clock + 1 /\ lines' = lines
    BY <1>3 DEF ReaderTick
  <2>2. \A i \in DOMAIN lines : lines[i].ts \in Nat
    <3> DEFINE S == [ts : Nat, hit : BOOLEAN]
    <3>1. \A i \in DOMAIN lines : lines[i] \in S
      <4>1. lines \in Seq(S)
        BY DEF LinesStamped
      <4> HIDE DEF S
      <4> QED
        BY <4>1
    <3> QED
      BY <3>1
  <2> QED
    BY <2>1, <2>2 DEF LinesStamped
<1>4. CASE ReportMetric \/ ReduceData("raw", "5m", FiveMinutes) \/ ReduceData("5m", "1h", AnHour)
           \/ UNCHANGED readerVars
  <2>1. UNCHANGED <<clock, lines>>
    BY <1>4 DEF ReportMetric, ReduceData, readerVars
  <2> QED
    BY <1>1, <2>1
<1> QED
  BY <1>2, <1>3, <1>4 DEF ReaderNext

\* What a query with a limit returns is all there is, or as much as the limit.
LEMMA LimitedFinds ==
    ASSUME NEW found, IsFiniteSet(found), NEW b \in Limited(found), NEW t \in 1..ScanCap
    PROVE  /\ IsFiniteSet(b) /\ b \subseteq found
           /\ Cardinality(b) >= t <=> Cardinality(found) >= t
           /\ Cardinality(found) <= ScanCap => b = found
<1>1. /\ b \in SUBSET found
      /\ Cardinality(b) = IF Cardinality(found) < ScanCap THEN Cardinality(found) ELSE ScanCap
  BY DEF Limited
<1>2. Cardinality(found) \in Nat /\ ScanCap \in Nat
  BY FS_CardinalityType, ReaderAssumption
<1>3. IsFiniteSet(b) /\ (Cardinality(b) = Cardinality(found) => b = found)
  BY <1>1, FS_Subset
<1>4. Cardinality(b) >= t <=> Cardinality(found) >= t
  BY <1>1, <1>2
<1>5. Cardinality(found) <= ScanCap => Cardinality(b) = Cardinality(found)
  BY <1>1, <1>2
<1> QED
  BY <1>1, <1>3, <1>4, <1>5

LEMMA StampedCounts ==
    ASSUME LinesStamped
    PROVE  LogMatchExact
<1> SUFFICES ASSUME NEW isRegex \in BOOLEAN, NEW t \in 1..ScanCap,
                    isRegex => Cardinality(InWindow) <= ScanCap, NEW v \in evalLogMatch(isRegex, t)
             PROVE  /\ v.breaching <=> Hits(InWindow) >= t
                    /\ v.breaching => \E n \in buildLogVolume(clock - MatchWindow) : n >= t
  BY DEF LogMatchExact
<1> DEFINE hit == {i \in InWindow : lines[i].hit}
           counted == {i \in DOMAIN lines : clock - MatchWindow <= lines[i].ts /\ lines[i].ts <= clock}
<1>1. IsFiniteSet(DOMAIN lines)
  <2>1. Len(lines) \in Nat /\ DOMAIN lines = 1..Len(lines)
    BY DEF LinesStamped
  <2> QED
    BY <2>1, FS_Interval
<1>2. IsFiniteSet(InWindow)
  <2>1. InWindow \in SUBSET DOMAIN lines
    BY DEF InWindow
  <2> QED
    BY <1>1, <2>1, FS_Subset
<1>3. hit \in SUBSET InWindow /\ Hits(InWindow) = Cardinality(hit)
  BY DEF Hits
<1>4. IsFiniteSet(hit) /\ Cardinality(hit) \in Nat
  BY <1>2, <1>3, FS_Subset, FS_CardinalityType
<1>5. PICK b \in Limited(IF isRegex THEN InWindow ELSE hit) : v = Verdict(Hits(b) >= t)
  BY DEF evalLogMatch
<1>6. v.breaching <=> Hits(b) >= t
  BY <1>5 DEF Verdict
<1>7. v.breaching <=> Hits(InWindow) >= t
  <2>1. CASE isRegex
    <3>1. b = InWindow
      BY <1>2, <1>5, <2>1, LimitedFinds
    <3> QED
      BY <1>6, <3>1
  <2>2. CASE ~isRegex
    <3>1. b \subseteq hit /\ (Cardinality(b) >= t <=> Cardinality(hit) >= t)
      BY <1>4, <1>5, <2>2, LimitedFinds
    <3>2. {i \in b : lines[i].hit} = b
      BY <3>1
    <3>3. Hits(b) = Cardinality(b)
      BY <3>2 DEF Hits
    <3> QED
      BY <1>3, <1>6, <3>1, <3>3
  <2> QED
    BY <2>1, <2>2
<1>8. v.breaching => \E n \in buildLogVolume(clock - MatchWindow) : n >= t
  <2> SUFFICES ASSUME v.breaching PROVE \E n \in buildLogVolume(clock - MatchWindow) : n >= t
    OBVIOUS
  <2>1. Cardinality(hit) >= t
    BY <1>3, <1>7
  <2>2. hit \in SUBSET counted /\ counted \in SUBSET DOMAIN lines
    <3>1. \A i \in InWindow : i \in DOMAIN lines /\ lines[i].ts >= clock - MatchWindow
      BY DEF InWindow
    <3> QED
      BY <3>1 DEF LinesStamped
  <2> HIDE DEF hit, counted
  <2>3. IsFiniteSet(counted)
    BY <1>1, <2>2, FS_Subset
  <2>4. Cardinality(counted) \in Nat /\ Cardinality(hit) <= Cardinality(counted)
    BY <2>2, <2>3, FS_Subset, FS_CardinalityType
  <2>5. Cardinality(counted) >= t /\ Cardinality(counted) # 0
    BY <1>4, <2>1, <2>4
  <2>6. buildLogVolume(clock - MatchWindow) = {Cardinality(counted)}
    BY <2>5 DEF buildLogVolume, counted
  <2> QED
    BY <2>5, <2>6
<1> QED
  BY <1>7, <1>8

\* A log_match rule breaches exactly when its window holds as many matching lines as its
\* threshold says, and then the report's log volume of the window is not smaller
\* (evalLogMatch, buildLogVolume): for every cap, threshold and number of lines, a
\* /regex/ over a window of more lines than the cap excepted.
THEOREM LogMatchExactAlways == ReaderSpec => []LogMatchExact
<1>1. ReaderInit(MetricTypes) => LinesStamped
  BY DEF ReaderInit, LinesStamped
<1>2. LinesStamped => LogMatchExact
  BY StampedCounts
<1> QED
  BY <1>1, <1>2, LinesStampedStep, PTL DEF ReaderSpec

\* Every verdict of a rule and every figure of the report rests on what the agent
\* reported, whatever reductions the rows went through, and log_match rules and log
\* volume agree with the lines (evaluateRule and the functions below it, averageMaps,
\* buildResourcePeaks, buildCVETotals, buildLogVolume): for every number of reports and
\* lines, every size of a bucket and every percentage.
THEOREM VerdictsRestOnDataAlways == ReaderSpec => []VerdictsRestOnData
<1>1. ReaderInit(MetricTypes) => ReadersInv /\ LinesStamped
  BY ReadersStart DEF ReaderInit, LinesStamped
<1>2. ReadersInv /\ LinesStamped /\ [ReaderNext]_readerVars => (ReadersInv /\ LinesStamped)'
  BY ReadersKeep, LinesStampedStep
<1>3. ReadersInv /\ LinesStamped => VerdictsRestOnData
  BY ReadersRestOnReports, StampedCounts DEF VerdictsRestOnData
<1> QED
  BY <1>1, <1>2, <1>3, PTL DEF ReaderSpec
=============================================================================
