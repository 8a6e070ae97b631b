-------------------------- MODULE NaturalRecursion --------------------------
(***************************************************************************)
(* Induction and recursion on the naturals, as facts about sets, and what  *)
(* follows from them about the sums over finite sets.                      *)
(***************************************************************************)
EXTENDS Integers, Functions, FiniteSetTheorems, TLAPS

-----------------------------------------------------------------------------
(* Naturals *)

\* A set with zero and the successor of each of its naturals has them all: the
\* least natural out of it would make adding one an injection into less.
LEMMA SetInduction ==
  ASSUME NEW S, 0 \in S, \A n \in Nat : n \in S => n + 1 \in S
  PROVE  Nat \subseteq S
<1>. SUFFICES ASSUME NEW n \in Nat, n \notin S PROVE FALSE
  OBVIOUS
<1>. DEFINE D == S \cap 0 .. n
            E == D \ {0}
            f == [k \in D |-> k + 1]
<1>2. IsFiniteSet(D) /\ IsFiniteSet(E) /\ Cardinality(D) \in Nat /\ Cardinality(E) = Cardinality(D) - 1
  <2>1. IsFiniteSet(0 .. n)
    BY FS_Interval
  <2>2. IsFiniteSet(D)
    BY <2>1, FS_Subset
  <2>. HIDE DEF D
  <2>3. 0 \in D
    BY DEF D
  <2>4. QED
    BY <2>2, <2>3, FS_RemoveElement, FS_CardinalityType
<1>3. f \in Injection(D, E)
  <2>1. ASSUME NEW k \in D PROVE k + 1 \in E
    <3>1. k \in Nat /\ k <= n /\ k \in S
      OBVIOUS
    <3>2. k # n /\ k + 1 \in S
      BY <3>1
    <3>3. QED
      BY <3>1, <3>2
  <2>2. \A a, b \in D : f[a] = f[b] => a = b
    OBVIOUS
  <2>. HIDE DEF D, E
  <2>3. f \in [D -> E] /\ DOMAIN f = D
    BY <2>1
  <2>. HIDE DEF f
  <2>4. QED
    BY <2>2, <2>3 DEF Injection, IsInjective
<1>. HIDE DEF D, E, f
<1>4. Cardinality(D) <= Cardinality(E)
  BY <1>2, <1>3, FS_Injection
<1>5. QED
  BY <1>2, <1>4

\* A set of naturals up to n, unless it is empty, has a largest and a smallest.
LEMMA Largest ==
  ASSUME NEW n \in Nat, NEW S, S \subseteq 0 .. n, S # {}
  PROVE  \E m \in S : \A k \in S : k <= m
<1>. DEFINE Has(m) == \A T : T \subseteq 0 .. m /\ T # {} => \E t \in T : \A k \in T : k <= t
            G == {m \in Nat : Has(m)}
<1>1. 0 \in G
  <2>1. ASSUME NEW T, T \subseteq 0 .. 0, T # {} PROVE \E t \in T : \A k \in T : k <= t
    <3>1. PICK t \in T : TRUE
      BY <2>1
    <3>2. \A k \in T : k = 0
      BY <2>1
    <3>3. QED
      BY <3>1, <3>2
  <2>2. QED
    BY <2>1
<1>2. ASSUME NEW m \in Nat, m \in G PROVE m + 1 \in G
  <2>1. ASSUME NEW T, T \subseteq 0 .. m + 1, T # {} PROVE \E t \in T : \A k \in T : k <= t
    <3>1. CASE m + 1 \in T
      BY <2>1, <3>1
    <3>2. CASE m + 1 \notin T
      <4>1. \A k \in T : k \in 0 .. m
        BY <2>1, <3>2
      <4>2. T \subseteq 0 .. m
        BY <4>1
      <4>3. QED
        BY <1>2, <2>1, <4>2
    <3>3. QED
      BY <3>1, <3>2
  <2>2. QED
    BY <2>1
<1>. HIDE DEF G
<1>3. n \in G
  BY <1>1, <1>2, SetInduction
<1>4. QED
  BY <1>3 DEF G

LEMMA Smallest ==
  ASSUME NEW n \in Nat, NEW S, S \subseteq 0 .. n, S # {}
  PROVE  \E m \in S : \A k \in S : m <= k
<1>. DEFINE T == {n - k : k \in S}
<1>1. \A k \in S : k \in Nat /\ k <= n
  OBVIOUS
<1>2. T \subseteq 0 .. n
  BY <1>1
<1>3. PICK m \in T : \A k \in T : k <= m
  <2>1. T # {}
    OBVIOUS
  <2>. HIDE DEF T
  <2>2. QED
    BY <1>2, <2>1, Largest
<1>4. PICK k \in S : m = n - k
  OBVIOUS
<1>5. ASSUME NEW j \in S PROVE k <= j
  <2>1. n - j <= m
    BY <1>3
  <2>2. j \in Int /\ k \in Int
    BY <1>1
  <2>3. QED
    BY <1>4, <2>1, <2>2
<1>6. QED
  BY <1>5

\* Step functions of a set into itself, and the first k of their iterates.
Steps(S) == [Nat -> [S -> S]]
Iterates(S, first, step, k) ==
  {f \in [0 .. k -> S] : f[0] = first /\ \A i \in 0 .. k - 1 : f[i + 1] = step[i][f[i]]}

\* Step functions can be iterated any number of times.
LEMMA Iteration ==
  ASSUME NEW S, NEW first \in S, NEW step \in Steps(S), NEW k \in Nat
  PROVE  \E f : f \in Iterates(S, first, step, k)
<1>. DEFINE Runs(n) == Iterates(S, first, step, n)
            T == {n \in Nat : Runs(n) # {}}
<1>. USE DEF Steps
<1>1. 0 \in T
  <2>. DEFINE f == [i \in 0 .. 0 |-> first]
  <2>1. f \in [0 .. 0 -> S] /\ f[0] = first
    OBVIOUS
  <2>2. 0 .. 0 - 1 = {}
    OBVIOUS
  <2>. HIDE DEF f
  <2>3. f \in Runs(0)
    BY <2>1, <2>2 DEF Iterates
  <2>. HIDE DEF Runs
  <2>4. QED
    BY <2>3
<1>2. \A n \in Nat : n \in T => n + 1 \in T
  <2>. SUFFICES ASSUME NEW n \in Nat, n \in T PROVE n + 1 \in T
    OBVIOUS
  <2>1. PICK f \in [0 .. n -> S] :
          f[0] = first /\ \A i \in 0 .. n - 1 : f[i + 1] = step[i][f[i]]
    BY DEF Iterates
  <2>2. step[n][f[n]] \in S
    OBVIOUS
  <2>. DEFINE g == [i \in 0 .. n + 1 |-> IF i = n + 1 THEN step[n][f[n]] ELSE f[i]]
  <2>3. g \in [0 .. n + 1 -> S] /\ g[0] = first
    BY <2>1, <2>2
  <2>4. ASSUME NEW i \in 0 .. n PROVE g[i + 1] = step[i][g[i]]
    <3>1. CASE i = n
      <4>1. g[n + 1] = step[n][f[n]] /\ g[n] = f[n]
        OBVIOUS
      <4>2. QED
        BY <4>1, <3>1
    <3>2. CASE i \in 0 .. n - 1
      <4>1. g[i] = f[i] /\ g[i + 1] = f[i + 1]
        BY <3>2
      <4>2. QED
        BY <4>1, <3>2, <2>1
    <3>3. QED
      BY <3>1, <3>2
  <2>. HIDE DEF g
  <2>5. g \in Runs(n + 1)
    BY <2>3, <2>4 DEF Iterates
  <2>. HIDE DEF Runs
  <2>6. QED
    BY <2>5
<1>. HIDE DEF T
<1>3. k \in T
  BY <1>1, <1>2, SetInduction
<1>4. QED
  BY <1>3 DEF T

\* The same with the iterate from the one before it.
LEMMA Recursion ==
  ASSUME NEW S, NEW first \in S, NEW step \in Steps(S), NEW k \in Nat
  PROVE  \E f \in [0 .. k -> S] : f[0] = first /\ \A i \in 1 .. k : f[i] = step[i - 1][f[i - 1]]
<1>1. PICK f : f \in Iterates(S, first, step, k)
  BY Iteration
<1>2. f \in [0 .. k -> S] /\ f[0] = first /\ \A i \in 0 .. k - 1 : f[i + 1] = step[i][f[i]]
  BY <1>1 DEF Iterates
<1>3. \A i \in 1 .. k : i - 1 \in 0 .. k - 1 /\ (i - 1) + 1 = i
  OBVIOUS
<1>4. QED
  BY <1>2, <1>3

\* And for ever.
LEMMA EndlessIteration ==
  ASSUME NEW S, NEW first \in S, NEW step \in Steps(S)
  PROVE  \E g \in [Nat -> S] : g[0] = first /\ \A i \in Nat : g[i + 1] = step[i][g[i]]
<1>. DEFINE Run(k) == CHOOSE f : f \in Iterates(S, first, step, k)
            Same == {i \in Nat : \A k \in Nat : i <= k => Run(k)[i] = Run(i)[i]}
            g == [k \in Nat |-> Run(k)[k]]
<1>1. \A k \in Nat : Run(k) \in Iterates(S, first, step, k)
  BY Iteration
<1>. HIDE DEF Run
<1>2. \A k \in Nat : /\ Run(k) \in [0 .. k -> S] /\ Run(k)[0] = first
                     /\ \A i \in 0 .. k - 1 : Run(k)[i + 1] = step[i][Run(k)[i]]
  BY <1>1 DEF Iterates
<1>3. 0 \in Same
  BY <1>2
<1>4. ASSUME NEW i \in Nat, i \in Same PROVE i + 1 \in Same
  <2>. SUFFICES ASSUME NEW k \in Nat, i + 1 <= k PROVE Run(k)[i + 1] = Run(i + 1)[i + 1]
    OBVIOUS
  <2>1. i \in 0 .. k - 1 /\ i <= k /\ i \in 0 .. (i + 1) - 1 /\ i <= i + 1 /\ i + 1 \in Nat
    OBVIOUS
  <2>2. Run(k)[i] = Run(i)[i] /\ Run(i + 1)[i] = Run(i)[i]
    BY <1>4, <2>1
  <2>3. Run(k)[i + 1] = step[i][Run(k)[i]] /\ Run(i + 1)[i + 1] = step[i][Run(i + 1)[i]]
    BY <1>2, <2>1
  <2>4. QED
    BY <2>2, <2>3
<1>5. Nat \subseteq Same
  <2>. HIDE DEF Same
  <2>1. QED
    BY <1>3, <1>4, SetInduction
<1>6. ASSUME NEW i \in Nat PROVE g[i] \in S /\ g[i + 1] = step[i][g[i]]
  <2>1. i \in 0 .. (i + 1) - 1 /\ i <= i + 1 /\ i + 1 \in Nat /\ i \in 0 .. i
    OBVIOUS
  <2>2. Run(i + 1)[i] = Run(i)[i]
    BY <1>5, <2>1
  <2>3. Run(i + 1)[i + 1] = step[i][Run(i + 1)[i]] /\ Run(i)[i] \in S
    BY <1>2, <2>1
  <2>4. QED
    BY <2>1, <2>2, <2>3
<1>7. g \in [Nat -> S] /\ g[0] = first
  BY <1>2, <1>6
<1>. HIDE DEF g
<1>8. QED
  BY <1>6, <1>7

-----------------------------------------------------------------------------
(* Sums *)

Chosen(s) == CHOOSE x \in s : TRUE
Refolded(f, S, g) == [s \in SUBSET S |-> IF s = {} THEN 0 ELSE f[Chosen(s)] + g[s \ {Chosen(s)}]]
Folded(f, S, g) == g = Refolded(f, S, g)
Sum(f, S) == SumFunctionOnSet(f, S)
Numbers(f, S) == \A x \in S : f[x] \in Nat

LEMMA SumUnfold ==
  ASSUME NEW f, NEW S
  PROVE  Sum(f, S) = (CHOOSE g : Folded(f, S, g))[S]
BY DEF Sum, Folded, Refolded, Chosen, SumFunctionOnSet, FoldFunctionOnSet, MapThenFoldSet

\* A property that a finite set has when it is left by taking away any one element is one
\* of all finite sets.
LEMMA SubsetInduction ==
  ASSUME NEW S, IsFiniteSet(S), NEW G, \A T \in SUBSET S : (\A x \in T : T \ {x} \in G) => T \in G
  PROVE  SUBSET S \subseteq G
<1>. DEFINE Sized(n) == {T \in SUBSET S : Cardinality(T) <= n}
            H == {n \in Nat : Sized(n) \subseteq G}
<1>1. \A T \in SUBSET S : IsFiniteSet(T) /\ Cardinality(T) \in Nat
  BY FS_Subset, FS_CardinalityType
<1>2. 0 \in H
  <2>1. \A T \in SUBSET S : Cardinality(T) <= 0 => T = {}
    BY <1>1, FS_EmptySet
  <2>2. {} \in G
    OBVIOUS
  <2>3. QED
    BY <2>1, <2>2
<1>3. \A n \in Nat : n \in H => n + 1 \in H
  <2>. SUFFICES ASSUME NEW n \in Nat, Sized(n) \subseteq G,
                       NEW T \in SUBSET S, Cardinality(T) <= n + 1
                PROVE  T \in G
    OBVIOUS
  <2>1. ASSUME NEW x \in T PROVE T \ {x} \in G
    <3>1. Cardinality(T \ {x}) = Cardinality(T) - 1
      BY <1>1, FS_RemoveElement
    <3>2. T \ {x} \in Sized(n)
      BY <1>1, <3>1
    <3>3. QED
      BY <3>2
  <2>2. QED
    BY <2>1
<1>. HIDE DEF H
<1>4. Cardinality(S) \in H
  BY <1>1, <1>2, <1>3, SetInduction
<1>5. QED
  BY <1>1, <1>4, FS_Subset DEF H

LEMMA ChosenIn == ASSUME NEW s, s # {} PROVE Chosen(s) \in s
BY DEF Chosen

\* The recursion of a sum over a finite set has a solution.
LEMMA FoldExists ==
  ASSUME NEW S, IsFiniteSet(S), NEW f, Numbers(f, S)
  PROVE  \E g \in [SUBSET S -> Nat] : Folded(f, S, g)
<1>. DEFINE Values == [SUBSET S -> Nat]
            first == [s \in SUBSET S |-> 0]
            step == [k \in Nat |-> [g \in Values |-> Refolded(f, S, g)]]
            N == Cardinality(S) + 1
<1>1. /\ N \in Nat /\ N # 0
      /\ \A T \in SUBSET S : IsFiniteSet(T) /\ Cardinality(T) \in Nat /\ Cardinality(T) < N
  BY FS_Subset, FS_CardinalityType
<1>2. ASSUME NEW g \in Values PROVE Refolded(f, S, g) \in Values
  <2>1. ASSUME NEW s \in SUBSET S, s # {}
        PROVE  f[Chosen(s)] + g[s \ {Chosen(s)}] \in Nat
    <3>1. Chosen(s) \in S /\ s \ {Chosen(s)} \in SUBSET S
      BY <2>1, ChosenIn
    <3>2. f[Chosen(s)] \in Nat /\ g[s \ {Chosen(s)}] \in Nat
      BY <3>1 DEF Numbers
    <3>3. QED
      BY <3>2
  <2>2. QED
    BY <2>1 DEF Refolded
<1>3. /\ first \in Values /\ step \in Steps(Values)
      /\ \A k \in Nat, g \in Values : step[k][g] = Refolded(f, S, g)
  BY <1>2 DEF Steps
<1>4. \A T \in SUBSET S : first[T] = 0
  OBVIOUS
<1>. HIDE DEF Values, first, step, N
<1>5. PICK G \in [0 .. N -> Values] : G[0] = first /\ \A i \in 1 .. N : G[i] = step[i - 1][G[i - 1]]
  <2>1. N \in Nat /\ first \in Values /\ step \in Steps(Values)
    BY <1>1, <1>3
  <2>2. \E G : G \in Iterates(Values, first, step, N)
    BY <2>1, Iteration
  <2>3. \A i \in 1 .. N : i - 1 \in 0 .. N - 1 /\ (i - 1) + 1 = i
    BY <1>1
  <2>4. QED
    BY <2>2, <2>3 DEF Iterates
<1>6. ASSUME NEW i \in 1 .. N PROVE i - 1 \in 0 .. N /\ G[i] = Refolded(f, S, G[i - 1])
  <2>1. i - 1 \in Nat /\ i - 1 \in 0 .. N
    BY <1>1
  <2>2. G[i - 1] \in Values
    BY <2>1
  <2>3. QED
    BY <1>3, <1>5, <2>1, <2>2
\* From the size of a set on, its value is settled.
<1>. DEFINE Settled == {T \in SUBSET S : \A i \in 1 .. N : Cardinality(T) < i => G[i][T] = G[i - 1][T]}
<1>7. ASSUME NEW T \in SUBSET S, \A x \in T : T \ {x} \in Settled PROVE T \in Settled
  <2>. SUFFICES ASSUME NEW i \in 1 .. N, Cardinality(T) < i PROVE G[i][T] = G[i - 1][T]
    OBVIOUS
  <2>1. i \in Nat /\ (i - 1 = 0 \/ i - 1 \in 1 .. N)
    BY <1>1
  <2>2. CASE T = {}
    <3>1. \A j \in 1 .. N : G[j][T] = 0
      BY <1>6, <2>2 DEF Refolded
    <3>2. G[0][T] = 0
      BY <1>4, <1>5
    <3>3. QED
      BY <2>1, <3>1, <3>2
  <2>3. CASE T # {}
    <3>. DEFINE c == Chosen(T)
    <3>1. c \in T
      BY <2>3, ChosenIn
    <3>. HIDE DEF c
    <3>2. T \ {c} \in Settled
      BY <1>7, <3>1
    <3>3. Cardinality(T \ {c}) = Cardinality(T) - 1 /\ Cardinality(T \ {c}) \in Nat
      BY <1>1, <3>1, FS_RemoveElement
    <3>4. i - 1 \in 1 .. N /\ Cardinality(T \ {c}) < i - 1
      BY <1>1, <2>1, <3>3
    <3>5. G[i - 1][T \ {c}] = G[i - 1 - 1][T \ {c}]
      BY <3>2, <3>4
    <3>6. \A j \in 1 .. N : G[j][T] = f[c] + G[j - 1][T \ {c}]
      BY <1>6, <2>3 DEF Refolded, c
    <3>7. QED
      BY <3>4, <3>5, <3>6
  <2>4. QED
    BY <2>2, <2>3
<1>8. SUBSET S \subseteq Settled
  <2>. HIDE DEF Settled
  <2>1. QED
    BY <1>7, SubsetInduction
<1>9. N \in 1 .. N /\ N \in 0 .. N /\ G[N] = Refolded(f, S, G[N - 1])
  BY <1>1, <1>6
<1>10. G[N] \in [SUBSET S -> Nat] /\ G[N - 1] \in [SUBSET S -> Nat]
  BY <1>6, <1>9 DEF Values
<1>11. ASSUME NEW T \in SUBSET S PROVE G[N][T] = G[N - 1][T]
  BY <1>1, <1>8, <1>9
<1>12. G[N - 1] = G[N]
  BY <1>10, <1>11
<1>13. Folded(f, S, G[N])
  BY <1>9, <1>12 DEF Folded
<1>14. QED
  BY <1>10, <1>13

\* Two solutions, of one set and of a larger one, agree.
LEMMA FoldUnique ==
  ASSUME NEW S, IsFiniteSet(S), NEW T \in SUBSET S, NEW f, NEW g, NEW h,
         Folded(f, T, g), Folded(f, S, h)
  PROVE  \A U \in SUBSET T : g[U] = h[U]
<1>. DEFINE A == {U \in SUBSET T : g[U] = h[U]}
<1>1. ASSUME NEW U \in SUBSET T, \A x \in U : U \ {x} \in A PROVE U \in A
  <2>1. U \in SUBSET S /\ g[U] = Refolded(f, T, g)[U] /\ h[U] = Refolded(f, S, h)[U]
    BY DEF Folded
  <2>2. CASE U = {}
    BY <2>1, <2>2 DEF Refolded
  <2>3. CASE U # {}
    <3>1. U \ {Chosen(U)} \in A
      BY <1>1, <2>3, ChosenIn
    <3>2. g[U] = f[Chosen(U)] + g[U \ {Chosen(U)}] /\ h[U] = f[Chosen(U)] + h[U \ {Chosen(U)}]
      BY <2>1, <2>3 DEF Refolded
    <3>3. QED
      BY <3>1, <3>2
  <2>4. QED
    BY <2>2, <2>3
<1>2. IsFiniteSet(T)
  BY FS_Subset
<1>. HIDE DEF A
<1>3. SUBSET T \subseteq A
  BY <1>1, <1>2, SubsetInduction
<1>4. QED
  BY <1>3 DEF A

\* A sum is its first number and the rest.
LEMMA SumChosen ==
  ASSUME NEW S, IsFiniteSet(S), NEW f, Numbers(f, S)
  PROVE  /\ Sum(f, {}) = 0
         /\ S # {} => Sum(f, S) = f[Chosen(S)] + Sum(f, S \ {Chosen(S)})
         /\ Sum(f, S) \in Nat
<1>1. ASSUME NEW T \in SUBSET S
      PROVE  /\ Folded(f, T, CHOOSE g : Folded(f, T, g))
             /\ (CHOOSE g : Folded(f, T, g)) = Refolded(f, T, CHOOSE g : Folded(f, T, g))
  <2>1. IsFiniteSet(T) /\ Numbers(f, T)
    BY FS_Subset DEF Numbers
  <2>2. \E g : Folded(f, T, g)
    BY <2>1, FoldExists
  <2>3. Folded(f, T, CHOOSE g : Folded(f, T, g))
    BY <2>2
  <2>4. QED
    BY <2>3 DEF Folded
<1>. DEFINE h == CHOOSE g : Folded(f, S, g)
<1>2. Folded(f, S, h)
  BY <1>1
<1>3. PICK n \in [SUBSET S -> Nat] : Folded(f, S, n)
  BY FoldExists
<1>. HIDE DEF h
<1>4. ASSUME NEW T \in SUBSET S PROVE Sum(f, T) = h[T] /\ Sum(f, T) \in Nat
  <2>. DEFINE g == CHOOSE g : Folded(f, T, g)
  <2>1. Folded(f, T, g) /\ Sum(f, T) = g[T]
    BY <1>1, SumUnfold
  <2>. HIDE DEF g
  <2>2. \A U \in SUBSET T : g[U] = h[U]
    BY <1>2, <2>1, FoldUnique
  <2>3. \A U \in SUBSET S : n[U] = h[U]
    BY <1>2, <1>3, FoldUnique
  <2>4. QED
    BY <1>3, <2>1, <2>2, <2>3
<1>5. h = Refolded(f, S, h)
  BY <1>2 DEF Folded
<1>6. Sum(f, {}) = 0
  BY <1>4, <1>5 DEF Refolded
<1>7. S # {} => Sum(f, S) = f[Chosen(S)] + Sum(f, S \ {Chosen(S)})
  BY <1>4, <1>5 DEF Refolded
<1>8. QED
  BY <1>4, <1>6, <1>7

LEMMA SumEmpty == ASSUME NEW f PROVE Sum(f, {}) = 0
BY FS_EmptySet, SumChosen DEF Numbers

LEMMA SumType == ASSUME NEW S, IsFiniteSet(S), NEW f, Numbers(f, S) PROVE Sum(f, S) \in Nat
BY SumChosen

\* Any number can be the first.
LEMMA SumAny ==
  ASSUME NEW S, IsFiniteSet(S), NEW f, Numbers(f, S)
  PROVE  \A x \in S : Sum(f, S) = f[x] + Sum(f, S \ {x})
<1>. DEFINE A == {T \in SUBSET S : \A x \in T : Sum(f, T) = f[x] + Sum(f, T \ {x})}
<1>1. ASSUME NEW T \in SUBSET S PROVE IsFiniteSet(T) /\ Numbers(f, T) /\ Sum(f, T) \in Nat
  BY FS_Subset, SumType DEF Numbers
<1>2. ASSUME NEW T \in SUBSET S, \A x \in T : T \ {x} \in A PROVE T \in A
  <2>. SUFFICES ASSUME NEW x \in T PROVE Sum(f, T) = f[x] + Sum(f, T \ {x})
    OBVIOUS
  <2>1. PICK c \in T : Sum(f, T) = f[c] + Sum(f, T \ {c})
    BY <1>1, ChosenIn, SumChosen
  <2>2. CASE c = x
    BY <2>1, <2>2
  <2>3. CASE c # x
    <3>1. Sum(f, T \ {c}) = f[x] + Sum(f, (T \ {c}) \ {x})
      BY <1>2, <2>3
    <3>2. Sum(f, T \ {x}) = f[c] + Sum(f, (T \ {x}) \ {c})
      BY <1>2, <2>3
    <3>3. (T \ {c}) \ {x} = (T \ {x}) \ {c}
      OBVIOUS
    <3>. DEFINE rest == Sum(f, (T \ {x}) \ {c})
    <3>4. rest \in Nat /\ f[x] \in Nat /\ f[c] \in Nat
      BY <1>1 DEF Numbers
    <3>5. Sum(f, T) = f[c] + (f[x] + rest) /\ Sum(f, T \ {x}) = f[c] + rest
      BY <2>1, <3>1, <3>2, <3>3
    <3>. HIDE DEF rest
    <3>6. QED
      BY <3>4, <3>5
  <2>4. QED
    BY <2>2, <2>3
<1>. HIDE DEF A
<1>3. SUBSET S \subseteq A
  BY <1>2, SubsetInduction
<1>4. QED
  BY <1>3 DEF A

\* The numbers of a set alone matter.
LEMMA SumSame ==
  ASSUME NEW S, IsFiniteSet(S), NEW f, NEW g, Numbers(f, S), \A x \in S : f[x] = g[x]
  PROVE  Sum(f, S) = Sum(g, S)
<1>. DEFINE A == {T \in SUBSET S : Sum(f, T) = Sum(g, T)}
<1>1. ASSUME NEW T \in SUBSET S PROVE IsFiniteSet(T) /\ Numbers(f, T) /\ Numbers(g, T)
  BY FS_Subset DEF Numbers
<1>2. ASSUME NEW T \in SUBSET S, \A x \in T : T \ {x} \in A PROVE T \in A
  <2>1. CASE T = {}
    BY <2>1, SumEmpty
  <2>2. CASE T # {}
    <3>1. PICK x \in T : TRUE
      BY <2>2
    <3>2. Sum(f, T) = f[x] + Sum(f, T \ {x}) /\ Sum(g, T) = g[x] + Sum(g, T \ {x})
      BY <1>1, SumAny
    <3>3. QED
      BY <1>2, <3>2
  <2>3. QED
    BY <2>1, <2>2
<1>. HIDE DEF A
<1>3. SUBSET S \subseteq A
  BY <1>2, SubsetInduction
<1>4. QED
  BY <1>3 DEF A

LEMMA SumConstant ==
  ASSUME NEW S, IsFiniteSet(S), NEW c \in Nat, NEW f, \A x \in S : f[x] = c
  PROVE  Sum(f, S) = Cardinality(S) * c
<1>. DEFINE A == {T \in SUBSET S : Sum(f, T) = Cardinality(T) * c}
<1>1. ASSUME NEW T \in SUBSET S PROVE IsFiniteSet(T) /\ Numbers(f, T) /\ Cardinality(T) \in Nat
  BY FS_Subset, FS_CardinalityType DEF Numbers
<1>2. ASSUME NEW T \in SUBSET S, \A x \in T : T \ {x} \in A PROVE T \in A
  <2>1. CASE T = {}
    BY <2>1, SumEmpty, FS_EmptySet
  <2>2. CASE T # {}
    <3>1. PICK x \in T : TRUE
      BY <2>2
    <3>2. Sum(f, T) = c + Sum(f, T \ {x})
      BY <1>1, SumAny
    <3>3. Cardinality(T \ {x}) = Cardinality(T) - 1
      BY <1>1, <3>1, FS_RemoveElement
    <3>4. Sum(f, T \ {x}) = Cardinality(T \ {x}) * c
      BY <1>2
    <3>5. c + (Cardinality(T) - 1) * c = Cardinality(T) * c
      BY <1>1
    <3>6. QED
      BY <3>2, <3>3, <3>4, <3>5
  <2>3. QED
    BY <2>1, <2>2
<1>. HIDE DEF A
<1>3. SUBSET S \subseteq A
  BY <1>2, SubsetInduction
<1>4. QED
  BY <1>3 DEF A

\* A part and the rest.
LEMMA SumSplit ==
  ASSUME NEW S, IsFiniteSet(S), NEW f, Numbers(f, S), NEW P \in SUBSET S
  PROVE  Sum(f, S) = Sum(f, P) + Sum(f, S \ P)
<1>. DEFINE A == {T \in SUBSET S : Sum(f, T) = Sum(f, T \cap P) + Sum(f, T \ P)}
<1>1. ASSUME NEW T \in SUBSET S PROVE IsFiniteSet(T) /\ Numbers(f, T) /\ Sum(f, T) \in Nat
  BY FS_Subset, SumType DEF Numbers
<1>2. ASSUME NEW T \in SUBSET S, \A x \in T : T \ {x} \in A PROVE T \in A
  <2>1. CASE T = {}
    <3>1. T \cap P = {} /\ T \ P = {}
      BY <2>1
    <3>2. QED
      BY <2>1, <3>1, SumEmpty
  <2>2. CASE T # {}
    <3>1. PICK x \in T : TRUE
      BY <2>2
    <3>2. Sum(f, T) = f[x] + Sum(f, T \ {x}) /\ Sum(f, T \ {x}) = Sum(f, (T \ {x}) \cap P) + Sum(f, (T \ {x}) \ P)
      BY <1>1, <1>2, SumAny
    <3>. DEFINE a == Sum(f, (T \ {x}) \cap P)
                b == Sum(f, (T \ {x}) \ P)
    <3>3. a \in Nat /\ b \in Nat /\ f[x] \in Nat
      BY <1>1 DEF Numbers
    <3>4. CASE x \in P
      <4>1. (T \ {x}) \cap P = (T \cap P) \ {x} /\ (T \ {x}) \ P = T \ P
        BY <3>4
      <4>2. Sum(f, T \cap P) = f[x] + a
        BY <1>1, <3>4, <4>1, SumAny
      <4>3. Sum(f, T) = f[x] + (a + b) /\ Sum(f, T \ P) = b
        BY <3>2, <4>1
      <4>. HIDE DEF a, b
      <4>4. QED
        BY <3>3, <4>2, <4>3
    <3>5. CASE x \notin P
      <4>1. (T \ {x}) \cap P = T \cap P /\ (T \ {x}) \ P = (T \ P) \ {x}
        BY <3>5
      <4>2. Sum(f, T \ P) = f[x] + b
        BY <1>1, <3>5, <4>1, SumAny
      <4>3. Sum(f, T) = f[x] + (a + b) /\ Sum(f, T \cap P) = a
        BY <3>2, <4>1
      <4>. HIDE DEF a, b
      <4>4. QED
        BY <3>3, <4>2, <4>3
    <3>6. QED
      BY <3>4, <3>5
  <2>3. QED
    BY <2>1, <2>2
<1>. HIDE DEF A
<1>3. S \in A
  BY <1>2, SubsetInduction
<1>4. S \cap P = P
  OBVIOUS
<1>5. QED
  BY <1>3, <1>4 DEF A

\* A set whose elements stand for those of another has the same sum.
LEMMA SumImage ==
  ASSUME NEW S, IsFiniteSet(S), NEW f, NEW g, NEW h, Numbers(f, S),
         \A x, y \in S : h[x] = h[y] => x = y, \A x \in S : f[x] = g[h[x]]
  PROVE  Sum(f, S) = Sum(g, {h[x] : x \in S})
<1>. DEFINE Image(T) == {h[x] : x \in T}
            A == {T \in SUBSET S : Sum(f, T) = Sum(g, Image(T))}
<1>1. ASSUME NEW T \in SUBSET S
      PROVE  IsFiniteSet(T) /\ Numbers(f, T) /\ IsFiniteSet(Image(T)) /\ Numbers(g, Image(T))
  <2>1. IsFiniteSet(T) /\ Numbers(f, T)
    BY FS_Subset DEF Numbers
  <2>2. IsFiniteSet(Image(T))
    <3>. DEFINE m == [x \in T |-> h[x]]
    <3>1. m \in Surjection(T, Image(T))
      BY DEF Surjection
    <3>. HIDE DEF m, Image
    <3>2. QED
      BY <2>1, <3>1, FS_Surjection
  <2>3. Numbers(g, Image(T))
    BY DEF Numbers
  <2>4. QED
    BY <2>1, <2>2, <2>3
<1>2. ASSUME NEW T \in SUBSET S, \A x \in T : T \ {x} \in A PROVE T \in A
  <2>1. CASE T = {}
    <3>1. Image(T) = {}
      BY <2>1
    <3>2. QED
      BY <2>1, <3>1, SumEmpty
  <2>2. CASE T # {}
    <3>1. PICK x \in T : TRUE
      BY <2>2
    <3>2. Image(T) \ {h[x]} = Image(T \ {x}) /\ h[x] \in Image(T)
      OBVIOUS
    <3>3. Sum(f, T) = f[x] + Sum(f, T \ {x}) /\ Sum(g, Image(T)) = g[h[x]] + Sum(g, Image(T) \ {h[x]})
      BY <1>1, <3>2, SumAny
    <3>4. Sum(f, T \ {x}) = Sum(g, Image(T \ {x}))
      BY <1>2
    <3>5. QED
      BY <3>2, <3>3, <3>4
  <2>3. QED
    BY <2>1, <2>2
<1>. HIDE DEF A
<1>3. S \in A
  BY <1>2, SubsetInduction
<1>4. QED
  BY <1>3 DEF A

\* The sum by groups.
LEMMA SumGroups ==
  ASSUME NEW S, IsFiniteSet(S), NEW f, Numbers(f, S), NEW K, IsFiniteSet(K), NEW k, \A x \in S : k[x] \in K
  PROVE  Sum(f, S) = Sum([t \in K |-> Sum(f, {x \in S : k[x] = t})], K)
<1>. DEFINE Group(T, t) == {x \in T : k[x] = t}
            groups(T) == [t \in K |-> Sum(f, Group(T, t))]
            A == {T \in SUBSET S : Sum(f, T) = Sum(groups(T), K)}
<1>1. ASSUME NEW T \in SUBSET S
      PROVE  IsFiniteSet(T) /\ Numbers(f, T) /\ Numbers(groups(T), K)
             /\ \A t \in K : Sum(f, Group(T, t)) \in Nat
  <2>1. \A U \in SUBSET S : IsFiniteSet(U) /\ Numbers(f, U) /\ Sum(f, U) \in Nat
    BY FS_Subset, SumType DEF Numbers
  <2>2. \A t \in K : Group(T, t) \in SUBSET S
    OBVIOUS
  <2>3. QED
    BY <2>1, <2>2 DEF Numbers
<1>2. ASSUME NEW T \in SUBSET S, \A x \in T : T \ {x} \in A PROVE T \in A
  <2>1. CASE T = {}
    <3>1. \A t \in K : groups(T)[t] = 0
      <4>1. \A t \in K : Group(T, t) = {}
        BY <2>1
      <4>2. QED
        BY <4>1, SumEmpty
    <3>2. Sum(groups(T), K) = Cardinality(K) * 0 /\ Cardinality(K) \in Nat
      BY <3>1, SumConstant, FS_CardinalityType
    <3>3. QED
      BY <2>1, <3>2, SumEmpty
  <2>2. CASE T # {}
    <3>1. PICK x \in T : TRUE
      BY <2>2
    <3>. DEFINE t == k[x]
                U == T \ {x}
    <3>2. t \in K /\ U \in SUBSET S /\ x \in Group(T, t)
      OBVIOUS
    <3>3. Group(U, t) = Group(T, t) \ {x}
      OBVIOUS
    <3>4. \A o \in K \ {t} : Group(U, o) = Group(T, o)
      OBVIOUS
    <3>5. IsFiniteSet(Group(T, t)) /\ Numbers(f, Group(T, t))
      BY FS_Subset DEF Numbers
    <3>6. Sum(f, Group(T, t)) = f[x] + Sum(f, Group(U, t))
      BY <3>2, <3>3, <3>5, SumAny
    <3>7. Sum(groups(T), K) = groups(T)[t] + Sum(groups(T), K \ {t})
      BY <1>1, <3>2, SumAny
    <3>8. Sum(groups(U), K) = groups(U)[t] + Sum(groups(U), K \ {t})
      BY <1>1, <3>2, SumAny
    <3>9. IsFiniteSet(K \ {t}) /\ Numbers(groups(T), K \ {t})
      BY <1>1, FS_Subset DEF Numbers
    <3>10. \A o \in K \ {t} : groups(T)[o] = groups(U)[o]
      BY <3>4
    <3>11. Sum(groups(T), K \ {t}) = Sum(groups(U), K \ {t}) /\ Sum(groups(T), K \ {t}) \in Nat
      <4>. HIDE DEF groups
      <4>1. QED
        BY <3>9, <3>10, SumSame, SumType
    <3>12. Sum(f, T) = f[x] + Sum(f, U) /\ Sum(f, U) = Sum(groups(U), K) /\ f[x] \in Nat
      BY <1>1, <1>2, SumAny DEF Numbers
    <3>13. Sum(f, Group(U, t)) \in Nat
      BY <1>1, <3>2
    <3>. DEFINE a == Sum(f, Group(U, t))
                r == Sum(groups(T), K \ {t})
    <3>14. Sum(groups(T), K) = (f[x] + a) + r /\ Sum(f, T) = f[x] + (a + r) /\ a \in Nat /\ r \in Nat
      BY <3>2, <3>6, <3>7, <3>8, <3>11, <3>12, <3>13
    <3>. HIDE DEF a, r
    <3>15. Sum(groups(T), K) = Sum(f, T)
      BY <3>12, <3>14
    <3>16. QED
      BY <3>15
  <2>3. QED
    BY <2>1, <2>2
<1>. HIDE DEF A
<1>3. S \in A
  BY <1>2, SubsetInduction
<1>4. QED
  BY <1>3 DEF A

\* As many as are their images, if these differ.
LEMMA CardImage ==
  ASSUME NEW S, IsFiniteSet(S), NEW h, \A x, y \in S : h[x] = h[y] => x = y
  PROVE  IsFiniteSet({h[x] : x \in S}) /\ Cardinality({h[x] : x \in S}) = Cardinality(S)
<1>. DEFINE T == {h[x] : x \in S}
            f == [x \in S |-> h[x]]
<1>1. f \in [S -> T] /\ \A x, y \in S : f[x] = f[y] => x = y
  OBVIOUS
<1>2. \A t \in T : \E x \in S : f[x] = t
  OBVIOUS
<1>. HIDE DEF f, T
<1>3. f \in Bijection(S, T)
  BY <1>1, <1>2 DEF Bijection, Injection, Surjection, IsInjective
<1>4. ExistsBijection(S, T)
  BY <1>3 DEF ExistsBijection
<1>5. IsFiniteSet(T) /\ Cardinality(T) = Cardinality(S)
  BY <1>4, FS_Bijection
<1>6. QED
  BY <1>5 DEF T
=============================================================================
