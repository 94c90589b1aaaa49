--------------------- MODULE BlockwiseCondition_proofs ---------------------
(***************************************************************************)
(* Proofs about the exploration of a condition: what its gates, routers    *)
(* and searches report, for any number of layers and blocks and whatever   *)
(* the probes find, and what the budget controller commits, alone and as a *)
(* part of a condition.                                                    *)
(*                                                                         *)
(* The searches are recursive functions over the number of steps. That     *)
(* such a function exists and what it computes is shown by Iterates and    *)
(* UpTo, from the least number at which it would fail.                     *)
(***************************************************************************)
EXTENDS FittedCondition, TLAPS, WellFoundedInduction, FiniteSetTheorems

-----------------------------------------------------------------------------
(* Numbers, steps and finite sets.                                         *)

\* A set of numbers has a least one.
LEMMA MinInSet ==
    ASSUME NEW S \in SUBSET Nat, S # {}
    PROVE  Min(S) \in S /\ \A x \in S : Min(S) <= x
<1>1. PICK x \in S : \A y \in S : ~(<<y, x>> \in OpToRel(<, Nat))
  BY NatLessThanWellFounded, WFMin
<1>2. \A y \in S : x <= y
  <2> SUFFICES ASSUME NEW y \in S, y < x PROVE FALSE
    BY SMT
  <2>1. <<y, x>> \in Nat \X Nat /\ <<y, x>>[1] = y /\ <<y, x>>[2] = x
    OBVIOUS
  <2>2. <<y, x>> \in OpToRel(<, Nat)
    BY <2>1 DEF OpToRel
  <2>3. QED
    BY <1>1, <2>2
<1>3. QED
  BY <1>2 DEF Min

\* What holds of 0 and passes from each number below n to the next holds up
\* to n: the least number of which it does not hold would be above another.
LEMMA UpTo ==
    ASSUME NEW n \in Nat, NEW S, 0 \in S, \A i \in 0..(n - 1) : i \in S => i + 1 \in S
    PROVE  \A i \in 0..n : i \in S
<1> DEFINE bad == {i \in 0..n : i \notin S}
<1>1. SUFFICES ASSUME bad # {} PROVE FALSE
  OBVIOUS
<1>2. Min(bad) \in bad /\ \A x \in bad : Min(bad) <= x
  <2>1. bad \in SUBSET Nat
    OBVIOUS
  <2> HIDE DEF bad
  <2>2. QED
    BY <1>1, <2>1, MinInSet
<1>3. PICK m \in bad : \A x \in bad : m <= x
  BY <1>2
<1>4. m # 0 /\ m - 1 \in 0..(n - 1) /\ m - 1 \in S
  BY <1>3
<1>5. QED
  BY <1>3, <1>4

\* A value that each of n steps takes from V to V.
Iterable(n, V, a, step) ==
    \E g \in [0..n -> V] : g[0] = a /\ \A i \in 1..n : g[i] = step[i][g[i - 1]]

\* There is such a sequence of values.
LEMMA Iterates ==
    ASSUME NEW n \in Nat, NEW V, NEW a \in V, NEW step,
           \A i \in 1..n : \A x \in V : step[i][x] \in V
    PROVE  Iterable(n, V, a, step)
<1> DEFINE Right(g, j) == g[0] = a /\ \A i \in 1..j : g[i] = step[i][g[i - 1]]
           S == {j \in 0..n : \E g \in [0..n -> V] : Right(g, j)}
<1>1. 0 \in S
  <2>1. [i \in 0..n |-> a] \in [0..n -> V] /\ Right([i \in 0..n |-> a], 0)
    OBVIOUS
  <2> HIDE DEF Right
  <2>2. QED
    BY <2>1
<1>2. ASSUME NEW j \in 0..(n - 1), j \in S PROVE j + 1 \in S
  <2>1. PICK g \in [0..n -> V] : Right(g, j)
    BY <1>2
  <2> DEFINE h == [g EXCEPT ![j + 1] = step[j + 1][g[j]]]
  <2>2. h \in [0..n -> V]
    OBVIOUS
  <2>3. Right(h, j + 1)
    BY <2>1
  <2> HIDE DEF h, Right
  <2>4. QED
    BY <2>2, <2>3
<1>3. n \in S
  <2> HIDE DEF S
  <2>1. \A i \in 0..n : i \in S
    BY <1>1, <1>2, UpTo
  <2>2. QED
    BY <2>1
<1>4. QED
  BY <1>3 DEF Iterable

\* What holds of the empty set and is kept by adding an element of S holds
\* of S: so it does of the subsets of each cardinality in turn.
LEMMA ByAdding ==
    ASSUME NEW S, IsFiniteSet(S), NEW C, {} \in C,
           \A T \in SUBSET S : \A x \in S \ T : T \in C => T \cup {x} \in C
    PROVE  S \in C
<1> DEFINE n == Cardinality(S)
           N == {j \in 0..n : \A T \in SUBSET S : Cardinality(T) = j => T \in C}
<1>0. n \in Nat /\ \A T \in SUBSET S : IsFiniteSet(T) /\ Cardinality(T) \in Nat
  BY FS_CardinalityType, FS_Subset
<1>1. 0 \in N
  <2>1. \A T \in SUBSET S : Cardinality(T) = 0 => T = {}
    BY <1>0, FS_EmptySet
  <2>2. 0 \in 0..n
    BY <1>0
  <2>3. \A T \in SUBSET S : Cardinality(T) = 0 => T \in C
    BY <2>1
  <2>4. QED
    BY <2>2, <2>3
<1>2. ASSUME NEW j \in 0..(n - 1), j \in N PROVE j + 1 \in N
  <2> SUFFICES ASSUME NEW T \in SUBSET S, Cardinality(T) = j + 1 PROVE T \in C
    BY <1>0
  <2>1. PICK x \in T : TRUE
    BY <1>0, FS_EmptySet
  <2>2. Cardinality(T \ {x}) = j
    <3>1. IsFiniteSet(T)
      BY <1>0
    <3>2. Cardinality(T \ {x}) = Cardinality(T) - 1
      BY <2>1, <3>1, FS_RemoveElement
    <3>3. QED
      BY <3>2
  <2>3. T \ {x} \in C
    BY <1>2, <2>2
  <2>4. T = (T \ {x}) \cup {x} /\ x \in S \ (T \ {x})
    BY <2>1
  <2>5. QED
    BY <2>3, <2>4
<1> HIDE DEF N
<1>3. \A j \in 0..n : j \in N
  BY <1>0, <1>1, <1>2, UpTo
<1>4. QED
  BY <1>0, <1>3 DEF N

\* Any two members of the set are ordered, and what comes after what comes
\* after comes after.
Ordered(S, R) ==
    /\ \A x, y \in S : x = y \/ <<x, y>> \in R \/ <<y, x>> \in R
    /\ \A x, y, z \in S : <<x, y>> \in R /\ <<y, z>> \in R => <<x, z>> \in R

\* A finite set has a first element by any order of its elements.
LEMMA FirstOne ==
    ASSUME NEW S, IsFiniteSet(S), S # {}, NEW R, Ordered(S, R)
    PROVE  \E m \in S : \A y \in S : y = m \/ <<m, y>> \in R
<1> DEFINE C == {T \in SUBSET S : T # {} => \E m \in T : \A y \in T : y = m \/ <<m, y>> \in R}
<1>1. {} \in C
  OBVIOUS
<1>2. ASSUME NEW T \in SUBSET S, NEW x \in S \ T, T \in C PROVE T \cup {x} \in C
  <2>1. CASE T = {}
    BY <2>1
  <2>2. CASE T # {}
    <3>1. PICK m \in T : \A y \in T : y = m \/ <<m, y>> \in R
      BY <1>2, <2>2
    <3>2. CASE <<m, x>> \in R
      BY <3>1, <3>2
    <3>3. CASE <<x, m>> \in R
      <4>1. \A y \in T : <<x, y>> \in R
        BY <3>1, <3>3 DEF Ordered
      <4>2. QED
        BY <4>1
    <3>4. QED
      BY <3>1, <3>2, <3>3 DEF Ordered
  <2>3. QED
    BY <2>1, <2>2
<1> HIDE DEF C
<1>3. S \in C
  BY <1>1, <1>2, ByAdding
<1>4. QED
  BY <1>3 DEF C

\* The first of the numbers with the least value.
LEMMA FirstLeast ==
    ASSUME NEW S \in SUBSET Nat, IsFiniteSet(S), S # {}, NEW f, \A c \in S : f[c] \in Int
    PROVE  \E c \in S : \A d \in S : f[c] < f[d] \/ (f[c] = f[d] /\ c <= d)
<1> DEFINE R == {p \in S \X S :
                    f[p[1]] < f[p[2]] \/ (f[p[1]] = f[p[2]] /\ p[1] < p[2])}
<1>0. \A c \in S : c \in Nat
  OBVIOUS
<1>1. \A x, y \in S : <<x, y>> \in R <=> (f[x] < f[y] \/ (f[x] = f[y] /\ x < y))
  <2> SUFFICES ASSUME NEW x \in S, NEW y \in S
               PROVE  <<x, y>> \in R <=> (f[x] < f[y] \/ (f[x] = f[y] /\ x < y))
    OBVIOUS
  <2>1. <<x, y>> \in S \X S /\ <<x, y>>[1] = x /\ <<x, y>>[2] = y
    OBVIOUS
  <2>2. QED
    BY <2>1
<1> HIDE DEF R
<1>2. \A x, y \in S : x = y \/ <<x, y>> \in R \/ <<y, x>> \in R
  <2> SUFFICES ASSUME NEW x \in S, NEW y \in S, x # y PROVE <<x, y>> \in R \/ <<y, x>> \in R
    OBVIOUS
  <2>1. x \in Nat /\ y \in Nat /\ f[x] \in Int /\ f[y] \in Int
    BY <1>0
  <2>2. QED
    BY <1>1, <2>1
<1>3. \A x, y, z \in S : <<x, y>> \in R /\ <<y, z>> \in R => <<x, z>> \in R
  BY <1>0, <1>1
<1>4. PICK m \in S : \A y \in S : y = m \/ <<m, y>> \in R
  <2>1. Ordered(S, R)
    BY <1>2, <1>3 DEF Ordered
  <2>2. QED
    BY <2>1, FirstOne
<1>5. \A d \in S : f[m] < f[d] \/ (f[m] = f[d] /\ m <= d)
  <2> SUFFICES ASSUME NEW d \in S PROVE f[m] < f[d] \/ (f[m] = f[d] /\ m <= d)
    OBVIOUS
  <2>1. m \in Nat /\ d \in Nat
    BY <1>0
  <2>2. <<m, d>> \in R => f[m] < f[d] \/ (f[m] = f[d] /\ m < d)
    BY <1>1
  <2>3. QED
    BY <1>4, <2>1, <2>2
<1>6. QED
  BY <1>5

\* A finite set of integers has a greatest one.
LEMMA MaxInSet ==
    ASSUME NEW S \in SUBSET Int, IsFiniteSet(S), S # {}
    PROVE  Max(S) \in S /\ \A x \in S : Max(S) >= x
<1> DEFINE R == {p \in S \X S : p[1] > p[2]}
<1>0. \A x \in S : x \in Int
  OBVIOUS
<1>1. \A x, y \in S : <<x, y>> \in R <=> x > y
  <2> SUFFICES ASSUME NEW x \in S, NEW y \in S PROVE <<x, y>> \in R <=> x > y
    OBVIOUS
  <2>1. <<x, y>> \in S \X S /\ <<x, y>>[1] = x /\ <<x, y>>[2] = y
    OBVIOUS
  <2>2. QED
    BY <2>1
<1> HIDE DEF R
<1>2. /\ \A x, y \in S : x = y \/ <<x, y>> \in R \/ <<y, x>> \in R
      /\ \A x, y, z \in S : <<x, y>> \in R /\ <<y, z>> \in R => <<x, z>> \in R
  BY <1>0, <1>1
<1>2a. PICK m \in S : \A y \in S : y = m \/ <<m, y>> \in R
  <2>1. Ordered(S, R)
    BY <1>2 DEF Ordered
  <2>2. QED
    BY <2>1, FirstOne
<1>3. \A y \in S : m >= y
  <2> SUFFICES ASSUME NEW y \in S PROVE m >= y
    OBVIOUS
  <2>1. m \in Int /\ y \in Int
    BY <1>0
  <2>2. <<m, y>> \in R => m > y
    BY <1>1
  <2>3. QED
    BY <1>2a, <2>1, <2>2
<1>4. QED
  BY <1>3 DEF Max

\* What the fold takes out of a set first.
Pick(s) == CHOOSE x \in s : TRUE

\* The sum over a set when that over the rest is known.
SumBy(f, t, s) == IF s = {} THEN 0 ELSE t[s \ {Pick(s)}] + f[Pick(s)]

\* Taking an element out of a finite set makes it smaller by one.
LEMMA SmallerByOne ==
    ASSUME NEW S, IsFiniteSet(S), NEW s \in SUBSET S
    PROVE  /\ IsFiniteSet(s) /\ Cardinality(s) \in 0..Cardinality(S) /\ Cardinality(S) \in Nat
           /\ Cardinality(s) = 0 <=> s = {}
           /\ s # {} => Pick(s) \in s
           /\ \A x \in s : Cardinality(s \ {x}) = Cardinality(s) - 1
<1>1. IsFiniteSet(s) /\ Cardinality(s) <= Cardinality(S)
  BY FS_Subset
<1>2. Cardinality(s) \in Nat /\ Cardinality(S) \in Nat
  BY <1>1, FS_CardinalityType
<1>3. \A x \in s : Cardinality(s \ {x}) = Cardinality(s) - 1
  BY <1>1, FS_RemoveElement
<1>4. Cardinality(s) = 0 <=> s = {}
  BY <1>1, FS_EmptySet
<1>5. QED
  BY <1>1, <1>2, <1>3, <1>4 DEF Pick

\* What a step of the fold computes from a table of sums: after as many steps
\* as there are elements the table does not change any more.
LEMMA SumsExist ==
    ASSUME NEW S, IsFiniteSet(S), NEW f, \A x \in S : f[x] \in Int
    PROVE  \E t \in [SUBSET S -> Int] : \A s \in SUBSET S : t[s] = SumBy(f, t, s)
<1> DEFINE n == Cardinality(S) + 1
           V == [SUBSET S -> Int]
           Updated(g) == [s \in SUBSET S |-> SumBy(f, g, s)]
           step == [i \in 1..n |-> [g \in V |-> Updated(g)]]
           none == [s \in SUBSET S |-> 0]
<1>1. n \in Nat \ {0} /\ Cardinality(S) \in Nat
  BY FS_CardinalityType
<1>2. ASSUME NEW g \in V PROVE Updated(g) \in V
  <2> SUFFICES ASSUME NEW s \in SUBSET S PROVE SumBy(f, g, s) \in Int
    OBVIOUS
  <2>1. CASE s = {}
    BY <2>1 DEF SumBy
  <2>2. CASE s # {}
    <3>1. Pick(s) \in s /\ s \ {Pick(s)} \in SUBSET S
      BY <2>2 DEF Pick
    <3>2. f[Pick(s)] \in Int /\ g[s \ {Pick(s)}] \in Int
      BY <3>1
    <3>3. QED
      BY <3>2 DEF SumBy
  <2>3. QED
    BY <2>1, <2>2
<1>3. none \in V
  OBVIOUS
<1>4. \A i \in 1..n : \A g \in V : step[i][g] = Updated(g)
  OBVIOUS
<1> HIDE DEF step, none, n
<1>5. PICK h \in [0..n -> V] : h[0] = none /\ \A i \in 1..n : h[i] = Updated(h[i - 1])
  <2> HIDE DEF V, Updated
  <2>1. \A i \in 1..n : \A g \in V : step[i][g] \in V
    BY <1>2, <1>4
  <2>2. Iterable(n, V, none, step)
    BY <1>1, <1>3, <2>1, Iterates
  <2>3. PICK h \in [0..n -> V] : h[0] = none /\ \A i \in 1..n : h[i] = step[i][h[i - 1]]
    BY <2>2 DEF Iterable
  <2>4. \A i \in 1..n : i - 1 \in 0..n
    BY <1>1
  <2>5. \A i \in 1..n : h[i - 1] \in V
    BY <2>4
  <2>6. QED
    BY <1>4, <2>3, <2>5, ZenonT(30)
<1> DEFINE Settled(i) == \A s \in SUBSET S : Cardinality(s) < i => h[i][s] = h[i - 1][s]
           D == {k \in 0..(n - 1) : Settled(k + 1)}
<1>6. \A i \in 1..n : \A s \in SUBSET S : h[i][s] = SumBy(f, h[i - 1], s)
  BY <1>5
<1>7. 0 \in D
  <2>1. \A s \in SUBSET S : Cardinality(s) < 1 => s = {}
    BY SmallerByOne
  <2>2. h[1][{}] = 0 /\ h[0][{}] = 0
    <3>1. 1 \in 1..n /\ {} \in SUBSET S
      BY <1>1
    <3>2. h[1][{}] = SumBy(f, h[1 - 1], {})
      BY <1>6, <3>1
    <3>3. none[{}] = 0
      BY <3>1 DEF none
    <3>4. QED
      BY <1>5, <3>2, <3>3 DEF SumBy
  <2>3. Settled(1)
    <3>1. 1 - 1 = 0
      OBVIOUS
    <3>2. QED
      BY <2>1, <2>2, <3>1
  <2>4. 0 \in 0..(n - 1) /\ 0 + 1 = 1
    BY <1>1
  <2> HIDE DEF Settled
  <2>5. QED
    BY <2>3, <2>4
<1>8. ASSUME NEW k \in 0..(n - 1 - 1), k \in D PROVE k + 1 \in D
  <2>0. k + 1 \in 1..n /\ k + 2 \in 1..n /\ k + 1 \in 0..(n - 1) /\ (k + 2) - 1 = k + 1
        /\ (k + 1) - 1 = k /\ (k + 1) + 1 = k + 2
    BY <1>1
  <2>1. ASSUME NEW s \in SUBSET S, Cardinality(s) < k + 2 PROVE h[k + 2][s] = h[k + 1][s]
    <3>1. h[k + 2][s] = SumBy(f, h[k + 1], s) /\ h[k + 1][s] = SumBy(f, h[k], s)
      BY <1>6, <2>0
    <3>2. CASE s = {}
      BY <3>1, <3>2 DEF SumBy
    <3>3. CASE s # {}
      <4> DEFINE r == s \ {Pick(s)}
      <4>1. r \in SUBSET S /\ Cardinality(r) = Cardinality(s) - 1 /\ Cardinality(s) \in Nat
        BY <3>3, SmallerByOne
      <4>2. Cardinality(r) < k + 1
        BY <2>1, <4>1
      <4>3. h[k + 1][r] = h[k][r]
        BY <1>8, <2>0, <4>1, <4>2
      <4>4. QED
        BY <3>1, <3>3, <4>3 DEF SumBy
    <3>4. QED
      BY <3>2, <3>3
  <2>2. QED
    BY <2>0, <2>1
<1>9. Settled(n)
  <2>1. n - 1 \in Nat /\ n - 1 \in 0..(n - 1) /\ (n - 1) + 1 = n
    BY <1>1
  <2>2. \A k \in 0..(n - 1) : k \in D
    <3> HIDE DEF D
    <3>1. QED
      BY <1>7, <1>8, <2>1, UpTo
  <2>3. QED
    BY <2>1, <2>2
<1>10. \A s \in SUBSET S : h[n - 1][s] = SumBy(f, h[n - 1], s)
  <2> SUFFICES ASSUME NEW s \in SUBSET S PROVE h[n - 1][s] = SumBy(f, h[n - 1], s)
    OBVIOUS
  <2>1. Cardinality(s) < n
    BY SmallerByOne DEF n
  <2>2. h[n][s] = h[n - 1][s]
    BY <1>9, <2>1
  <2>3. QED
    BY <1>1, <1>6, <2>2
<1>11. h[n - 1] \in V
  <2>1. n - 1 \in 0..n
    BY <1>1
  <2> HIDE DEF V
  <2>2. QED
    BY <2>1
<1>12. QED
  BY <1>10, <1>11

\* Every entry of a table of sums is an integer, and counts where all that is
\* summed is 1.
LEMMA SumTables ==
    ASSUME NEW S, IsFiniteSet(S), NEW f, \A x \in S : f[x] \in Int,
           NEW t, \A s \in SUBSET S : t[s] = SumBy(f, t, s)
    PROVE  /\ t[S] \in Int
           /\ (\A x \in S : f[x] = 1) => t[S] = Cardinality(S)
<1> DEFINE n == Cardinality(S)
           ones == \A x \in S : f[x] = 1
           D == {k \in 0..n : \A s \in SUBSET S : Cardinality(s) = k =>
                    t[s] \in Int /\ (ones => t[s] = k)}
<1>0. n \in Nat
  BY FS_CardinalityType
<1>1. 0 \in D
  <2>1. \A s \in SUBSET S : Cardinality(s) = 0 => t[s] = 0
    BY SmallerByOne DEF SumBy
  <2>2. QED
    BY <1>0, <2>1
<1>2. ASSUME NEW k \in 0..(n - 1), k \in D PROVE k + 1 \in D
  <2>1. ASSUME NEW s \in SUBSET S, Cardinality(s) = k + 1
        PROVE  t[s] \in Int /\ (ones => t[s] = k + 1)
    <3> DEFINE r == s \ {Pick(s)}
    <3>1. s # {} /\ Pick(s) \in S /\ r \in SUBSET S /\ Cardinality(r) = k
      BY <2>1, SmallerByOne
    <3>2. t[r] \in Int /\ (ones => t[r] = k)
      BY <1>2, <3>1
    <3>3. t[s] = t[r] + f[Pick(s)]
      BY <3>1 DEF SumBy
    <3> HIDE DEF r
    <3>4. QED
      BY <3>1, <3>2, <3>3
  <2>2. k + 1 \in 0..n
    BY <1>0
  <2>3. QED
    BY <2>1, <2>2
<1> HIDE DEF D
<1>3. n \in D
  BY <1>0, <1>1, <1>2, UpTo
<1>4. QED
  BY <1>3 DEF D

\* A sum of integers is an integer; a sum of ones counts them.
LEMMA SumFacts ==
    ASSUME NEW f, IsFiniteSet(DOMAIN f), \A x \in DOMAIN f : f[x] \in Int
    PROVE  /\ Total(f) \in Int
           /\ (\A x \in DOMAIN f : f[x] = 1) => Total(f) = Cardinality(DOMAIN f)
<1> DEFINE S == DOMAIN f
           body(g) == [s \in SUBSET S |-> IF s = {} THEN 0 ELSE g[s \ {Pick(s)}] + f[Pick(s)]]
           body2(g) == [s \in SUBSET S |-> IF s = {} THEN 0 ELSE f[Pick(s)] + g[s \ {Pick(s)}]]
           v == CHOOSE g : g = [s \in SUBSET S |-> IF s = {} THEN 0 ELSE g[s \ {Pick(s)}] + f[Pick(s)]]
<1>1. Total(f) = v[S]
  BY DEF Total, FoldSet, MapThenFoldSet, Pick
<1>2. PICK t \in [SUBSET S -> Int] : \A s \in SUBSET S : t[s] = SumBy(f, t, s)
  BY SumsExist
<1>3. t = body(t)
  BY <1>2 DEF SumBy
<1>4. v = body(v)
  BY <1>3, Zenon
<1> HIDE DEF v
<1>5. \A s \in SUBSET S : v[s] = SumBy(f, v, s)
  BY <1>4 DEF SumBy
<1> HIDE DEF body
<1>6. QED
  BY <1>1, <1>5, SumTables

\* Nothing comes before itself.
Strict(S, R) == Ordered(S, R) /\ \A x \in S : <<x, x>> \notin R

Predecessors(S, R, x) == {y \in S : <<y, x>> \in R}

\* The members of a finite ordered set that fewer than k come before are k,
\* or all of it.
LEMMA RankSize ==
    ASSUME NEW S, IsFiniteSet(S), NEW R, Strict(S, R), NEW k \in Nat
    PROVE  LET T == {x \in S : Cardinality({y \in S : <<y, x>> \in R}) < k}
           IN  Cardinality(T) = IF k < Cardinality(S) THEN k ELSE Cardinality(S)
<1> DEFINE n == Cardinality(S)
           rank == [x \in S |-> Cardinality(Predecessors(S, R, x))]
           T == {x \in S : rank[x] < k}
           U == S \ T
<1>0. n \in Nat
  BY FS_CardinalityType
<1>1. \A x \in S : IsFiniteSet(Predecessors(S, R, x)) /\ rank[x] \in 0..(n - 1)
  <2> SUFFICES ASSUME NEW x \in S
               PROVE  IsFiniteSet(Predecessors(S, R, x)) /\ rank[x] \in 0..(n - 1)
    OBVIOUS
  <2>1. Predecessors(S, R, x) \in SUBSET (S \ {x})
    BY DEF Predecessors, Strict
  <2>2. IsFiniteSet(S \ {x}) /\ Cardinality(S \ {x}) = n - 1
    BY FS_RemoveElement
  <2>3. IsFiniteSet(Predecessors(S, R, x)) /\ Cardinality(Predecessors(S, R, x)) <= n - 1
    BY <2>1, <2>2, FS_Subset
  <2>4. Cardinality(Predecessors(S, R, x)) \in Nat
    BY <2>3, FS_CardinalityType
  <2>5. QED
    BY <1>0, <2>3, <2>4
<1>2. ASSUME NEW x \in S, NEW y \in S, <<x, y>> \in R PROVE rank[x] < rank[y]
  <2>1. x \notin Predecessors(S, R, x) /\ Predecessors(S, R, x) \cup {x} \in SUBSET Predecessors(S, R, y)
    BY <1>2 DEF Predecessors, Strict, Ordered
  <2>2. Cardinality(Predecessors(S, R, x) \cup {x}) = rank[x] + 1
    BY <1>1, <2>1, FS_AddElement
  <2>3. rank[x] + 1 <= rank[y]
    BY <1>1, <2>1, <2>2, FS_Subset
  <2>4. QED
    BY <1>1, <2>3
<1>3. \A x, y \in S : rank[x] = rank[y] => x = y
  <2> SUFFICES ASSUME NEW x \in S, NEW y \in S, rank[x] = rank[y], x # y PROVE FALSE
    OBVIOUS
  <2>1. <<x, y>> \in R \/ <<y, x>> \in R
    BY DEF Strict, Ordered
  <2>2. rank[x] < rank[y] \/ rank[y] < rank[x]
    BY <1>2, <2>1
  <2>3. QED
    BY <1>1, <2>2
<1> HIDE DEF rank
<1>4. T \in SUBSET S /\ U \in SUBSET S /\ IsFiniteSet(T) /\ IsFiniteSet(U)
  <2>1. T \in SUBSET S /\ U \in SUBSET S
    OBVIOUS
  <2>2. QED
    BY <2>1, FS_Subset
<1>5. Cardinality(T) <= k
  <2> DEFINE f == [x \in T |-> rank[x]]
  <2>1. \A x \in T : rank[x] \in 0..(k - 1)
    BY <1>1
  <2>2. f \in Injection(T, 0..(k - 1))
    BY <1>3, <2>1 DEF Injection, IsInjective
  <2>3. IsFiniteSet(0..(k - 1)) /\ Cardinality(0..(k - 1)) = k
    BY FS_Interval
  <2> HIDE DEF f
  <2>4. QED
    BY <2>2, <2>3, FS_Injection
<1>6. k < n => Cardinality(U) <= n - k
  <2> SUFFICES ASSUME k < n PROVE Cardinality(U) <= n - k
    OBVIOUS
  <2> DEFINE f == [x \in U |-> rank[x]]
  <2>1. \A x \in U : rank[x] \in k..(n - 1)
    BY <1>0, <1>1
  <2>2. f \in Injection(U, k..(n - 1))
    BY <1>3, <2>1 DEF Injection, IsInjective
  <2> HIDE DEF n
  <2>3. n - 1 \in Int /\ k \in Int /\ n - 1 >= k /\ (n - 1) - k + 1 = n - k
    BY <1>0
  <2>4. IsFiniteSet(k..(n - 1)) /\ Cardinality(k..(n - 1)) = n - k
    BY <2>3, FS_Interval
  <2> HIDE DEF f
  <2>5. QED
    BY <2>2, <2>4, FS_Injection
<1>7. Cardinality(U) = n - Cardinality(T) /\ Cardinality(T) \in Nat /\ Cardinality(U) \in Nat
  <2>1. Cardinality(T) \in Nat /\ Cardinality(U) \in Nat
    BY <1>4, FS_CardinalityType
  <2>2. S \cap T = T /\ U = S \ T
    BY <1>4
  <2>3. Cardinality(S \ T) = Cardinality(S) - Cardinality(S \cap T)
    BY FS_Difference
  <2>4. QED
    BY <2>1, <2>2, <2>3
<1>8. CASE k < n
  <2>1. Cardinality(T) = k
    BY <1>0, <1>5, <1>6, <1>7, <1>8
  <2>2. QED
    BY <1>8, <2>1 DEF rank, Predecessors
<1>9. CASE ~(k < n)
  <2>1. T = S
    BY <1>0, <1>1, <1>9
  <2>2. QED
    BY <1>9, <2>1 DEF rank, Predecessors
<1>10. QED
  BY <1>8, <1>9

\* The mask of the best cells has so many cells, or all there are.
LEMMA TopMaskSize ==
    ASSUME NEW allowed \in SUBSET Nat, IsFiniteSet(allowed), NEW value,
           \A c \in allowed : value[c] \in Int, NEW count \in Nat
    PROVE  Cardinality(TopMask(value, allowed, count))
                = IF count < Cardinality(allowed) THEN count ELSE Cardinality(allowed)
<1> DEFINE Before1(c, d) == value[c] > value[d] \/ (value[c] = value[d] /\ c < d)
           R == {p \in allowed \X allowed : Before1(p[1], p[2])}
<1>1. \A x, y \in allowed : <<x, y>> \in R <=> Before1(x, y)
  <2> SUFFICES ASSUME NEW x \in allowed, NEW y \in allowed
               PROVE  <<x, y>> \in R <=> Before1(x, y)
    OBVIOUS
  <2>1. <<x, y>> \in allowed \X allowed /\ <<x, y>>[1] = x /\ <<x, y>>[2] = y
    OBVIOUS
  <2> HIDE DEF Before1
  <2>2. QED
    BY <2>1
<1> HIDE DEF R
<1>2. \A c \in allowed : c \in Nat
  OBVIOUS
<1>3. Strict(allowed, R)
  <2>1. \A x, y \in allowed : x = y \/ Before1(x, y) \/ Before1(y, x)
    BY <1>2
  <2>2. \A x, y, z \in allowed : Before1(x, y) /\ Before1(y, z) => Before1(x, z)
    BY <1>2
  <2>3. \A x \in allowed : ~Before1(x, x)
    BY <1>2
  <2> HIDE DEF Before1
  <2>4. QED
    BY <1>1, <2>1, <2>2, <2>3 DEF Strict, Ordered
<1>4. TopMask(value, allowed, count)
        = {c \in allowed : Cardinality({d \in allowed : <<d, c>> \in R}) < count}
  <2>1. \A c \in allowed : {d \in allowed : <<d, c>> \in R} = {d \in allowed : Before1(d, c)}
    <3> HIDE DEF Before1
    <3>1. QED
      BY <1>1
  <2>2. QED
    BY <2>1 DEF TopMask
<1>5. QED
  BY <1>3, <1>4, RankSize

\* The first so many of a sequence are no more, and of the same kind.
LEMMA FirstOfFacts ==
    ASSUME NEW S, NEW order \in Seq(S), NEW count \in Nat
    PROVE  /\ FirstOf(order, count) \in SUBSET S
           /\ IsFiniteSet(FirstOf(order, count)) /\ Cardinality(FirstOf(order, count)) <= count
<1> DEFINE n == IF count < Len(order) THEN count ELSE Len(order)
           f == [i \in 1..n |-> order[i]]
           first == FirstOf(order, count)
<1>1. n \in Nat /\ n <= Len(order) /\ n <= count
  OBVIOUS
<1>2. first = {order[i] : i \in 1..n}
  <2>1. SubSeq(order, 1, n) = [i \in 1..n |-> order[i]]
    BY <1>1
  <2>2. ToSet(SubSeq(order, 1, n)) = {order[i] : i \in 1..n}
    BY <2>1 DEF ToSet
  <2>3. QED
    BY <2>2 DEF FirstOf
<1>3. f \in Surjection(1..n, first)
  BY <1>2 DEF Surjection
<1>4. IsFiniteSet(1..n) /\ Cardinality(1..n) = n
  <2> HIDE DEF n
  <2>1. n \in Int /\ 1 \in Int /\ (n >= 1 => n - 1 + 1 = n) /\ (~(n >= 1) => n = 0)
    BY <1>1
  <2>2. QED
    BY <2>1, FS_Interval
<1>5. IsFiniteSet(first) /\ Cardinality(first) <= n
  <2> HIDE DEF f, first, n
  <2>1. QED
    BY <1>3, <1>4, FS_Surjection
<1>6. first \in SUBSET S
  <2>1. \A i \in 1..n : order[i] \in S
    BY <1>1
  <2>2. QED
    BY <1>2, <2>1
<1>7. Cardinality(first) \in Nat
  BY <1>5, FS_CardinalityType
<1>8. QED
  <2> HIDE DEF n, first
  <2>1. QED
    BY <1>1, <1>5, <1>6, <1>7 DEF first

\* What a probe may find.
Found == Int \cup {NaN}

ControllerTyped ==
    /\ policy \in [cells : Nat, target : Nat, accept : Nat, floor : Nat, patience : Nat \ {0}]
    /\ cap \in Nat
    /\ points \in Seq(Found)
    /\ best \in Nat /\ bestScore \in Int /\ stagnant \in Nat
    /\ stop \in StopReasons \cup {"running"}

\* bestScore is the least of StaleScore and the points, best where it is
\* first met.
BestIsBest ==
    /\ best \in 0..Len(points)
    /\ bestScore <= StaleScore
    /\ best = 0 => bestScore = StaleScore
    /\ best > 0 => points[best] = bestScore /\ bestScore < StaleScore
    /\ \A i \in DOMAIN points : points[i] # NaN => bestScore <= points[i]
    /\ \A i \in DOMAIN points : points[i] # NaN /\ i < best => bestScore < points[i]

\* Every step after the best one stagnated, and none follows too many.
StagnantSinceBest ==
    /\ Len(points) - best <= stagnant
    /\ stop = "running" => stagnant < policy.patience
    /\ stagnant <= policy.patience

ControllerInv == ControllerTyped /\ BestIsBest /\ StagnantSinceBest

\* A point that is a number is an integer.
LEMMA PointsAreIntegers ==
    ASSUME ControllerTyped
    PROVE  \A i \in DOMAIN points : points[i] # NaN => points[i] \in Int
<1> SUFFICES ASSUME NEW i \in DOMAIN points, points[i] # NaN PROVE points[i] \in Int
  OBVIOUS
<1>1. points[i] \in Found
  BY DEF ControllerTyped
<1> QED BY <1>1, ScoresAssumption DEF Found

\* The controller starts in the invariant: nothing tried, nothing stagnant.
LEMMA ControllerStarts == ControllerInit => ControllerInv
<1> USE ScoresAssumption, PoliciesAssumption
<1> SUFFICES ASSUME NEW p \in Policies, NEW n \in Nat, IsStart(ControllerStart(p, n))
             PROVE  ControllerInv
  BY DEF ControllerInit
<1>1. /\ policy = p /\ cap = BudgetCap(p, n) /\ points = <<>> /\ best = 0
      /\ bestScore = StaleScore /\ stagnant = 0
      /\ stop \in {"continuous_zero_budget", "running"}
  BY DEF IsStart, ControllerStart
<1>2. ControllerTyped
  BY <1>1 DEF ControllerTyped, BudgetCap, StopReasons
<1>3. BestIsBest
  BY <1>1 DEF BestIsBest
<1>4. StagnantSinceBest
  BY <1>1, <1>2 DEF StagnantSinceBest, ControllerTyped
<1> QED BY <1>2, <1>3, <1>4 DEF ControllerInv

\* A probe keeps the invariant, whatever it finds.
LEMMA ProbeKeeps ==
    ASSUME ControllerInv, NEW score \in Found, Probe(score)
    PROVE  ControllerInv'
<1> USE ScoresAssumption DEF Found
<1> DEFINE n == Len(points) + 1
<1>1. ControllerTyped /\ n \in Nat /\ n >= 1
  BY DEF ControllerInv, ControllerTyped
<1>2. /\ points' \in Seq(Found) /\ Len(points') = n /\ DOMAIN points' = 1..n
      /\ points'[n] = score
      /\ \A i \in DOMAIN points : i \in 1..(n - 1) /\ points'[i] = points[i]
      /\ DOMAIN points = 1..(n - 1)
  BY <1>1 DEF ControllerTyped, Probe
<1>3. ControllerTyped'
  BY <1>1, <1>2 DEF ControllerTyped, Probe, Improves, StopReasons
<1>4. BestIsBest'
  <2>1. CASE Improves(score)
    <3>1. best' = n /\ bestScore' = score /\ score < bestScore /\ score # NaN
      BY <2>1 DEF Probe, Improves
    <3>2. score \in Int
      BY <3>1
    <3>3. \A i \in 1..(n - 1) : points'[i] # NaN => score < points'[i]
      <4> SUFFICES ASSUME NEW i \in 1..(n - 1), points[i] # NaN PROVE score < points[i]
        BY <1>2
      <4>1. points[i] \in Int /\ bestScore <= points[i]
        BY <1>1, <1>2, PointsAreIntegers DEF ControllerInv, BestIsBest
      <4> QED BY <4>1, <3>1, <3>2, <1>1 DEF ControllerTyped
    <3>4. bestScore' <= StaleScore /\ bestScore' < StaleScore
      BY <3>1, <3>2, <1>1 DEF ControllerInv, BestIsBest, ControllerTyped
    <3>5. \A i \in 1..n : points'[i] # NaN => score <= points'[i]
      BY <3>2, <3>3, <1>1, <1>2, PointsAreIntegers
    <3> QED BY <1>1, <1>2, <3>1, <3>3, <3>4, <3>5 DEF BestIsBest
  <2>2. CASE ~Improves(score)
    <3>1. best' = best /\ bestScore' = bestScore
      BY <2>2 DEF Probe
    <3>2. score # NaN => bestScore <= score
      BY <2>2, <1>1 DEF Improves, ControllerTyped
    <3>3. \A i \in 1..n : points'[i] # NaN =>
                bestScore <= points'[i] /\ (i < best => bestScore < points'[i])
      <4> SUFFICES ASSUME NEW i \in 1..n, points'[i] # NaN
                   PROVE  bestScore <= points'[i] /\ (i < best => bestScore < points'[i])
        OBVIOUS
      <4>1. CASE i = n
        BY <4>1, <3>2, <1>1, <1>2 DEF ControllerInv, BestIsBest
      <4>2. CASE i # n
        BY <4>2, <1>1, <1>2 DEF ControllerInv, BestIsBest
      <4> QED BY <4>1, <4>2
    <3>4. best > 0 => points'[best] = bestScore /\ bestScore < StaleScore
      BY <1>1, <1>2 DEF ControllerInv, BestIsBest
    <3> QED BY <1>1, <1>2, <3>1, <3>3, <3>4 DEF ControllerInv, BestIsBest
  <2> QED BY <2>1, <2>2
<1>5. StagnantSinceBest'
  <2>0. /\ Len(points) - best <= stagnant /\ stagnant < policy.patience
        /\ best \in 0..Len(points) /\ policy' = policy
    BY DEF ControllerInv, StagnantSinceBest, BestIsBest, Probe
  <2>1. stop' = "running" => stagnant' < policy'.patience
    BY <1>1, <1>3, <2>0 DEF Probe, ControllerTyped
  <2>2. stagnant' <= policy'.patience
    BY <1>1, <2>0 DEF Probe, ControllerTyped
  <2>3. Len(points') - best' <= stagnant'
    <3>1. CASE Improves(score)
      BY <3>1, <1>1, <1>2, <1>3 DEF Probe, ControllerTyped
    <3>2. CASE ~Improves(score)
      <4>1. Stagnates(score)
        BY <3>2, <1>1 DEF Stagnates, ControllerTyped
      <4>2. stagnant' = stagnant + 1 /\ best' = best
        BY <3>2, <4>1 DEF Probe
      <4> QED BY <4>2, <2>0, <1>1, <1>2 DEF ControllerTyped
    <3> QED BY <3>1, <3>2
  <2> QED BY <2>1, <2>2, <2>3 DEF StagnantSinceBest
<1> QED BY <1>3, <1>4, <1>5 DEF ControllerInv

\* A step that changes nothing keeps the invariant.
LEMMA ControllerRests == ControllerInv /\ UNCHANGED controllerVars => ControllerInv'
  BY DEF ControllerInv, ControllerTyped, BestIsBest, StagnantSinceBest, controllerVars

\* The invariant holds in every reachable state of the controller.
THEOREM Inductive == ControllerSpec => []ControllerInv
<1>1. ControllerInv /\ [ControllerNext]_controllerVars => ControllerInv'
  <2>1. ASSUME NEW score \in Scores \cup {NaN} PROVE score \in Found
    BY ScoresAssumption DEF Found
  <2>2. QED
    BY <2>1, ProbeKeeps, ControllerRests DEF ControllerNext
<1> QED BY ControllerStarts, <1>1, PTL DEF ControllerSpec

\* What the controller commits is the best acceptable repair it has tried.
LEMMA InvCommits == ControllerInv => CommitsTheBest
<1> SUFFICES ASSUME ControllerInv PROVE CommitsTheBest
  OBVIOUS
<1> USE ScoresAssumption
<1>1. ControllerTyped /\ BestIsBest
  BY DEF ControllerInv
<1>2. Selected \in {0, best} /\ (Selected = best \/ StaleScore - bestScore < policy.accept)
  BY DEF Selected
<1>3. \A i \in DOMAIN points : points[i] # NaN => points[i] \in Int
  BY <1>1, PointsAreIntegers
<1>4. Selected \in 0..Len(points)
  BY <1>1, <1>2 DEF ControllerTyped, BestIsBest
<1>5. Selected = 0 => \A i \in DOMAIN points : ~Acceptable(points[i])
  BY <1>1, <1>2, <1>3 DEF ControllerTyped, BestIsBest, Acceptable
<1>6. ASSUME Selected > 0
      PROVE  /\ Acceptable(points[Selected])
             /\ \A i \in DOMAIN points : points[i] # NaN =>
                  /\ points[Selected] <= points[i]
                  /\ i < Selected => points[Selected] < points[i]
  <2>1. Selected = best /\ best > 0 /\ StaleScore - bestScore >= policy.accept
    BY <1>6, <1>1 DEF Selected, ControllerTyped
  <2>2. points[best] = bestScore /\ bestScore < StaleScore /\ bestScore # NaN
    BY <2>1, <1>1 DEF BestIsBest, ControllerTyped
  <2> QED BY <2>1, <2>2, <1>1, <1>3 DEF Acceptable, BestIsBest, ControllerTyped
<1> QED BY <1>4, <1>5, <1>6 DEF CommitsTheBest

\* It has not gone far beyond.
LEMMA InvRollback == ControllerInv => RollbackBounded
BY DEF ControllerInv, RollbackBounded, StagnantSinceBest, ControllerTyped, Selected, BestIsBest

\* What the controller commits is the best acceptable repair it has tried,
\* whatever the probes find.
THEOREM BestIsCommitted == ControllerSpec => []CommitsTheBest
BY InvCommits, Inductive, PTL

\* It never tries more repairs beyond the committed one than it is patient.
THEOREM RollbackIsBounded == ControllerSpec => []RollbackBounded
BY InvRollback, Inductive, PTL

-----------------------------------------------------------------------------
(* A condition, and the controller as a part of it.                        *)

\* The configuration and what is measured are of one of the conditions.
Setting ==
    \E i \in DOMAIN Conditions :
        options \in Conditions[i].options /\ measured \in Conditions[i].measured

\* Every value that a probe of a mask finds is a number or none.
LEMMA SettingFacts ==
    ASSUME Setting
    PROVE  /\ options.policy \in Policies
           /\ options.horizons \subseteq DOMAIN measured.nll
           /\ \A h \in DOMAIN measured.nll :
                Landscape(measured.nll[h]) /\ Landscape(measured.anchor[h])
           /\ \E n \in Nat \ {0} : DOMAIN measured.nll = 1..n
           /\ Landscape(measured.confidence)
           /\ measured.baseline = NaN \/ measured.baseline \in Int
           /\ \A s \in DOMAIN measured.sparse : \A c \in Direct : measured.sparse[s][c] \in Int
<1>1. PICK i \in DOMAIN Conditions :
        options \in Conditions[i].options /\ measured \in Conditions[i].measured
  BY DEF Setting
<1>2. options.policy \in Policies
  BY <1>1, OptionsAssumption
<1>3. /\ measured.nll # <<>> /\ measured.nll \in Seq(ToSet(measured.nll))
      /\ \A h \in DOMAIN measured.nll :
            Landscape(measured.nll[h]) /\ Landscape(measured.anchor[h])
      /\ Landscape(measured.confidence)
      /\ measured.baseline = NaN \/ measured.baseline \in Int
      /\ options.horizons \subseteq DOMAIN measured.nll
      /\ \A s \in DOMAIN measured.sparse : \A c \in Direct : measured.sparse[s][c] \in Int
  BY <1>1, MeasuredAssumption
<1>4. Len(measured.nll) \in Nat \ {0} /\ DOMAIN measured.nll = 1..Len(measured.nll)
  BY <1>3
<1>5. QED
  BY <1>2, <1>3, <1>4

\* A mask of the best cells is of the cells to choose from.
LEMMA TopMaskInside == \A value, allowed, count : TopMask(value, allowed, count) \subseteq allowed
BY DEF TopMask

\* The consensus of the horizons is a number, or none where one of them has none.
LEMMA ConsensusFound ==
    ASSUME Setting, NEW mask \in SUBSET Direct
    PROVE  Consensus(mask) \in Found
<1> DEFINE Scaled(h) ==
            LET stale == StaleProbe(h, mask)
                size == IF stale < 0 THEN -stale ELSE stale
                scale == IF size > 1 THEN size ELSE 1
            IN  Unit + ((measured.nll[h][mask] - stale) * Unit) \div scale
           none == \/ options.horizons = {}
                   \/ \E h \in options.horizons :
                        measured.nll[h][mask] = NaN \/ StaleProbe(h, mask) = NaN
           values == {Scaled(h) : h \in options.horizons}
<1>1. Consensus(mask) = IF none THEN NaN ELSE Max(values)
  BY DEF Consensus
<1>2. \A h \in options.horizons :
        /\ measured.nll[h][mask] = NaN \/ measured.nll[h][mask] \in Int
        /\ StaleProbe(h, mask) = NaN \/ StaleProbe(h, mask) \in Int
  BY SettingFacts DEF StaleProbe, Landscape
<1>3. ASSUME ~none, NEW h \in options.horizons PROVE Scaled(h) \in Int
  <2>1. StaleProbe(h, mask) \in Int /\ measured.nll[h][mask] \in Int /\ Unit \in Int
    BY <1>2, <1>3, ScoresAssumption, ConditionAssumption
  <2> DEFINE stale == StaleProbe(h, mask)
             size == IF stale < 0 THEN -stale ELSE stale
             scale == IF size > 1 THEN size ELSE 1
             top == (measured.nll[h][mask] - stale) * Unit
  <2>2. scale \in Int /\ scale > 0
    BY <2>1
  <2>3. top \in Int
    BY <2>1
  <2> HIDE DEF stale, size, scale, top
  <2>4. top \div scale \in Int
    BY <2>2, <2>3
  <2>5. Unit + top \div scale \in Int
    BY <2>1, <2>4
  <2>6. QED
    BY <2>5 DEF stale, size, scale, top
<1>4. ASSUME ~none PROVE Max(values) \in Int
  <2> DEFINE f == [h \in options.horizons |-> Scaled(h)]
  <2>1. values \in SUBSET Int
    BY <1>3, <1>4
  <2>2. IsFiniteSet(options.horizons)
    <3>1. PICK n \in Nat : DOMAIN measured.nll = 1..n
      BY SettingFacts
    <3>2. options.horizons \in SUBSET (1..n) /\ IsFiniteSet(1..n)
      BY <3>1, SettingFacts, FS_Interval
    <3>3. QED
      BY <3>2, FS_Subset
  <2>3. f \in Surjection(options.horizons, values)
    BY DEF Surjection
  <2>4. IsFiniteSet(values)
    <3> HIDE DEF f, values
    <3>1. QED
      BY <2>2, <2>3, FS_Surjection
  <2>5. values # {}
    BY <1>4
  <2> HIDE DEF values
  <2>6. QED
    BY <2>1, <2>4, <2>5, MaxInSet
<1> HIDE DEF none, values
<1>5. QED
  BY <1>1, <1>4 DEF Found

-----------------------------------------------------------------------------
(* Gates.                                                                  *)

\* The cells are finitely many numbers.
LEMMA CellsFinite ==
    /\ IsFiniteSet(Eligible) /\ Eligible \in SUBSET Nat
    /\ IsFiniteSet(Direct) /\ Direct \in SUBSET Nat /\ {} \in SUBSET Direct
<1>1. Layers * Blocks - 1 \in Int
  BY ConditionAssumption
<1>2. IsFiniteSet(Cells) /\ Cells \in SUBSET Nat
  BY <1>1, FS_Interval DEF Cells
<1>3. Eligible \in SUBSET Cells /\ Direct \in SUBSET Eligible
  BY ConditionAssumption DEF Eligible
<1>4. IsFiniteSet(Eligible)
  BY <1>2, <1>3, FS_Subset
<1>5. IsFiniteSet(Direct)
  BY <1>3, <1>4, FS_Subset
<1>6. QED
  BY <1>2, <1>3, <1>4, <1>5

\* A mask of one cell or more is not empty where there is a cell.
LEMMA TopMaskNotEmpty ==
    ASSUME NEW allowed \in SUBSET Nat, IsFiniteSet(allowed), allowed # {},
           NEW value, \A c \in allowed : value[c] \in Int, NEW count \in Nat \ {0}
    PROVE  TopMask(value, allowed, count) # {}
<1> DEFINE f == [c \in allowed |-> -value[c]]
<1>1. \A c \in allowed : f[c] \in Int
  OBVIOUS
<1>2. PICK c \in allowed : \A d \in allowed : f[c] < f[d] \/ (f[c] = f[d] /\ c <= d)
  <2> HIDE DEF f
  <2>1. QED
    BY <1>1, FirstLeast
<1>3. {d \in allowed : value[d] > value[c] \/ (value[d] = value[c] /\ d < c)} = {}
  <2> SUFFICES ASSUME NEW d \in allowed, value[d] > value[c] \/ (value[d] = value[c] /\ d < c)
               PROVE  FALSE
    OBVIOUS
  <2>1. c \in Nat /\ d \in Nat /\ value[c] \in Int /\ value[d] \in Int
    OBVIOUS
  <2>2. QED
    BY <1>2, <2>1
<1>4. Cardinality({}) < count
  BY FS_EmptySet
<1>5. c \in TopMask(value, allowed, count)
  BY <1>3, <1>4 DEF TopMask
<1>6. QED
  BY <1>5

\* What a gate lets through.
LEMMA GateMaskFacts ==
    ASSUME NEW score, Landscape(score), NEW mask \in SUBSET Direct, NEW margin \in Nat
    PROVE  LET kept == GateMask(score, mask, margin)
               chosen == IF kept = {} THEN score[{}] ELSE score[kept]
           IN  /\ kept \in SUBSET Direct
               /\ kept # {} => score[{}] # NaN /\ Less(chosen, score[{}] - margin)
               /\ chosen # NaN => ~Less(score[mask], chosen - margin)
<1>1. /\ score[{}] = NaN \/ score[{}] \in Int
      /\ score[mask] = NaN \/ score[mask] \in Int
      /\ NaN \notin Int
  BY ScoresAssumption DEF Landscape
<1>2. CASE score[{}] # NaN /\ Less(score[mask], score[{}] - margin)
  <2>1. GateMask(score, mask, margin) = mask
    BY <1>2 DEF GateMask
  <2>2. mask # {}
    BY <1>1, <1>2 DEF Less
  <2>3. ~Less(score[mask], score[mask] - margin) \/ score[mask] = NaN
    BY <1>1 DEF Less
  <2>4. QED
    BY <1>2, <2>1, <2>2, <2>3
<1>3. CASE ~(score[{}] # NaN /\ Less(score[mask], score[{}] - margin))
  <2>1. GateMask(score, mask, margin) = {}
    BY <1>3 DEF GateMask
  <2>2. QED
    BY <1>3, <2>1
<1>4. QED
  BY <1>2, <1>3

\* One candidate after the other: where the pool stands after some of them.
Stands(score, masks, against, margin, x, i) ==
    /\ \/ x.mask = {} /\ x.score = against
       \/ /\ x.mask # {} /\ x.score = score[x.mask]
          /\ against # NaN /\ Less(x.score, against - margin)
    /\ x.score # NaN => \A j \in 1..i : ~Less(score[masks[j]], x.score - margin)

\* A mask that beats what it is held against, and is beaten by no candidate,
\* by the margin.
Served(score, masks, mask, against, margin) ==
    LET chosen == IF mask = {} THEN against ELSE score[mask]
    IN  /\ mask # {} => against # NaN /\ Less(chosen, against - margin)
        /\ chosen # NaN => \A i \in 1..Len(masks) : ~Less(score[masks[i]], chosen - margin)

\* What a pool holds as it goes through its candidates.
PoolSteps(select, score, masks, against, margin) ==
    /\ select[0] = [mask |-> {}, score |-> against]
    /\ \A i \in 1..Len(masks) :
        select[i] = IF /\ select[i - 1].score # NaN
                       /\ Less(score[masks[i]], select[i - 1].score - margin)
                    THEN [mask |-> masks[i], score |-> score[masks[i]]] ELSE select[i - 1]

\* The gate that tries a list of candidates goes from one to the next.
LEMMA PoolMaskSteps ==
    ASSUME NEW score, Landscape(score), NEW masks \in Seq(SUBSET Direct), NEW margin,
           NEW against, against = NaN \/ against \in Int
    PROVE  \E select \in [0..Len(masks) -> [mask : SUBSET Direct, score : Found]] :
            /\ PoolSteps(select, score, masks, against, margin)
            /\ PoolMask(score, masks, against, margin) = select[Len(masks)].mask
<1> DEFINE n == Len(masks)
           start == [mask |-> {}, score |-> against]
           Better(i, was) == was.score # NaN /\ Less(score[masks[i]], was.score - margin)
           Body(i, was) ==
                IF Better(i, was) THEN [mask |-> masks[i], score |-> score[masks[i]]] ELSE was
           V == [mask : SUBSET Direct, score : Found]
           step == [i \in 1..n |-> [x \in V |-> Body(i, x)]]
           Table(g) == [i \in 0..n |-> IF i = 0 THEN start ELSE Body(i, g[i - 1])]
           select == CHOOSE g : g = Table(g)
<1>1. n \in Nat /\ \A i \in 1..n : masks[i] \in SUBSET Direct
  OBVIOUS
<1>2. start \in V
  BY DEF Found
<1>3. \A i \in 1..n : \A x \in V : Body(i, x) \in V
  BY <1>1 DEF Landscape, Found
<1>4. \A i \in 1..n : \A x \in V : step[i][x] = Body(i, x)
  OBVIOUS
<1> HIDE DEF n, V, start, Body, step
<1>5. PICK g \in [0..n -> V] : g[0] = start /\ \A i \in 1..n : g[i] = step[i][g[i - 1]]
  <2>1. Iterable(n, V, start, step)
    BY <1>1, <1>2, <1>3, <1>4, Iterates
  <2>2. QED
    BY <2>1 DEF Iterable
<1>6. g = Table(g)
  <2>1. \A i \in 1..n : g[i - 1] \in V /\ g[i] = Body(i, g[i - 1])
    BY <1>1, <1>4, <1>5
  <2>2. QED
    BY <1>1, <1>5, <2>1
<1>7. select = Table(select)
  <2> HIDE DEF Table
  <2>1. QED
    BY <1>6
<1>8. PoolMask(score, masks, against, margin) = select[n].mask
  BY DEF PoolMask, n, start, Body
<1> HIDE DEF select
<1>9. select[0] = start /\ \A i \in 1..n : select[i] = Body(i, select[i - 1])
  <2>1. 0 \in 0..n /\ \A i \in 1..n : i \in 0..n /\ i # 0
    BY <1>1
  <2>2. QED
    BY <1>7, <2>1
<1> DEFINE S == {i \in 0..n : select[i] \in V}
<1>10. \A i \in 0..n : i \in S
  <2>1. 0 \in S
    BY <1>1, <1>2, <1>9
  <2>2. ASSUME NEW i \in 0..(n - 1), i \in S PROVE i + 1 \in S
    <3>1. i + 1 \in 1..n /\ (i + 1) - 1 = i /\ i + 1 \in 0..n
      BY <1>1
    <3>2. select[i + 1] = Body(i + 1, select[i])
      BY <1>9, <3>1
    <3>3. QED
      BY <1>3, <2>2, <3>1, <3>2
  <2> HIDE DEF S
  <2>3. QED
    BY <1>1, <2>1, <2>2, UpTo
<1>11. select \in [0..n -> V]
  <2>1. select = [i \in 0..n |-> select[i]]
    BY <1>7, Zenon
  <2>2. QED
    BY <1>10, <2>1
<1>12. PoolSteps(select, score, masks, against, margin)
  BY <1>9 DEF PoolSteps, n, start, Body
<1>13. QED
  BY <1>8, <1>11, <1>12 DEF n, V

\* What the gate that tries a list of candidates lets through.
LEMMA PoolMaskFacts ==
    ASSUME NEW score, Landscape(score), NEW masks \in Seq(SUBSET Direct), NEW margin \in Nat,
           NEW against, against = NaN \/ against \in Int,
           against = score[{}] \/ \A i \in 1..Len(masks) : masks[i] # {}
    PROVE  /\ PoolMask(score, masks, against, margin) \in SUBSET Direct
           /\ Served(score, masks, PoolMask(score, masks, against, margin), against, margin)
<1> DEFINE n == Len(masks)
           start == [mask |-> {}, score |-> against]
           Better(i, was) == was.score # NaN /\ Less(score[masks[i]], was.score - margin)
           Body(i, was) ==
                IF Better(i, was) THEN [mask |-> masks[i], score |-> score[masks[i]]] ELSE was
           V == [mask : SUBSET Direct, score : Found]
<1>0. n \in Nat /\ \A i \in 1..n : masks[i] \in SUBSET Direct
  OBVIOUS
<1>2. PICK select \in [0..n -> V] :
        /\ PoolSteps(select, score, masks, against, margin)
        /\ PoolMask(score, masks, against, margin) = select[n].mask
  BY PoolMaskSteps
<1>1. /\ select[0] = start /\ select \in [0..n -> V]
      /\ \A i \in 1..n : select[i] = Body(i, select[i - 1])
  BY <1>2 DEF PoolSteps
<1> DEFINE S == {i \in 0..n : select[i] \in V /\ Stands(score, masks, against, margin, select[i], i)}
<1>8. 0 \in S
  <2>1. 0 \in 0..n /\ select[0] \in V
    BY <1>0, <1>1
  <2>2. Stands(score, masks, against, margin, select[0], 0)
    BY <1>1 DEF Stands
  <2> HIDE DEF V
  <2>3. QED
    BY <2>1, <2>2
<1>9. ASSUME NEW i \in 0..(n - 1), i \in S PROVE i + 1 \in S
  <2> DEFINE x == select[i]
             m == masks[i + 1]
  <2>1. x \in V /\ Stands(score, masks, against, margin, x, i)
    BY <1>9
  <2>2. select[i + 1] = Body(i + 1, x) /\ i + 1 \in 1..n
    BY <1>0, <1>1
  <2>3. m \in SUBSET Direct /\ (score[m] = NaN \/ score[m] \in Int) /\ NaN \notin Int
    BY <1>0, <2>2, ScoresAssumption DEF Landscape
  <2>4. x.score = NaN \/ x.score \in Int
    BY <2>1 DEF Found
  <2>5. \A j \in 1..i : score[masks[j]] = NaN \/ score[masks[j]] \in Int
    BY <1>0, <2>2 DEF Landscape
  <2>6. CASE Better(i + 1, x)
    <3>1. select[i + 1] = [mask |-> m, score |-> score[m]]
      BY <2>2, <2>6
    <3>2. score[m] \in Int /\ x.score \in Int /\ score[m] < x.score - margin
      BY <2>3, <2>4, <2>6 DEF Less
    <3>3. x.score <= against /\ against \in Int
      BY <2>1, <3>2 DEF Stands, Less
    <3>4. m # {}
      <4>1. CASE against = score[{}]
        <5>1. score[m] < score[{}]
          BY <3>2, <3>3, <4>1
        <5>2. score[m] # score[{}]
          BY <3>2, <3>3, <4>1, <5>1
        <5>3. QED
          BY <5>2
      <4>2. CASE \A k \in 1..Len(masks) : masks[k] # {}
        BY <2>2, <4>2
      <4>3. QED
        BY <4>1, <4>2
    <3>5. Less(score[m], against - margin) /\ against # NaN
      <4> HIDE DEF m, x
      <4>1. QED
        BY <2>3, <3>2, <3>3 DEF Less
    <3>6. \A j \in 1..(i + 1) : ~Less(score[masks[j]], score[m] - margin)
      <4>1. ~Less(score[m], score[m] - margin)
        <5> HIDE DEF m
        <5>1. QED
          BY <3>2 DEF Less
      <4>2. \A j \in 1..i : ~Less(score[masks[j]], score[m] - margin)
        <5> SUFFICES ASSUME NEW j \in 1..i, Less(score[masks[j]], score[m] - margin)
                     PROVE  FALSE
          OBVIOUS
        <5>1. score[masks[j]] \in Int /\ score[masks[j]] < score[m] - margin
          BY <2>5 DEF Less
        <5>2. ~Less(score[masks[j]], x.score - margin)
          BY <2>1, <2>3, <3>2 DEF Stands
        <5>3. x.score - margin \in Int /\ score[masks[j]] < x.score - margin
          <6> DEFINE other == score[masks[j]]
          <6>1. other \in Int /\ other < score[m] - margin
            BY <5>1
          <6> HIDE DEF m, x, other
          <6>2. x.score - margin \in Int /\ other < x.score - margin
            BY <3>2, <6>1
          <6>3. QED
            BY <6>2 DEF other
        <5>4. QED
          BY <2>3, <5>1, <5>2, <5>3 DEF Less
      <4>3. QED
        BY <4>1, <4>2
    <3>7. select[i + 1] \in V /\ i + 1 \in 0..n
      <4> HIDE DEF x, V, Body
      <4>1. QED
        BY <1>0, <1>1, <2>2
    <3>8. Stands(score, masks, against, margin, select[i + 1], i + 1)
      <4> DEFINE y == select[i + 1]
      <4>1. y.mask = m /\ y.score = score[m]
        BY <3>1
      <4> HIDE DEF y, m, x
      <4>2. Stands(score, masks, against, margin, y, i + 1)
        BY <3>4, <3>5, <3>6, <4>1 DEF Stands
      <4>3. QED
        BY <4>2 DEF y
    <3> HIDE DEF V, n
    <3>9. QED
      BY <3>7, <3>8
  <2>7. CASE ~Better(i + 1, x)
    <3>1. select[i + 1] = x
      BY <2>2, <2>7
    <3>2. x.score # NaN => ~Less(score[m], x.score - margin)
      BY <2>7
    <3>3. x.score # NaN => \A j \in 1..(i + 1) : ~Less(score[masks[j]], x.score - margin)
      BY <2>1, <3>2 DEF Stands
    <3>4. QED
      BY <2>1, <2>2, <3>1, <3>3 DEF Stands
  <2>8. QED
    BY <2>6, <2>7
<1> HIDE DEF S
<1>10. n \in S
  <2>1. \A i \in 0..n : i \in S
    BY <1>0, <1>8, <1>9, UpTo
  <2>2. QED
    BY <1>0, <2>1
<1>11. QED
  BY <1>2, <1>10 DEF S, Stands, Served

\* How many cells can be repaired directly is a number.
LEMMA DirectSize ==
    /\ Cardinality(Direct) \in Nat
    /\ Direct # {} => Cardinality(Direct) > 0
<1>1. Cardinality(Direct) \in Nat
  BY CellsFinite, FS_CardinalityType
<1>2. Cardinality(Direct) = 0 => Direct = {}
  BY CellsFinite, FS_EmptySet
<1>3. QED
  BY <1>1, <1>2

\* The candidate of a ranker repairs something.
LEMMA CandidateFacts ==
    ASSUME Setting, Ranker, Direct # {}, NEW c \in CandidatesOf(options.ranker)
    PROVE  CandidateMask(c) \in SUBSET Direct /\ CandidateMask(c) # {}
<1>1. PICK i \in DOMAIN Conditions :
        options \in Conditions[i].options /\ measured \in Conditions[i].measured
  BY DEF Setting
<1>2. c.count \in Nat \ {0}
  BY <1>1, OptionsAssumption DEF Ranker
<1>3. c.selector \in DOMAIN measured.sparse
  BY <1>1, MeasuredAssumption DEF Ranker
<1>4. AtMost(c.count) \in Nat \ {0}
  BY <1>2, DirectSize DEF AtMost
<1>5. \A d \in Direct : measured.sparse[c.selector][d] \in Int
  BY <1>3, SettingFacts
<1> DEFINE value == measured.sparse[c.selector]
<1>6. TopMask(value, Direct, AtMost(c.count)) # {}
  <2> HIDE DEF value
  <2>1. \A d \in Direct : value[d] \in Int
    BY <1>5 DEF value
  <2>2. Direct \in SUBSET Nat /\ IsFiniteSet(Direct)
    BY CellsFinite
  <2>3. QED
    BY <1>4, <2>1, <2>2, TopMaskNotEmpty
<1>7. QED
  BY <1>6, TopMaskInside DEF CandidateMask

\* The margins of a ranker are numbers, its candidates lists.
LEMMA MarginFacts ==
    ASSUME Setting, Ranker
    PROVE  /\ \A p \in Gates(options.ranker) : p.margin \in Nat
           /\ \A p \in Pools(options.ranker) : p.candidates \in Seq(ToSet(p.candidates))
<1>1. PICK i \in DOMAIN Conditions :
        options \in Conditions[i].options /\ measured \in Conditions[i].measured
  BY DEF Setting
<1>2. QED
  BY <1>1, OptionsAssumption DEF Ranker

\* The measures of probes score the masks of the cells that can be repaired.
LEMMA Measures ==
    ASSUME Setting
    PROVE  /\ \A by \in DOMAIN measured.nll : by \in Nat \ {0} /\ Landscape(ScoreBy(by))
           /\ 1 \in DOMAIN measured.nll /\ ScoreBy(1) = measured.nll[1]
           /\ Landscape(ScoreBy(Confidence))
<1>1. PICK n \in Nat \ {0} : DOMAIN measured.nll = 1..n
  BY SettingFacts
<1>2. \A by \in DOMAIN measured.nll : by \in Nat \ {0} /\ by # Confidence
  BY <1>1 DEF Confidence
<1>3. \A by \in DOMAIN measured.nll : ScoreBy(by) = measured.nll[by]
  BY <1>2 DEF ScoreBy
<1>4. ScoreBy(Confidence) = measured.confidence
  BY DEF ScoreBy
<1>5. QED
  BY <1>1, <1>2, <1>3, <1>4, SettingFacts

-----------------------------------------------------------------------------
(* What a gated row says.                                                  *)

GateHolds(by, mask, margin, against, tried) ==
    LET score == ScoreBy(by)
        chosen == IF mask = {} THEN against ELSE score[mask]
    IN  /\ mask # {} => against # NaN /\ Less(chosen, against - margin)
        /\ chosen # NaN => \A m \in tried : ~Less(score[m], chosen - margin)

RowIsSound(r) == r.gate # "none" => GateHolds(r.by, r.mask, r.margin, r.against, r.tried)

\* The property, row by row.
LEMMA SoundRows == GatesAreSound <=> \A r \in rows : RowIsSound(r)
BY DEF GatesAreSound, RowIsSound, GateHolds

\* A gated row is sound when its gate is.
LEMMA GatedRowIsSound ==
    ASSUME NEW name, NEW mask, NEW fallback, NEW by, NEW margin, NEW against, NEW tried,
           GateHolds(by, mask, margin, against, tried)
    PROVE  RowIsSound(GatedRow(name, mask, fallback, by, margin, against, tried))
<1> DEFINE r == GatedRow(name, mask, fallback, by, margin, against, tried)
<1>1. r.by = by /\ r.mask = mask /\ r.margin = margin /\ r.against = against /\ r.tried = tried
  BY DEF GatedRow, Row
<1> HIDE DEF r
<1>2. RowIsSound(r)
  BY <1>1 DEF RowIsSound
<1>3. QED
  BY <1>2 DEF r

\* A gate of one probe.
LEMMA OneProbeSound ==
    ASSUME Setting, Ranker, Direct # {}, NEW name, NEW p,
           p \in Gates(options.ranker), p.candidate \in CandidatesOf(options.ranker),
           NEW by \in {1, Confidence}
    PROVE  RowIsSound(OneProbeRow(name, p, by))
<1> DEFINE tried == CandidateMask(p.candidate)
           score == ScoreBy(by)
           kept == GateMask(score, tried, p.margin)
<1>1. tried \in SUBSET Direct
  BY CandidateFacts
<1>2. Landscape(score)
  BY Measures
<1>3. p.margin \in Nat
  BY MarginFacts
<1>4. LET chosen == IF kept = {} THEN score[{}] ELSE score[kept]
      IN  /\ kept \in SUBSET Direct
          /\ kept # {} => score[{}] # NaN /\ Less(chosen, score[{}] - p.margin)
          /\ chosen # NaN => ~Less(score[tried], chosen - p.margin)
  <2> HIDE DEF score, tried
  <2>1. QED
    BY <1>1, <1>2, <1>3, GateMaskFacts
<1>5. GateHolds(by, kept, p.margin, score[{}], {tried})
  BY <1>4 DEF GateHolds
<1>6. OneProbeRow(name, p, by) = GatedRow(name, kept, "stale", by, p.margin, score[{}], {tried})
  BY DEF OneProbeRow
<1> HIDE DEF kept, score, tried
<1>7. QED
  BY <1>5, <1>6, GatedRowIsSound

\* A gate that goes through a list of candidates.
LEMMA PoolRowSound ==
    ASSUME Setting, NEW name, NEW fallback, NEW masks \in Seq(SUBSET Direct), NEW margin \in Nat,
           NEW against, against = NaN \/ against \in Int,
           against = measured.nll[1][{}] \/ \A i \in 1..Len(masks) : masks[i] # {}
    PROVE  RowIsSound(GatedRow(name, PoolMask(measured.nll[1], masks, against, margin),
                               fallback, 1, margin, against, ToSet(masks)))
<1> DEFINE score == measured.nll[1]
           mask == PoolMask(score, masks, against, margin)
           chosen == IF mask = {} THEN against ELSE score[mask]
<1>1. Landscape(score) /\ score = ScoreBy(1)
  BY Measures
<1>2. /\ mask # {} => against # NaN /\ Less(chosen, against - margin)
      /\ chosen # NaN => \A i \in 1..Len(masks) : ~Less(score[masks[i]], chosen - margin)
  <2> HIDE DEF score
  <2>1. against = score[{}] \/ \A i \in 1..Len(masks) : masks[i] # {}
    BY DEF score
  <2>2. Served(score, masks, PoolMask(score, masks, against, margin), against, margin)
    BY <1>1, <2>1, PoolMaskFacts
  <2>3. QED
    BY <2>2 DEF Served
<1>3. ToSet(masks) = {masks[i] : i \in 1..Len(masks)}
  BY DEF ToSet
<1>4. GateHolds(1, mask, margin, against, ToSet(masks))
  BY <1>1, <1>2, <1>3 DEF GateHolds
<1> HIDE DEF mask
<1>5. RowIsSound(GatedRow(name, mask, fallback, 1, margin, against, ToSet(masks)))
  BY <1>4, GatedRowIsSound
<1>6. QED
  BY <1>5 DEF mask

-----------------------------------------------------------------------------
(* Stages.                                                                 *)

\* Where cells are repaired directly, there are some.
StageInv == Direct # {} \/ stage \in {"stale", "recompute", "surgery", "oracles", "end"}

\* A stage leaves the setting alone, and what follows it has cells to repair.
LEMMA StageGoesOn ==
    ASSUME StageInv, NEW s, s # "end", NEW wanted, NEW new, Stage(s, wanted, new)
    PROVE  /\ options' = options /\ measured' = measured
           /\ StageInv'
           /\ rows' = IF wanted THEN rows \cup new ELSE rows
<1> DEFINE at == CHOOSE i \in DOMAIN Stages : Stages[i] = s
<1>1. stage = s /\ stage' = IF s = "surgery" /\ (~measured.deltas \/ Direct = {}) THEN "oracles"
                            ELSE Stages[at + 1]
  BY DEF Stage
<1>2. DOMAIN Stages = 1..15
  BY DEF Stages
<1>3. \A j \in 1..15 : Stages[j] = s => at \in 1..15 /\ Stages[at] = s
  BY <1>2
<1>4. CASE Direct # {}
  BY <1>4 DEF StageInv, Stage
<1>5. CASE Direct = {}
  <2> HIDE DEF at
  <2>1. CASE s = "surgery"
    BY <1>1, <2>1, <1>5 DEF StageInv, Stage
  <2>2. CASE s = "stale"
    <3>1. 1 \in 1..15 /\ Stages[1] = s
      BY <2>2 DEF Stages
    <3>2. at \in 1..15 /\ Stages[at] = s
      BY <1>3, <3>1
    <3>3. Stages[at + 1] = "recompute"
      BY <3>2, <2>2 DEF Stages
    <3>4. QED
      BY <1>1, <2>2, <3>3 DEF StageInv, Stage
  <2>3. CASE s = "recompute"
    <3>1. 2 \in 1..15 /\ Stages[2] = s
      BY <2>3 DEF Stages
    <3>2. at \in 1..15 /\ Stages[at] = s
      BY <1>3, <3>1
    <3>3. Stages[at + 1] = "surgery"
      BY <3>2, <2>3 DEF Stages
    <3>4. QED
      BY <1>1, <2>3, <3>3 DEF StageInv, Stage
  <2>4. CASE s = "oracles"
    <3>1. 14 \in 1..15 /\ Stages[14] = s
      BY <2>4 DEF Stages
    <3>2. at \in 1..15 /\ Stages[at] = s
      BY <1>3, <3>1
    <3>3. Stages[at + 1] = "end"
      BY <3>2, <2>4 DEF Stages
    <3>4. QED
      BY <1>1, <2>4, <3>3 DEF StageInv, Stage
  <2>6. QED
    BY <1>1, <1>5, <2>1, <2>2, <2>3, <2>4 DEF StageInv
<1>6. QED
  BY <1>4, <1>5

-----------------------------------------------------------------------------
(* Searches.                                                               *)

\* The order of masks by their bytes is a strict order of any two.
LEMMA KeyOrder ==
    /\ \A a, b \in SUBSET Nat : a = b \/ KeyLess(a, b) \/ KeyLess(b, a)
    /\ \A a, b, c \in SUBSET Nat : KeyLess(a, b) /\ KeyLess(b, c) => KeyLess(a, c)
    /\ \A a, b \in SUBSET Nat : KeyLess(a, b) => ~KeyLess(b, a) /\ a # b
<1> DEFINE D(a, b) == (a \ b) \cup (b \ a)
           p(a, b) == Min(D(a, b))
<1>1. ASSUME NEW a \in SUBSET Nat, NEW b \in SUBSET Nat, a # b
      PROVE  p(a, b) \in D(a, b) /\ p(a, b) \in Nat /\ \A x \in D(a, b) : p(a, b) <= x
  <2> DEFINE S == D(a, b)
  <2>1. S \in SUBSET Nat /\ S # {}
    BY <1>1
  <2> HIDE DEF S
  <2>2. Min(S) \in S /\ \A x \in S : Min(S) <= x
    BY <2>1, MinInSet
  <2>3. QED
    BY <2>1, <2>2 DEF S
<1>2. \A a, b : KeyLess(a, b) <=> a # b /\ p(a, b) \in b
  BY DEF KeyLess
<1>3. \A a, b : D(a, b) = D(b, a)
  OBVIOUS
<1>4. \A a, b : p(a, b) = p(b, a)
  BY <1>3
<1> HIDE DEF p
<1>5. ASSUME NEW a \in SUBSET Nat, NEW b \in SUBSET Nat
      PROVE  a = b \/ KeyLess(a, b) \/ KeyLess(b, a)
  BY <1>1, <1>2, <1>4
<1>6. ASSUME NEW a \in SUBSET Nat, NEW b \in SUBSET Nat, KeyLess(a, b)
      PROVE  ~KeyLess(b, a) /\ a # b
  BY <1>1, <1>2, <1>4, <1>6
<1>7. ASSUME NEW a \in SUBSET Nat, NEW b \in SUBSET Nat, NEW c \in SUBSET Nat,
             KeyLess(a, b), KeyLess(b, c)
      PROVE  KeyLess(a, c)
  <2>1. PICK m \in Nat : m \in b \ a /\ \A x \in D(a, b) : m <= x
    BY <1>1, <1>2, <1>7
  <2>2. PICK n \in Nat : n \in c \ b /\ \A x \in D(b, c) : n <= x
    BY <1>1, <1>2, <1>7
  <2>3. \A x \in Nat : x < m => (x \in a <=> x \in b)
    BY <2>1
  <2>4. \A x \in Nat : x < n => (x \in b <=> x \in c)
    BY <2>2
  <2>5. m # n
    BY <2>1, <2>2
  <2>6. PICK k \in Nat : k \in c \ a /\ k <= m /\ k <= n
    <3>1. CASE m < n
      BY <3>1, <2>1, <2>4
    <3>2. CASE n < m
      BY <3>2, <2>2, <2>3
    <3>3. QED
      BY <2>5, <3>1, <3>2
  <2>7. \A x \in Nat : x < k => (x \in a <=> x \in c)
    BY <2>3, <2>4, <2>6
  <2>8. a # c /\ p(a, c) \in D(a, c) /\ p(a, c) \in Nat /\ p(a, c) <= k
    BY <1>1, <2>6
  <2>9. ~(p(a, c) < k)
    BY <2>7, <2>8
  <2>10. p(a, c) = k
    BY <2>8, <2>9
  <2>11. QED
    BY <1>2, <2>6, <2>8, <2>10
<1>8. QED
  BY <1>5, <1>6, <1>7

\* A measured mask comes before another.
Before(score, m, n) == Less(score[m], score[n]) \/ (score[m] = score[n] /\ KeyLess(m, n))

\* Of masks that are measured one is best.
LEMMA BestMaskFacts ==
    ASSUME NEW score, NEW masks \in SUBSET SUBSET Direct, masks # {},
           \A m \in masks : score[m] \in Int
    PROVE  /\ BestMask(score, masks) \in masks
           /\ \A n \in masks : n = BestMask(score, masks) \/ Before(score, BestMask(score, masks), n)
           /\ \A n \in masks : score[BestMask(score, masks)] <= score[n]
<1>0. \A m \in masks : m \in SUBSET Nat
  BY CellsFinite
<1>1. IsFiniteSet(masks)
  <2>1. IsFiniteSet(SUBSET Direct)
    BY CellsFinite, FS_SUBSET
  <2>2. QED
    BY <2>1, FS_Subset
<1> DEFINE R == {q \in masks \X masks : Before(score, q[1], q[2])}
<1>2. \A x, y \in masks : <<x, y>> \in R <=> Before(score, x, y)
  <2> SUFFICES ASSUME NEW x \in masks, NEW y \in masks
               PROVE  <<x, y>> \in R <=> Before(score, x, y)
    OBVIOUS
  <2>1. <<x, y>> \in masks \X masks /\ <<x, y>>[1] = x /\ <<x, y>>[2] = y
    OBVIOUS
  <2>2. QED
    BY <2>1
<1> HIDE DEF R
<1>3. \A x, y \in masks : x = y \/ <<x, y>> \in R \/ <<y, x>> \in R
  <2> SUFFICES ASSUME NEW x \in masks, NEW y \in masks, x # y
               PROVE  Before(score, x, y) \/ Before(score, y, x)
    BY <1>2
  <2>1. score[x] \in Int /\ score[y] \in Int /\ NaN \notin Int
    BY ScoresAssumption
  <2>2. KeyLess(x, y) \/ KeyLess(y, x)
    BY <1>0, KeyOrder
  <2>3. QED
    BY <2>1, <2>2 DEF Before, Less
<1>4. \A x, y, z \in masks : <<x, y>> \in R /\ <<y, z>> \in R => <<x, z>> \in R
  <2> SUFFICES ASSUME NEW x \in masks, NEW y \in masks, NEW z \in masks,
                      Before(score, x, y), Before(score, y, z)
               PROVE  Before(score, x, z)
    BY <1>2
  <2>1. score[x] \in Int /\ score[y] \in Int /\ score[z] \in Int /\ NaN \notin Int
    BY ScoresAssumption
  <2>2. KeyLess(x, y) /\ KeyLess(y, z) => KeyLess(x, z)
    <3>1. x \in SUBSET Nat /\ y \in SUBSET Nat /\ z \in SUBSET Nat
      BY <1>0
    <3>2. QED
      BY <3>1, KeyOrder
  <2>3. QED
    BY <2>1, <2>2 DEF Before, Less
<1>5. PICK m \in masks : \A y \in masks : y = m \/ <<m, y>> \in R
  BY <1>1, <1>3, <1>4, FirstOne DEF Ordered
<1>6. \A n \in masks : n = m \/ Before(score, m, n)
  BY <1>2, <1>5
<1>7. /\ BestMask(score, masks) \in masks
      /\ \A n \in masks : n = BestMask(score, masks) \/ Before(score, BestMask(score, masks), n)
  BY <1>6 DEF BestMask, Before
<1>8. \A n \in masks : score[BestMask(score, masks)] <= score[n]
  <2> SUFFICES ASSUME NEW n \in masks PROVE score[BestMask(score, masks)] <= score[n]
    OBVIOUS
  <2>1. score[n] \in Int /\ score[BestMask(score, masks)] \in Int
    BY <1>7
  <2>2. QED
    BY <1>7, <2>1 DEF Before, Less
<1>9. QED
  BY <1>7, <1>8

\* The subsets of a pool score numbers or nothing; or numbers all of them.
Scored(score, pool) == \A m \in SUBSET pool : score[m] = NaN \/ score[m] \in Int

AllScored(score, pool) == \A m \in SUBSET pool : score[m] # NaN

\* Adding a cell to a mask.
LEMMA OneMore ==
    ASSUME NEW pool \in SUBSET Nat, IsFiniteSet(pool), NEW m \in SUBSET pool, NEW c \in pool \ m
    PROVE  /\ m \cup {c} \in SUBSET pool
           /\ Cardinality(m) \in Nat /\ Cardinality(m \cup {c}) = Cardinality(m) + 1
<1>1. IsFiniteSet(m)
  BY FS_Subset
<1>2. Cardinality(m) \in Nat
  BY <1>1, FS_CardinalityType
<1>3. Cardinality(m \cup {c}) = Cardinality(m) + 1
  BY <1>1, FS_AddElement
<1>4. QED
  BY <1>2, <1>3

\* The best cell is one of those to choose from.
LEMMA BestCellFacts ==
    ASSUME NEW pool \in SUBSET Nat, IsFiniteSet(pool), NEW score, NEW mask,
           NEW choices \in SUBSET pool, choices # {},
           \A c \in choices : score[mask \cup {c}] \in Int
    PROVE  BestCell(score, mask, choices) \in choices
<1> DEFINE f == [c \in choices |-> score[mask \cup {c}]]
<1>1. \A c \in choices : f[c] = score[mask \cup {c}] /\ f[c] \in Int
  OBVIOUS
<1>2. IsFiniteSet(choices) /\ choices \in SUBSET Nat
  BY FS_Subset
<1> HIDE DEF f
<1>3. PICK c \in choices : \A d \in choices : f[c] < f[d] \/ (f[c] = f[d] /\ c <= d)
  BY <1>1, <1>2, FirstLeast
<1>4. \A d \in choices : \/ Less(score[mask \cup {c}], score[mask \cup {d}])
                         \/ score[mask \cup {c}] = score[mask \cup {d}] /\ c <= d
  BY <1>1, <1>3, ScoresAssumption DEF Less
<1>5. QED
  BY <1>4 DEF BestCell

\* The masks of the greedy path are measured and each is a cell larger than
\* the one before.
LEMMA GreedyFacts ==
    ASSUME NEW pool \in SUBSET Nat, IsFiniteSet(pool), NEW score, Scored(score, pool), NEW limit \in Nat
    PROVE  LET path == GreedyPath(score, pool, limit)
           IN  /\ path \in Seq(SUBSET pool)
               /\ \A k \in 1..Len(path) : Cardinality(path[k]) = k /\ score[path[k]] \in Int
               /\ AllScored(score, pool) /\ limit <= Cardinality(pool) => Len(path) = limit
<1> DEFINE full == AllScored(score, pool) /\ limit <= Cardinality(pool)
           From(k, p) == IF k = 1 THEN {} ELSE Last(p)
           Options(k, p) == {c \in pool \ From(k, p) : score[From(k, p) \cup {c}] # NaN}
           Body(k, p) ==
                IF Len(p) < k - 1 \/ Options(k, p) = {} THEN p
                ELSE Append(p, From(k, p) \cup {BestCell(score, From(k, p), Options(k, p))})
           V == Seq(SUBSET pool)
           step == [k \in 1..limit |-> [p \in V |-> Body(k, p)]]
           Table(g) == [k \in 0..limit |-> IF k = 0 THEN <<>> ELSE Body(k, g[k - 1])]
           path == CHOOSE g : g = Table(g)
<1>1. ASSUME NEW k \in 1..limit, NEW p \in V
      PROVE  /\ From(k, p) \in SUBSET pool \/ Len(p) < k - 1
             /\ Body(k, p) # p => /\ Len(p) >= k - 1
                                  /\ BestCell(score, From(k, p), Options(k, p)) \in Options(k, p)
             /\ Body(k, p) \in V
  <2>1. ASSUME Len(p) >= k - 1 PROVE From(k, p) \in SUBSET pool
    BY <2>1 DEF Last
  <2>2. ASSUME ~(Len(p) < k - 1), Options(k, p) # {}
        PROVE  BestCell(score, From(k, p), Options(k, p)) \in Options(k, p)
    <3>1. From(k, p) \in SUBSET pool
      BY <2>1, <2>2
    <3>2. \A c \in Options(k, p) : score[From(k, p) \cup {c}] \in Int
      BY <3>1 DEF Scored
    <3>3. Options(k, p) \in SUBSET pool
      OBVIOUS
    <3> HIDE DEF From, Options
    <3>4. QED
      BY <2>2, <3>2, <3>3, BestCellFacts
  <2>3. Body(k, p) \in V
    <3>1. CASE Len(p) < k - 1 \/ Options(k, p) = {}
      BY <3>1
    <3>2. CASE ~(Len(p) < k - 1) /\ Options(k, p) # {}
      <4>1. From(k, p) \cup {BestCell(score, From(k, p), Options(k, p))} \in SUBSET pool
        <5>1. From(k, p) \in SUBSET pool
          BY <2>1, <3>2
        <5>2. BestCell(score, From(k, p), Options(k, p)) \in pool
          BY <2>2, <3>2
        <5> HIDE DEF From, Options
        <5>3. QED
          BY <5>1, <5>2
      <4> HIDE DEF From, Options
      <4>2. QED
        BY <3>2, <4>1
    <3>3. QED
      BY <3>1, <3>2
  <2> HIDE DEF From, Options
  <2>4. QED
    BY <2>1, <2>2, <2>3
<1>2. \E g \in [0..limit -> V] : g = Table(g)
  <2>1. \A k \in 1..limit : \A p \in V : step[k][p] = Body(k, p)
    OBVIOUS
  <2>2. \A k \in 1..limit : \A p \in V : step[k][p] \in V
    <3> SUFFICES ASSUME NEW k \in 1..limit, NEW p \in V PROVE step[k][p] \in V
      OBVIOUS
    <3>0. step[k][p] = Body(k, p)
      BY <2>1
    <3> HIDE DEF Body, V, step, From, Options
    <3>1. Body(k, p) \in V
      BY <1>1
    <3>2. QED
      BY <3>0, <3>1
  <2>3. <<>> \in V
    OBVIOUS
  <2> HIDE DEF V, Body, step
  <2>4. Iterable(limit, V, <<>>, step)
    BY <2>2, <2>3, Iterates
  <2>5. PICK g \in [0..limit -> V] : g[0] = <<>> /\ \A i \in 1..limit : g[i] = step[i][g[i - 1]]
    BY <2>4 DEF Iterable
  <2>6. \A i \in 1..limit : g[i - 1] \in V /\ g[i] = Body(i, g[i - 1])
    BY <2>1, <2>5
  <2>7. g = Table(g)
    BY <2>5, <2>6
  <2>8. QED
    BY <2>7
<1>3. path = Table(path)
  <2> HIDE DEF Table
  <2>1. QED
    BY <1>2
<1>4. GreedyPath(score, pool, limit) = path[limit]
  BY DEF GreedyPath
<1> HIDE DEF path
<1>5. path[0] = <<>> /\ \A k \in 1..limit : path[k] = Body(k, path[k - 1])
  <2> HIDE DEF Body
  <2>1. QED
    BY <1>3
<1> DEFINE S == {k \in 0..limit :
                    /\ path[k] \in V /\ Len(path[k]) <= k /\ (full => Len(path[k]) = k)
                    /\ \A j \in 1..Len(path[k]) :
                        Cardinality(path[k][j]) = j /\ score[path[k][j]] \in Int}
<1>6. 0 \in S
  <2> HIDE DEF Body
  <2>1. path[0] = <<>> /\ <<>> \in V /\ Len(<<>>) = 0 /\ 0 \in 0..limit
    BY <1>5
  <2>2. path[0] \in V /\ Len(path[0]) = 0 /\ 1..Len(path[0]) = {}
    <3>1. 1..0 = {}
      OBVIOUS
    <3> HIDE DEF V
    <3>2. QED
      BY <2>1, <3>1
  <2> HIDE DEF V
  <2>3. QED
    BY <2>1, <2>2
<1>7. ASSUME NEW k \in 0..(limit - 1), k \in S PROVE k + 1 \in S
  <2> DEFINE p == path[k]
  <2>1. /\ p \in V /\ Len(p) <= k /\ k + 1 \in 1..limit
        /\ \A j \in 1..Len(p) : Cardinality(p[j]) = j /\ score[p[j]] \in Int
        /\ full => Len(p) = k
    BY <1>7
  <2>2a. ASSUME full PROVE Body(k + 1, p) # p
    <3> DEFINE from == From(k + 1, p)
    <3>1. Len(p) = k /\ p \in Seq(SUBSET pool) /\ k < limit /\ limit <= Cardinality(pool)
      BY <2>1, <2>2a
    <3>2. from \in SUBSET pool /\ Cardinality(from) = k
      <4>1. CASE k = 0
        BY <4>1, FS_EmptySet
      <4>2. CASE k # 0
        <5>1. from = Last(p) /\ k \in 1..Len(p)
          BY <3>1, <4>2
        <5> HIDE DEF from, p
        <5>2. from = p[k]
          BY <3>1, <5>1 DEF Last
        <5>3. QED
          BY <2>1, <3>1, <5>1, <5>2
      <4>3. QED
        BY <4>1, <4>2
    <3>3. from # pool /\ k + 1 \in 1..limit
      <4> HIDE DEF from, p, full
      <4>1. Cardinality(pool) \in Nat /\ k < Cardinality(pool)
        BY <3>1, FS_CardinalityType
      <4>2. k + 1 \in 1..limit
        BY <3>1
      <4>3. QED
        BY <3>2, <4>1, <4>2
    <3>4. PICK c \in pool \ from : TRUE
      BY <3>2, <3>3
    <3>5. c \in Options(k + 1, p)
      BY <2>2a, <3>2, <3>4 DEF AllScored
    <3>6. ~(Len(p) < (k + 1) - 1)
      BY <3>1
    <3>7. Body(k + 1, p) =
            Append(p, from \cup {BestCell(score, from, Options(k + 1, p))})
      <4> HIDE DEF Options, From, p
      <4>1. QED
        BY <3>5, <3>6
    <3> HIDE DEF from, p, Body, Options
    <3>8. \A x : Len(Append(p, x)) = k + 1
      BY <3>1
    <3>9. QED
      BY <3>1, <3>7, <3>8
  <2>2. path[k + 1] = Body(k + 1, p)
    <3> HIDE DEF Body
    <3>1. k + 1 \in 1..limit /\ (k + 1) - 1 = k
      OBVIOUS
    <3>2. path[k + 1] = Body(k + 1, path[(k + 1) - 1])
      BY <1>5, <3>1
    <3>3. QED
      BY <3>1, <3>2
  <2>3. CASE Body(k + 1, p) = p
    <3> HIDE DEF Body, p, V
    <3>1. path[k + 1] = p
      BY <2>2, <2>3
    <3>2. Len(p) <= k + 1 /\ k + 1 \in 0..limit
      BY <2>1 DEF V
    <3>2a. ~full
      BY <2>2a, <2>3
    <3> HIDE DEF full
    <3>3. QED
      BY <2>1, <3>1, <3>2, <3>2a
  <2>4. CASE Body(k + 1, p) # p
    <3> DEFINE from == From(k + 1, p)
               c == BestCell(score, from, Options(k + 1, p))
    <3>1. Len(p) = k /\ from \in SUBSET pool /\ c \in Options(k + 1, p)
      <4> HIDE DEF Body, From, Options, V
      <4>0. k + 1 \in 1..limit /\ p \in V /\ Len(p) <= k
        BY <2>1
      <4>1. Len(p) >= (k + 1) - 1 /\ c \in Options(k + 1, p)
        BY <1>1, <2>4, <4>0
      <4>2. Len(p) \in Nat
        BY <4>0 DEF V
      <4>3. from \in SUBSET pool \/ Len(p) < (k + 1) - 1
        BY <1>1, <4>0
      <4>4. QED
        BY <4>0, <4>1, <4>2, <4>3
    <3>2. path[k + 1] = Append(p, from \cup {c})
      BY <2>2, <2>4
    <3>3. Cardinality(from) = k
      <4>1. CASE k = 0
        BY <4>1, FS_EmptySet
      <4>2. CASE k # 0
        <5>a. k + 1 # 1 /\ k \in 1..k
          BY <4>2
        <5>b. from = Last(p)
          BY <5>a
        <5>0. from = Last(p) /\ Len(p) = k /\ k \in 1..Len(p)
          BY <3>1, <5>a, <5>b
        <5> HIDE DEF from, p
        <5>1. from = p[k] /\ k \in 1..Len(p)
          BY <5>0 DEF Last
        <5>2. QED
          BY <2>1, <5>1
      <4>3. QED
        BY <4>1, <4>2
    <3>4. c \in pool \ from /\ score[from \cup {c}] # NaN
      BY <3>1
    <3> HIDE DEF from, c
    <3>5. from \cup {c} \in SUBSET pool /\ Cardinality(from \cup {c}) = k + 1
      <4>1. QED
        BY <3>1, <3>3, <3>4, OneMore
    <3>6. score[from \cup {c}] \in Int
      BY <3>4, <3>5 DEF Scored
    <3> DEFINE q == Append(p, from \cup {c})
    <3>7. q \in V /\ Len(q) = k + 1 /\ q[k + 1] = from \cup {c} /\ \A j \in 1..k : q[j] = p[j]
      <4>1. p \in Seq(SUBSET pool) /\ Len(p) = k /\ k \in Nat
        BY <2>1, <3>1
      <4> HIDE DEF p
      <4>2. QED
        BY <3>5, <4>1
    <3> HIDE DEF q
    <3>8. path[k + 1] = q
      BY <3>2 DEF q
    <3>9. \A j \in 1..Len(q) : Cardinality(q[j]) = j /\ score[q[j]] \in Int
      <4> HIDE DEF p, V
      <4> SUFFICES ASSUME NEW j \in 1..(k + 1)
                   PROVE  Cardinality(q[j]) = j /\ score[q[j]] \in Int
        BY <3>7
      <4>1. j = k + 1 \/ j \in 1..Len(p)
        BY <3>1
      <4>2. j \in 1..Len(p) => q[j] = p[j]
        BY <3>1, <3>7
      <4>3. QED
        BY <2>1, <3>5, <3>6, <3>7, <4>1, <4>2
    <3> HIDE DEF p, V, full
    <3>10. QED
      BY <2>1, <3>7, <3>8, <3>9
  <2>5. QED
    BY <2>3, <2>4
<1>8. limit \in S
  <2> HIDE DEF S
  <2>1. \A k \in 0..limit : k \in S
    BY <1>6, <1>7, UpTo
  <2>2. QED
    BY <2>1
<1>9. QED
  BY <1>4, <1>8

\* The masks of a path are measured and each is a cell larger than the one
\* before.
PathOf(score, steps) ==
    \E n \in Nat :
        /\ DOMAIN steps = 1..n
        /\ \A k \in 1..n : /\ steps[k].mask \in SUBSET Direct
                           /\ Cardinality(steps[k].mask) = k
                           /\ score[steps[k].mask] \in Int

\* A mask has finitely many cells.
LEMMA MaskFinite ==
    ASSUME NEW m \in SUBSET Direct
    PROVE  IsFiniteSet(m) /\ Cardinality(m) \in Nat
<1>1. IsFiniteSet(m)
  BY CellsFinite, FS_Subset
<1>2. QED
  BY <1>1, FS_CardinalityType

\* An exchange keeps the size of a mask.
LEMMA ExchangeFacts ==
    ASSUME NEW mask \in SUBSET Direct
    PROVE  /\ Exchanges(mask, Direct) \in SUBSET SUBSET Direct
           /\ \A m \in Exchanges(mask, Direct) : Cardinality(m) = Cardinality(mask)
<1> SUFFICES ASSUME NEW m \in Exchanges(mask, Direct)
             PROVE  m \in SUBSET Direct /\ Cardinality(m) = Cardinality(mask)
  OBVIOUS
<1>1. PICK out \in mask, in \in Direct \ mask : m = (mask \ {out}) \cup {in}
  BY DEF Exchanges
<1>2. IsFiniteSet(mask) /\ Cardinality(mask) \in Nat
  BY MaskFinite
<1>3. IsFiniteSet(mask \ {out}) /\ Cardinality(mask \ {out}) = Cardinality(mask) - 1
  BY <1>2, FS_RemoveElement
<1>4. in \notin mask \ {out}
  OBVIOUS
<1>5. Cardinality((mask \ {out}) \cup {in}) = Cardinality(mask \ {out}) + 1
  BY <1>3, <1>4, FS_AddElement
<1>6. QED
  BY <1>1, <1>2, <1>3, <1>5

\* Swaps keep the size of a mask, which is measured still, and never make it
\* worse.
LEMMA SwapFacts ==
    ASSUME NEW score, Landscape(score), NEW mask \in SUBSET Direct, score[mask] \in Int,
           NEW rounds \in Nat, NEW probes \in Int
    PROVE  LET point == SwapPoint(score, Direct, mask, rounds, probes)
           IN  /\ point.mask \in SUBSET Direct /\ Cardinality(point.mask) = Cardinality(mask)
               /\ score[point.mask] \in Int /\ score[point.mask] <= score[mask]
<1> DEFINE cost == Cardinality(mask) * Cardinality(Direct \ mask)
           start == [mask |-> mask, probes |-> probes, open |-> TRUE]
           Better(x) == BetterExchanges(score, x.mask, Direct)
           Body(r, x) ==
                IF ~x.open THEN x
                ELSE IF Better(x) = {} THEN [x EXCEPT !.probes = @ + cost, !.open = FALSE]
                ELSE [mask |-> BestMask(score, Better(x)), probes |-> x.probes + cost, open |-> TRUE]
           Good == {m \in SUBSET Direct : /\ Cardinality(m) = Cardinality(mask)
                                          /\ score[m] \in Int /\ score[m] <= score[mask]}
           V == [mask : Good, probes : Int, open : BOOLEAN]
           step == [r \in 1..rounds |-> [x \in V |-> Body(r, x)]]
           Table(g) == [r \in 0..rounds |-> IF r = 0 THEN start ELSE Body(r, g[r - 1])]
           round == CHOOSE g : g = Table(g)
<1>0. cost \in Int
  <2>1. Cardinality(mask) \in Nat
    BY MaskFinite
  <2>2. Direct \ mask \in SUBSET Direct
    OBVIOUS
  <2>3. Cardinality(Direct \ mask) \in Nat
    BY <2>2, MaskFinite
  <2>4. QED
    BY <2>1, <2>3
<1>1. start \in V
  OBVIOUS
<1>2. ASSUME NEW r \in 1..rounds, NEW x \in V PROVE Body(r, x) \in V
  <2>1. CASE ~x.open
    BY <2>1
  <2>2. CASE x.open /\ Better(x) = {}
    <3> HIDE DEF Better, cost, Good
    <3>1. Body(r, x) = [x EXCEPT !.probes = @ + cost, !.open = FALSE]
      BY <2>2, Zenon
    <3>2. x.probes + cost \in Int
      BY <1>0
    <3>3. QED
      BY <3>1, <3>2
  <2>3. CASE x.open /\ Better(x) # {}
    <3>1. x.mask \in SUBSET Direct /\ score[x.mask] \in Int /\ score[x.mask] <= score[mask]
          /\ Cardinality(x.mask) = Cardinality(mask)
      OBVIOUS
    <3>2. Better(x) \in SUBSET SUBSET Direct
      BY <3>1, ExchangeFacts DEF BetterExchanges
    <3>3. \A m \in Better(x) : /\ score[m] \in Int /\ score[m] <= score[mask]
                               /\ Cardinality(m) = Cardinality(mask)
      <4> SUFFICES ASSUME NEW m \in Better(x)
                   PROVE  /\ score[m] \in Int /\ score[m] <= score[mask]
                          /\ Cardinality(m) = Cardinality(mask)
        OBVIOUS
      <4>1. Cardinality(m) = Cardinality(mask) /\ m \in SUBSET Direct
        BY <3>1, ExchangeFacts DEF BetterExchanges
      <4>2. score[m] \in Int /\ score[m] < score[x.mask]
        BY <4>1 DEF Less, Landscape, BetterExchanges
      <4>3. QED
        BY <3>1, <4>1, <4>2
    <3> HIDE DEF Better
    <3>4. BestMask(score, Better(x)) \in Better(x)
      BY <2>3, <3>2, <3>3, BestMaskFacts
    <3>5. BestMask(score, Better(x)) \in Good
      BY <3>2, <3>3, <3>4
    <3> HIDE DEF Good, cost
    <3>6. QED
      BY <1>0, <2>3, <3>5
  <2>4. QED
    BY <2>1, <2>2, <2>3
<1> HIDE DEF Good
<1>3. \E g \in [0..rounds -> V] : g = Table(g)
  <2>1. \A r \in 1..rounds : \A x \in V : step[r][x] = Body(r, x)
    OBVIOUS
  <2> HIDE DEF V, Body, step, start
  <2>2. \A r \in 1..rounds : \A x \in V : step[r][x] \in V
    BY <1>2, <2>1
  <2>4. Iterable(rounds, V, start, step)
    BY <1>1, <2>2, Iterates
  <2>5. PICK g \in [0..rounds -> V] : g[0] = start /\ \A i \in 1..rounds : g[i] = step[i][g[i - 1]]
    BY <2>4 DEF Iterable
  <2>6. \A i \in 1..rounds : g[i - 1] \in V /\ g[i] = Body(i, g[i - 1])
    BY <2>1, <2>5
  <2>7. g = Table(g)
    BY <2>5, <2>6
  <2>8. QED
    BY <2>7
<1>4. round = Table(round)
  <2> HIDE DEF Table
  <2>1. QED
    BY <1>3
<1>5. SwapPoint(score, Direct, mask, rounds, probes)
        = [mask |-> round[rounds].mask, probes |-> round[rounds].probes]
  BY DEF SwapPoint
<1> HIDE DEF round
<1>6. round[0] = start /\ \A r \in 1..rounds : round[r] = Body(r, round[r - 1])
  <2> HIDE DEF Body, start
  <2>1. QED
    BY <1>4
<1> HIDE DEF V, Body, start
<1> DEFINE S == {r \in 0..rounds : round[r] \in V}
<1>7. 0 \in S
  BY <1>1, <1>6
<1>8. ASSUME NEW r \in 0..(rounds - 1), r \in S PROVE r + 1 \in S
  <2>1. round[r + 1] = Body(r + 1, round[r]) /\ r + 1 \in 1..rounds
    BY <1>6
  <2>2. QED
    BY <1>2, <1>8, <2>1
<1>9. rounds \in S
  <2> HIDE DEF S
  <2>1. \A r \in 0..rounds : r \in S
    BY <1>7, <1>8, UpTo
  <2>2. QED
    BY <2>1
<1>10. round[rounds].mask \in Good
  BY <1>9 DEF V
<1>11. QED
  BY <1>5, <1>10 DEF Good

MeasuredMasks(score, n) == {m \in SUBSET Direct : Cardinality(m) = n /\ score[m] # NaN}

\* The best measured mask of a size.
Least(score, n, mask) ==
    mask \in MeasuredMasks(score, n) /\ \A m \in MeasuredMasks(score, n) : score[mask] <= score[m]

\* No path of two cells can fall out of such a beam.
Wide(score, width) ==
    /\ \A m \in SUBSET Direct : score[m] # NaN
    /\ width >= Cardinality({m \in SUBSET Direct : Cardinality(m) = 1})

\* The masks of a beam, grown by a cell.
Larger(score, beam, n) ==
    {m \in {p \cup {c} : p \in beam, c \in Direct} : Cardinality(m) = n /\ score[m] # NaN}

\* What a beam grows into is measured.
LEMMA LargerFacts ==
    ASSUME NEW score, Landscape(score), NEW beam \in SUBSET SUBSET Direct, NEW n \in Nat
    PROVE  /\ Larger(score, beam, n) \in SUBSET SUBSET Direct
           /\ Larger(score, beam, n) \in SUBSET MeasuredMasks(score, n)
           /\ \A m \in Larger(score, beam, n) : score[m] \in Int
BY DEF Larger, MeasuredMasks, Landscape

\* A mask of one cell.
LEMMA MasksOfOne ==
    ASSUME NEW m \in SUBSET Direct, Cardinality(m) = 1
    PROVE  \E c \in Direct : m = {c}
<1>1. IsFiniteSet(m)
  BY MaskFinite
<1>2. m # {}
  BY FS_EmptySet
<1>3. PICK c \in m : TRUE
  BY <1>2
<1>4. IsFiniteSet(m \ {c}) /\ Cardinality(m \ {c}) = 0
  BY <1>1, FS_RemoveElement
<1>5. m \ {c} = {}
  BY <1>4, FS_EmptySet
<1>6. QED
  BY <1>5

\* Grown from no cell, a beam is all of the measured masks of one; from all
\* masks of one cell, all of the measured masks of two.
LEMMA LargerOfAll ==
    ASSUME NEW score, Landscape(score)
    PROVE  /\ Larger(score, {{}}, 1) = MeasuredMasks(score, 1)
           /\ (\A m \in SUBSET Direct : score[m] # NaN) =>
                Larger(score, MeasuredMasks(score, 1), 2) = MeasuredMasks(score, 2)
<1>1. ASSUME NEW m \in MeasuredMasks(score, 1) PROVE m \in Larger(score, {{}}, 1)
  <2>1. PICK c \in Direct : m = {c}
    BY MasksOfOne DEF MeasuredMasks
  <2>2. m = {} \cup {c}
    BY <2>1
  <2>3. QED
    BY <2>2 DEF Larger, MeasuredMasks
<1>2. {{}} \in SUBSET SUBSET Direct
  OBVIOUS
<1>3. Larger(score, {{}}, 1) \in SUBSET MeasuredMasks(score, 1)
  BY <1>2, LargerFacts
<1>4. ASSUME \A m \in SUBSET Direct : score[m] # NaN, NEW m \in MeasuredMasks(score, 2)
      PROVE  m \in Larger(score, MeasuredMasks(score, 1), 2)
  <2>1. m \in SUBSET Direct /\ Cardinality(m) = 2 /\ IsFiniteSet(m)
    BY MaskFinite DEF MeasuredMasks
  <2>2. PICK c \in m : TRUE
    BY <2>1, FS_EmptySet
  <2>3. Cardinality(m \ {c}) = 1 /\ m \ {c} \in SUBSET Direct
    <3>1. Cardinality(m \ {c}) = Cardinality(m) - 1
      BY <2>1, FS_RemoveElement
    <3>2. m \ {c} \in SUBSET Direct
      BY <2>1
    <3>3. QED
      BY <2>1, <3>1, <3>2
  <2>4. m \ {c} \in MeasuredMasks(score, 1)
    BY <1>4, <2>3 DEF MeasuredMasks
  <2>5. m = (m \ {c}) \cup {c} /\ c \in Direct
    BY <2>1
  <2>6. QED
    BY <1>4, <2>1, <2>4, <2>5 DEF Larger
<1>5. MeasuredMasks(score, 1) \in SUBSET SUBSET Direct
  BY DEF MeasuredMasks
<1>6. Larger(score, MeasuredMasks(score, 1), 2) \in SUBSET MeasuredMasks(score, 2)
  BY <1>5, LargerFacts
<1>7. QED
  BY <1>1, <1>3, <1>4, <1>6

\* A beam keeps all masks when it is as wide as they are many.
LEMMA AllKept ==
    ASSUME NEW score, NEW masks \in SUBSET SUBSET Direct, NEW width \in Nat,
           \A m \in masks : score[m] \in Int, Cardinality(masks) <= width
    PROVE  BestMasks(score, masks, width) = masks
<1>1. IsFiniteSet(masks)
  BY CellsFinite, FS_SUBSET, FS_Subset
<1>2. ASSUME NEW m \in masks
      PROVE  Cardinality({n \in masks : Before(score, n, m)}) < width
  <2> DEFINE B == {n \in masks : Before(score, n, m)}
  <2>1. m \notin B
    <3>1. score[m] \in Int /\ m \in SUBSET Nat
      BY CellsFinite
    <3>2. ~KeyLess(m, m)
      BY DEF KeyLess
    <3>3. QED
      BY <3>1, <3>2 DEF Before, Less
  <2>2. B \in SUBSET (masks \ {m})
    BY <2>1
  <2>3. IsFiniteSet(masks \ {m}) /\ Cardinality(masks \ {m}) = Cardinality(masks) - 1
    BY <1>1, FS_RemoveElement
  <2> HIDE DEF B
  <2>4. IsFiniteSet(B) /\ Cardinality(B) <= Cardinality(masks \ {m})
    BY <2>2, <2>3, FS_Subset
  <2>5. Cardinality(masks) \in Nat /\ Cardinality(B) \in Nat
    BY <1>1, <2>4, FS_CardinalityType
  <2>6. Cardinality(B) < width
    BY <2>3, <2>4, <2>5
  <2>7. QED
    BY <2>6 DEF B
<1>3. QED
  BY <1>2 DEF BestMasks, Before

\* Where a beam stands after k steps.
Reached(score, width, k, x) ==
    /\ Len(x.points) <= k
    /\ \A j \in 1..Len(x.points) : x.points[j].mask \in MeasuredMasks(score, j)
    /\ k = 0 => x.beam = {{}}
    /\ Len(x.points) >= 1 => Least(score, 1, x.points[1].mask)
    /\ Wide(score, width) =>
        /\ k = 1 /\ Len(x.points) = 1 => x.beam = MeasuredMasks(score, 1)
        /\ Len(x.points) >= 2 => Least(score, 2, x.points[2].mask)

\* What it is to be measured.
LEMMA MasksAreMeasured ==
    ASSUME NEW score, Landscape(score), NEW n, NEW m \in MeasuredMasks(score, n)
    PROVE  m \in SUBSET Direct /\ Cardinality(m) = n /\ score[m] \in Int
BY DEF MeasuredMasks, Landscape

\* The path of a beam; its first mask is the best of one cell, and its second
\* the best of two when the beam is wide.
LEMMA BeamFacts ==
    ASSUME NEW score, Landscape(score), NEW limit \in Nat, NEW width \in Nat
    PROVE  LET path == BeamPath(score, Direct, limit, width)
           IN  /\ PathOf(score, path)
               /\ 1 \in DOMAIN path => Least(score, 1, path[1].mask)
               /\ Wide(score, width) /\ 2 \in DOMAIN path => Least(score, 2, path[2].mask)
<1> DEFINE Failed(beam, k) ==
                {x \in beam \X Direct : x[2] \notin x[1] /\ score[x[1] \cup {x[2]}] = NaN}
           start == [beam |-> {{}}, probes |-> 0, points |-> <<>>]
           Probes(k, x) == x.probes + Cardinality(Larger(score, x.beam, k)) + Cardinality(Failed(x.beam, k))
           Point(k, x) == [mask |-> BestMask(score, Larger(score, x.beam, k)), probes |-> Probes(k, x)]
           Stuck(k, x) == Len(x.points) < k - 1 \/ Larger(score, x.beam, k) = {}
           Body(k, x) ==
                IF Stuck(k, x) THEN x
                ELSE [beam |-> BestMasks(score, Larger(score, x.beam, k), width),
                      probes |-> Probes(k, x), points |-> Append(x.points, Point(k, x))]
           Pts == [mask : SUBSET Direct, probes : Nat]
           V == [beam : SUBSET SUBSET Direct, probes : Nat, points : Seq(Pts)]
           f == [k \in 1..limit |-> [x \in V |-> Body(k, x)]]
           Table(g) == [k \in 0..limit |-> IF k = 0 THEN start ELSE Body(k, g[k - 1])]
           step == CHOOSE g : g = Table(g)
<1>1. start \in V
  OBVIOUS
<1>2. ASSUME NEW k \in 1..limit, NEW x \in V
      PROVE  /\ ~Stuck(k, x) => /\ Point(k, x) \in Pts
                                /\ Point(k, x).mask \in Larger(score, x.beam, k)
                                /\ \A m \in Larger(score, x.beam, k) :
                                        score[Point(k, x).mask] <= score[m]
             /\ Body(k, x) \in V
  <2> DEFINE new == Larger(score, x.beam, k)
             failed == Failed(x.beam, k)
  <2>1. x.beam \in SUBSET SUBSET Direct /\ x.probes \in Nat /\ x.points \in Seq(Pts)
    OBVIOUS
  <2>2. new \in SUBSET SUBSET Direct /\ \A m \in new : score[m] \in Int
    <3>1. k \in Nat
      OBVIOUS
    <3> HIDE DEF V, Pts
    <3>2. QED
      BY <2>1, <3>1, LargerFacts
  <2>3. IsFiniteSet(SUBSET Direct)
    BY CellsFinite, FS_SUBSET
  <2>4. Cardinality(new) \in Nat
    <3> HIDE DEF new
    <3>1. IsFiniteSet(new)
      BY <2>2, <2>3, FS_Subset
    <3>2. QED
      BY <3>1, FS_CardinalityType
  <2>5. Cardinality(failed) \in Nat
    <3>1. IsFiniteSet(x.beam) /\ IsFiniteSet(Direct)
      BY <2>1, <2>3, CellsFinite, FS_Subset
    <3>2. IsFiniteSet(x.beam \X Direct)
      BY <3>1, FS_Product
    <3>3. failed \in SUBSET (x.beam \X Direct)
      OBVIOUS
    <3> HIDE DEF failed
    <3>4. IsFiniteSet(failed)
      BY <3>2, <3>3, FS_Subset
    <3>5. QED
      BY <3>4, FS_CardinalityType
  <2>6. Probes(k, x) \in Nat
    <3>1. Probes(k, x) = x.probes + Cardinality(new) + Cardinality(failed)
      OBVIOUS
    <3> HIDE DEF new, failed, Probes
    <3>2. QED
      BY <2>1, <2>4, <2>5, <3>1
  <2>7. ASSUME ~Stuck(k, x)
        PROVE  /\ BestMask(score, new) \in new
               /\ \A m \in new : score[BestMask(score, new)] <= score[m]
    <3>1. new # {}
      BY <2>7
    <3> HIDE DEF new
    <3>2. QED
      BY <2>2, <3>1, BestMaskFacts
  <2>8. Point(k, x).mask = BestMask(score, new) /\ Point(k, x).probes = Probes(k, x)
    OBVIOUS
  <2>9. ~Stuck(k, x) => Point(k, x) \in Pts
    <3> HIDE DEF new, failed, Probes, Stuck, V
    <3>1. Point(k, x) = [mask |-> BestMask(score, new), probes |-> Probes(k, x)]
      BY DEF new
    <3>2. ~Stuck(k, x) => BestMask(score, new) \in SUBSET Direct
      BY <2>2, <2>7
    <3> HIDE DEF Point
    <3>3. QED
      BY <2>6, <3>1, <3>2
  <2>10. BestMasks(score, new, width) \in SUBSET SUBSET Direct
    <3> HIDE DEF new
    <3>1. QED
      BY <2>2 DEF BestMasks
  <2>11. Body(k, x) \in V
    <3>1. CASE Stuck(k, x)
      <4> HIDE DEF Stuck, V, Probes, Point
      <4>1. QED
        BY <3>1
    <3>2. CASE ~Stuck(k, x)
      <4> DEFINE all == Append(x.points, Point(k, x))
                 kept == BestMasks(score, new, width)
                 spent == Probes(k, x)
      <4>1. Body(k, x) = [beam |-> kept, probes |-> spent, points |-> all]
        <5> HIDE DEF Stuck, Probes, Point
        <5>1. QED
          BY <3>2
      <4>2. all \in Seq(Pts)
        <5> HIDE DEF Point, Pts, Stuck
        <5>1. QED
          BY <2>1, <2>9, <3>2
      <4>3. kept \in SUBSET SUBSET Direct /\ spent \in Nat
        BY <2>6, <2>10
      <4> HIDE DEF Body, all, kept, spent, Pts
      <4>4. QED
        BY <4>1, <4>2, <4>3
    <3>3. QED
      BY <3>1, <3>2
  <2> HIDE DEF Probes, Pts, V, Stuck, Body
  <2>12. QED
    BY <2>7, <2>8, <2>9, <2>11
<1>3. \E g \in [0..limit -> V] : g = Table(g)
  <2>1. \A k \in 1..limit : \A x \in V : f[k][x] = Body(k, x)
    OBVIOUS
  <2> HIDE DEF V, Body, f, start, Stuck, Point, Probes, Pts
  <2>2. \A k \in 1..limit : \A x \in V : f[k][x] \in V
    <3> SUFFICES ASSUME NEW k \in 1..limit, NEW x \in V PROVE f[k][x] \in V
      OBVIOUS
    <3>1. f[k][x] = Body(k, x)
      BY <2>1
    <3>2. Body(k, x) \in V
      BY <1>2
    <3>3. QED
      BY <3>1, <3>2
  <2>4. Iterable(limit, V, start, f)
    BY <1>1, <2>2, Iterates
  <2>5. PICK g \in [0..limit -> V] : g[0] = start /\ \A i \in 1..limit : g[i] = f[i][g[i - 1]]
    BY <2>4 DEF Iterable
  <2>6. \A i \in 1..limit : g[i - 1] \in V /\ g[i] = Body(i, g[i - 1])
    BY <2>1, <2>5
  <2>7. g = Table(g)
    BY <2>5, <2>6
  <2>8. QED
    BY <2>7
<1>4. step = Table(step)
  <2> HIDE DEF Table
  <2>1. QED
    BY <1>3
<1>5. BeamPath(score, Direct, limit, width) = step[limit].points
  BY DEF BeamPath, Larger
<1> HIDE DEF step
<1>6. step[0] = start /\ \A k \in 1..limit : step[k] = Body(k, step[k - 1])
  <2> HIDE DEF Body, start
  <2>1. QED
    BY <1>4
<1>7. ASSUME NEW k \in 0..(limit - 1), NEW x \in V, Reached(score, width, k, x)
      PROVE  Reached(score, width, k + 1, Body(k + 1, x))
  <2>0. k + 1 \in 1..limit /\ k \in Nat /\ (k + 1) - 1 = k
    OBVIOUS
  <2>1. /\ x.beam \in SUBSET SUBSET Direct /\ x.points \in Seq(Pts) /\ Len(x.points) \in Nat
        /\ Len(x.points) <= k
    BY <1>7 DEF Reached
  <2>2. CASE Stuck(k + 1, x)
    <3>1. Body(k + 1, x) = x
      BY <2>2, Zenon
    <3>2. k = 0 => Len(x.points) = 0
      BY <2>1
    <3> HIDE DEF Stuck, Body
    <3>3. QED
      BY <1>7, <2>0, <2>1, <3>1, <3>2 DEF Reached
  <2>3. CASE ~Stuck(k + 1, x)
    <3> DEFINE new == Larger(score, x.beam, k + 1)
               p == Point(k + 1, x)
               y == Body(k + 1, x)
               kept == BestMasks(score, new, width)
    <3>1. Len(x.points) = k
      BY <2>1, <2>3
    <3>2. y = [beam |-> kept, probes |-> Probes(k + 1, x), points |-> Append(x.points, p)]
      <4> HIDE DEF Stuck, Point, Probes
      <4>1. QED
        BY <2>3, Zenon
    <3>3. p \in Pts /\ p.mask \in new /\ \A m \in new : score[p.mask] <= score[m]
      <4> HIDE DEF Stuck, Point, Pts, V, Body
      <4>1. QED
        BY <1>2, <2>0, <2>3
    <3>4. new \in SUBSET MeasuredMasks(score, k + 1)
      <4>1. k + 1 \in Nat
        BY <2>0
      <4>2. QED
        BY <2>1, <4>1, LargerFacts
    <3> HIDE DEF Stuck, Point, Probes, Body, new
    <3>5. y.beam = kept /\ y.points = Append(x.points, p)
      BY <3>2
    <3>6. /\ Len(y.points) = k + 1 /\ y.points[k + 1] = p
          /\ \A j \in 1..k : y.points[j] = x.points[j]
      <4> HIDE DEF Pts, p, y
      <4>1. QED
        BY <2>0, <2>1, <3>1, <3>3, <3>5
    <3> HIDE DEF p, y
    <3>7. \A j \in 1..Len(y.points) : y.points[j].mask \in MeasuredMasks(score, j)
      <4> SUFFICES ASSUME NEW j \in 1..(k + 1) PROVE y.points[j].mask \in MeasuredMasks(score, j)
        BY <3>6
      <4>1. CASE j = k + 1
        BY <3>3, <3>4, <3>6, <4>1
      <4>2. CASE j # k + 1
        <5>1. j \in 1..k /\ j \in 1..Len(x.points)
          BY <3>1, <4>2
        <5>2. QED
          BY <1>7, <3>6, <5>1 DEF Reached
      <4>3. QED
        BY <4>1, <4>2
    <3>8. CASE k = 0
      <4>1. new = MeasuredMasks(score, 1)
        <5>1. x.beam = {{}}
          BY <1>7, <3>8 DEF Reached
        <5>2. QED
          BY <3>8, <5>1, LargerOfAll DEF new
      <4>2. Least(score, 1, y.points[1].mask)
        BY <3>3, <3>6, <3>8, <4>1 DEF Least
      <4>3. Wide(score, width) => kept = MeasuredMasks(score, 1)
        <5> SUFFICES ASSUME Wide(score, width) PROVE kept = new
          BY <4>1
        <5>1. new \in SUBSET SUBSET Direct /\ \A m \in new : score[m] \in Int
          BY <4>1, MasksAreMeasured
        <5>2. new = {m \in SUBSET Direct : Cardinality(m) = 1}
          BY <4>1 DEF Wide, MeasuredMasks
        <5>3. IsFiniteSet(new)
          BY <5>1, CellsFinite, FS_SUBSET, FS_Subset
        <5>4. Cardinality(new) \in Nat /\ Cardinality(new) <= width
          BY <5>2, <5>3, FS_CardinalityType DEF Wide
        <5>5. QED
          BY <5>1, <5>4, AllKept
      <4>4. k + 1 = 1 /\ Len(y.points) = 1
        BY <3>6, <3>8
      <4>5. Reached(score, width, k + 1, y)
        BY <3>5, <3>7, <4>2, <4>3, <4>4 DEF Reached
      <4>6. QED
        BY <4>5 DEF y
    <3>9. CASE k = 1
      <4>1. Least(score, 1, y.points[1].mask)
        <5>1. 1 \in 1..k /\ Len(x.points) >= 1
          BY <3>1, <3>9
        <5>2. QED
          BY <1>7, <3>6, <5>1 DEF Reached
      <4>2. Wide(score, width) => Least(score, 2, y.points[2].mask)
        <5> SUFFICES ASSUME Wide(score, width) PROVE Least(score, 2, y.points[2].mask)
          OBVIOUS
        <5>1. x.beam = MeasuredMasks(score, 1)
          BY <1>7, <3>1, <3>9 DEF Reached
        <5>2. new = MeasuredMasks(score, 2)
          BY <3>9, <5>1, LargerOfAll DEF Wide, new
        <5>3. QED
          BY <3>3, <3>6, <3>9, <5>2 DEF Least
      <4>3. k + 1 # 0 /\ k + 1 # 1 /\ Len(y.points) = k + 1
        BY <3>6, <3>9
      <4>4. Reached(score, width, k + 1, y)
        BY <2>0, <3>7, <4>1, <4>2, <4>3 DEF Reached
      <4>5. QED
        BY <4>4 DEF y
    <3>10. CASE k > 1
      <4>1. 1 \in 1..k /\ 2 \in 1..k /\ Len(x.points) >= 2
        BY <3>1, <3>10
      <4>2. y.points[1] = x.points[1] /\ y.points[2] = x.points[2]
        BY <3>6, <4>1
      <4>3. /\ Least(score, 1, y.points[1].mask)
            /\ Wide(score, width) => Least(score, 2, y.points[2].mask)
        BY <1>7, <4>1, <4>2 DEF Reached
      <4>4. k + 1 # 0 /\ k + 1 # 1 /\ Len(y.points) = k + 1
        BY <2>0, <3>6, <3>10
      <4>5. Reached(score, width, k + 1, y)
        BY <2>0, <3>7, <4>3, <4>4 DEF Reached
      <4>6. QED
        BY <4>5 DEF y
    <3>11. QED
      BY <2>0, <3>8, <3>9, <3>10 DEF y
  <2>4. QED
    BY <2>2, <2>3
<1> DEFINE S == {k \in 0..limit : step[k] \in V /\ Reached(score, width, k, step[k])}
<1>8. 0 \in S
  <2>1. step[0] = start
    BY <1>6
  <2>2. Reached(score, width, 0, start)
    BY DEF Reached
  <2> HIDE DEF start, V
  <2>3. QED
    BY <1>1, <2>1, <2>2
<1> HIDE DEF V, Body
<1>9. ASSUME NEW k \in 0..(limit - 1), k \in S PROVE k + 1 \in S
  <2>1. k + 1 \in 1..limit /\ (k + 1) - 1 = k
    OBVIOUS
  <2>2. step[k + 1] = Body(k + 1, step[k])
    BY <1>6, <2>1
  <2>3. Body(k + 1, step[k]) \in V
    BY <1>2, <1>9, <2>1
  <2>4. Reached(score, width, k + 1, Body(k + 1, step[k]))
    BY <1>7, <1>9
  <2>5. QED
    BY <2>1, <2>2, <2>3, <2>4
<1>10. step[limit] \in V /\ Reached(score, width, limit, step[limit])
  <2> HIDE DEF S
  <2>1. \A k \in 0..limit : k \in S
    BY <1>8, <1>9, UpTo
  <2>2. QED
    BY <2>1 DEF S
<1> DEFINE path == step[limit].points
<1>11. path \in Seq(Pts) /\ Len(path) \in Nat /\ DOMAIN path = 1..Len(path)
  BY <1>10 DEF V
<1>12. PathOf(score, path)
  <2>1. \A k \in 1..Len(path) : path[k].mask \in SUBSET Direct /\ Cardinality(path[k].mask) = k
                                /\ score[path[k].mask] \in Int
    BY <1>10, MasksAreMeasured DEF Reached
  <2> HIDE DEF path
  <2>2. QED
    BY <1>11, <2>1 DEF PathOf
<1>13. /\ 1 \in DOMAIN path => Least(score, 1, path[1].mask)
       /\ Wide(score, width) /\ 2 \in DOMAIN path => Least(score, 2, path[2].mask)
  BY <1>10, <1>11 DEF Reached
<1>14. QED
  BY <1>5, <1>12, <1>13

\* The size a price per cell pays for improves on no repair by more than the
\* margin.
LEMMA JointFacts ==
    ASSUME NEW score, Landscape(score), NEW path, PathOf(score, path),
           NEW price \in Nat, NEW margin \in Nat
    PROVE  LET mask == JointMask(score, path, price, margin)
           IN  /\ mask # {} => score[{}] # NaN /\ Less(score[mask], score[{}] - margin)
               /\ mask \in SUBSET Direct
<1>1. PICK n \in Nat : /\ DOMAIN path = 1..n
                       /\ \A k \in 1..n : /\ score[path[k].mask] \in Int
                                          /\ path[k].mask \in SUBSET Direct
  BY DEF PathOf
<1> DEFINE Cost(k) == score[path[k].mask] + price * k
           good == {k \in DOMAIN path : score[{}] # NaN /\ Less(Cost(k), score[{}] - margin)}
           chosen == CHOOSE k \in good : \A j \in good :
                        Less(Cost(k), Cost(j)) \/ (Cost(k) = Cost(j) /\ k <= j)
<1>2. JointMask(score, path, price, margin) = IF good = {} THEN {} ELSE path[chosen].mask
  BY DEF JointMask
<1>3. \A k \in 1..n : Cost(k) \in Int /\ score[path[k].mask] <= Cost(k)
  <2> SUFFICES ASSUME NEW k \in 1..n
               PROVE  Cost(k) \in Int /\ score[path[k].mask] <= Cost(k)
    OBVIOUS
  <2> DEFINE s == score[path[k].mask]
  <2>1. s \in Int
    BY <1>1
  <2>2. price * k \in Nat
    OBVIOUS
  <2> HIDE DEF s
  <2>3. s + price * k \in Int /\ s <= s + price * k
    BY <2>1, <2>2
  <2>4. QED
    BY <2>3 DEF s
<1>4. good \in SUBSET (1..n) /\ \A k \in good : score[{}] # NaN /\ Less(Cost(k), score[{}] - margin)
  BY <1>1
<1> DEFINE f == [k \in good |-> Cost(k)]
<1>5. \A k \in good : f[k] = Cost(k) /\ f[k] \in Int
  BY <1>3, <1>4
<1>6. ASSUME good # {} PROVE chosen \in good
  <2>1. IsFiniteSet(good) /\ good \in SUBSET Nat
    <3>1. good \in SUBSET (1..n)
      BY <1>4
    <3> HIDE DEF good, Cost, f
    <3>1a. IsFiniteSet(1..n)
      BY FS_Interval
    <3>2. IsFiniteSet(good)
      BY <3>1, <3>1a, FS_Subset
    <3>3. \A k \in 1..n : k \in Nat
      OBVIOUS
    <3>4. QED
      BY <3>1, <3>2, <3>3
  <2> HIDE DEF f, good
  <2>2. PICK k \in good : \A j \in good : f[k] < f[j] \/ (f[k] = f[j] /\ k <= j)
    BY <1>5, <1>6, <2>1, FirstLeast
  <2> HIDE DEF Cost
  <2>3. \A j \in good : Less(Cost(k), Cost(j)) \/ (Cost(k) = Cost(j) /\ k <= j)
    <3> SUFFICES ASSUME NEW j \in good
                 PROVE  Less(Cost(k), Cost(j)) \/ (Cost(k) = Cost(j) /\ k <= j)
      OBVIOUS
    <3>1. Cost(k) \in Int /\ Cost(j) \in Int /\ NaN \notin Int
      BY <1>5, ScoresAssumption
    <3>2. f[k] = Cost(k) /\ f[j] = Cost(j)
      BY <1>5
    <3>3. QED
      BY <2>2, <3>1, <3>2 DEF Less
  <2>4. QED
    BY <2>3
<1> HIDE DEF good, chosen, Cost
<1>7. CASE good = {}
  BY <1>2, <1>7
<1>8. CASE good # {}
  <2>1. chosen \in 1..n /\ score[{}] # NaN /\ Less(Cost(chosen), score[{}] - margin)
    BY <1>4, <1>6, <1>8
  <2>2. /\ score[{}] \in Int /\ Cost(chosen) \in Int /\ score[path[chosen].mask] \in Int
        /\ score[path[chosen].mask] <= Cost(chosen) /\ NaN \notin Int
    BY <1>1, <1>3, <2>1, CellsFinite, ScoresAssumption DEF Landscape
  <2>3. Less(score[path[chosen].mask], score[{}] - margin)
    BY <2>1, <2>2 DEF Less
  <2>4. path[chosen].mask \in SUBSET Direct
    BY <1>1, <2>1
  <2>5. QED
    BY <1>2, <1>8, <2>1, <2>3, <2>4
<1>9. QED
  BY <1>7, <1>8

-----------------------------------------------------------------------------
(* Columns, corrections and the cells an oracle may take.                  *)

\* A number is given by its quotient and its remainder.
LEMMA Division ==
    ASSUME NEW b \in Nat \ {0}, NEW c \in Nat, NEW d \in Nat, c \div b = d \div b, c % b = d % b
    PROVE  c = d
<1>1. c = b * (c \div b) + (c % b)
  OBVIOUS
<1>2. d = b * (d \div b) + (d % b)
  OBVIOUS
<1>3. QED
  BY <1>1, <1>2

\* A column is of cells that can be repaired, one to a layer.
LEMMA ColumnFacts ==
    ASSUME NEW block \in Nat, NEW depth \in Nat
    PROVE  LET column == Column(block, StartLayer, depth)
           IN  /\ column \in SUBSET Eligible /\ IsFiniteSet(column)
               /\ Cardinality(column) <= depth /\ Cardinality(column) \in Nat
<1> DEFINE column == Column(block, StartLayer, depth)
           layers == StartLayer..(StartLayer + depth - 1)
           f == [c \in column |-> LayerOf(c)]
<1>0. StartLayer \in Nat /\ Blocks \in Nat \ {0} /\ Layers * Blocks - 1 \in Int
  BY ConditionAssumption
<1>1. column \in SUBSET Eligible
  <2>1. \A c \in column : c \in Cells /\ LayerOf(c) \in layers
    BY DEF Column
  <2>2. \A l \in layers : l >= StartLayer
    BY <1>0
  <2> HIDE DEF column
  <2>3. QED
    BY <2>1, <2>2 DEF Eligible
<1>2. IsFiniteSet(column) /\ column \in SUBSET Nat
  BY <1>1, CellsFinite, FS_Subset
<1>3. \A c \in column : BlockOf(c) = block /\ LayerOf(c) \in layers
  BY DEF Column
<1> HIDE DEF column
<1>4. \A c, d \in column : LayerOf(c) = LayerOf(d) => c = d
  <2> SUFFICES ASSUME NEW c \in column, NEW d \in column, LayerOf(c) = LayerOf(d) PROVE c = d
    OBVIOUS
  <2>1. c \in Nat /\ d \in Nat
    BY <1>2
  <2>2. c \div Blocks = d \div Blocks /\ c % Blocks = d % Blocks
    BY <1>3 DEF LayerOf, BlockOf
  <2>3. QED
    BY <1>0, <2>1, <2>2, Division
<1>5. f \in Injection(column, layers)
  BY <1>3, <1>4 DEF Injection, IsInjective
<1>6. IsFiniteSet(layers) /\ Cardinality(layers) = depth
  <2>1. /\ StartLayer \in Int /\ StartLayer + depth - 1 \in Int
        /\ IF StartLayer + depth - 1 >= StartLayer
           THEN (StartLayer + depth - 1) - StartLayer + 1 = depth ELSE depth = 0
    BY <1>0
  <2>2. QED
    BY <2>1, FS_Interval
<1>7. Cardinality(column) <= depth
  <2> HIDE DEF f, layers
  <2>1. QED
    BY <1>5, <1>6, FS_Injection
<1>8. Cardinality(column) \in Nat
  BY <1>2, FS_CardinalityType
<1>9. QED
  BY <1>1, <1>2, <1>7, <1>8 DEF column

\* Rates are compared as quotients are: what gains as much per cell as what
\* gains as much as a third gains as much as the third.
LEMMA Quotients ==
    ASSUME NEW g \in Int, NEW h \in Int, NEW k \in Int,
           NEW a \in Nat \ {0}, NEW b \in Nat \ {0}, NEW c \in Nat \ {0},
           g * b >= h * a, h * c >= k * b
    PROVE  /\ g * c >= k * a
           /\ g * b > h * a \/ h * c > k * b => g * c > k * a
<1>1. /\ (g * b) * c >= (h * a) * c /\ (h * c) * a >= (k * b) * a
      /\ g * b > h * a => (g * b) * c > (h * a) * c
      /\ h * c > k * b => (h * c) * a > (k * b) * a
  <2>1. \A x, y \in Int : \A n \in Nat \ {0} : (x >= y => x * n >= y * n) /\ (x > y => x * n > y * n)
    OBVIOUS
  <2>2. g * b \in Int /\ h * a \in Int /\ h * c \in Int /\ k * b \in Int
    OBVIOUS
  <2>3. QED
    BY <2>1, <2>2
<1>2. (g * b) * c = (g * c) * b /\ (h * a) * c = (h * c) * a /\ (k * b) * a = (k * a) * b
  OBVIOUS
<1>3. (g * c) * b >= (k * a) * b
      /\ (g * b > h * a \/ h * c > k * b => (g * c) * b > (k * a) * b)
  <2> DEFINE x == (g * b) * c
             y == (h * a) * c
             z == (k * b) * a
  <2>1. x \in Int /\ y \in Int /\ z \in Int
    OBVIOUS
  <2>2. x >= y /\ y >= z /\ (g * b > h * a => x > y) /\ (h * c > k * b => y > z)
    BY <1>1, <1>2
  <2> HIDE DEF x, y, z
  <2>3. x >= z /\ (g * b > h * a \/ h * c > k * b => x > z)
    BY <2>1, <2>2
  <2>4. QED
    BY <1>2, <2>3 DEF x, z
<1>4. QED
  <2>1. \A x, y \in Int : \A n \in Nat \ {0} : (x * n >= y * n => x >= y) /\ (x * n > y * n => x > y)
    OBVIOUS
  <2>2. g * c \in Int /\ k * a \in Int
    OBVIOUS
  <2>3. QED
    BY <1>3, <2>1, <2>2

\* How deep a column is best recomputed is a number of layers.
LEMMA ProfileFacts ==
    ASSUME NEW kl, \A m \in SUBSET Eligible : kl[m] \in Int, NEW block \in Nat
    PROVE  LET p == Profile(kl, block, StartLayer)
           IN  p.block = block /\ p.depth \in Nat /\ p.gain \in Int
<1> DEFINE depths == 0..(Layers - StartLayer)
           f == [d \in depths |-> kl[Column(block, StartLayer, d)]]
           IsBest(d) == \A e \in depths :
                    Less(kl[Column(block, StartLayer, d)], kl[Column(block, StartLayer, e)]) \/
                    (kl[Column(block, StartLayer, d)] = kl[Column(block, StartLayer, e)] /\ d <= e)
           chosen == CHOOSE d \in depths : IsBest(d)
<1>1. depths \in SUBSET Nat /\ IsFiniteSet(depths) /\ 0 \in depths
  <2>1. Layers - StartLayer \in Nat
    BY ConditionAssumption
  <2>2. QED
    BY <2>1, FS_Interval
<1>2. \A d \in depths : d \in Nat
  BY <1>1
<1> HIDE DEF depths
<1>3. \A d \in depths : kl[Column(block, StartLayer, d)] \in Int
  BY <1>2, ColumnFacts
<1>4. \A d \in depths : f[d] = kl[Column(block, StartLayer, d)]
  OBVIOUS
<1>5. PICK d \in depths : \A e \in depths : f[d] < f[e] \/ (f[d] = f[e] /\ d <= e)
  <2> HIDE DEF f
  <2>1. QED
    BY <1>1, <1>3, <1>4, FirstLeast
<1>6. IsBest(d)
  BY <1>3, <1>4, <1>5, ScoresAssumption DEF Less
<1>7. chosen \in depths
  <2> HIDE DEF IsBest
  <2>1. QED
    BY <1>6
<1>8. kl[{}] \in Int /\ kl[Column(block, StartLayer, chosen)] \in Int
  BY <1>3, <1>7
<1>9. Profile(kl, block, StartLayer) =
        [block |-> block, depth |-> chosen, gain |-> kl[{}] - kl[Column(block, StartLayer, chosen)]]
  BY DEF Profile, depths
<1> HIDE DEF chosen
<1>10. QED
  BY <1>2, <1>7, <1>8, <1>9

\* The profiles of token blocks.
ProfilesOf(profiles) ==
    /\ IsFiniteSet(profiles)
    /\ \A p \in profiles : p.block \in Nat /\ p.depth \in Nat /\ p.gain \in Int
    /\ \A p, q \in profiles : p.block = q.block => p = q

\* Any two of them are in one order, for the blocks differ.
LEMMA ProfilesOrdered ==
    ASSUME NEW profiles, ProfilesOf(profiles)
    PROVE  /\ \A p, q \in profiles : p = q \/ Ahead(p, q) \/ Ahead(q, p)
           /\ \A p, q, r \in profiles : Ahead(p, q) /\ Ahead(q, r) => Ahead(p, r)
<1> DEFINE D(y) == IF y.depth = 0 THEN 1 ELSE y.depth
           Rate(x, y) == x.gain * D(y)
<1>1. \A p \in profiles : D(p) \in Nat \ {0} /\ p.gain \in Int /\ p.block \in Nat
  BY DEF ProfilesOf
<1>2. \A p, q : Ahead(p, q) <=>
            \/ Rate(p, q) > Rate(q, p)
            \/ Rate(p, q) = Rate(q, p) /\ p.gain > q.gain
            \/ Rate(p, q) = Rate(q, p) /\ p.gain = q.gain /\ p.block < q.block
  BY DEF Ahead
<1>3. \A p, q \in profiles : Rate(p, q) \in Int
  <2> SUFFICES ASSUME NEW p \in profiles, NEW q \in profiles PROVE Rate(p, q) \in Int
    OBVIOUS
  <2>1. D(q) \in Int /\ p.gain \in Int
    BY <1>1
  <2> HIDE DEF D
  <2>2. QED
    BY <2>1
<1>4. \A p, q, r \in profiles :
        Rate(p, q) >= Rate(q, p) /\ Rate(q, r) >= Rate(r, q) =>
            /\ Rate(p, r) >= Rate(r, p)
            /\ Rate(p, q) > Rate(q, p) \/ Rate(q, r) > Rate(r, q) => Rate(p, r) > Rate(r, p)
  <2> SUFFICES ASSUME NEW p \in profiles, NEW q \in profiles, NEW r \in profiles,
                      Rate(p, q) >= Rate(q, p), Rate(q, r) >= Rate(r, q)
               PROVE  /\ Rate(p, r) >= Rate(r, p)
                      /\ Rate(p, q) > Rate(q, p) \/ Rate(q, r) > Rate(r, q) =>
                            Rate(p, r) > Rate(r, p)
    BY <1>3
  <2>1. /\ D(p) \in Nat \ {0} /\ D(q) \in Nat \ {0} /\ D(r) \in Nat \ {0}
        /\ p.gain \in Int /\ q.gain \in Int /\ r.gain \in Int
    BY <1>1
  <2> HIDE DEF D
  <2>2. QED
    BY <2>1, Quotients
<1>5. \A p, q \in profiles : p = q \/ p.block < q.block \/ q.block < p.block
  BY <1>1 DEF ProfilesOf
<1> HIDE DEF D, Rate
<1>6. \A p, q \in profiles : p = q \/ Ahead(p, q) \/ Ahead(q, p)
  <2> SUFFICES ASSUME NEW p \in profiles, NEW q \in profiles, p # q
               PROVE  Ahead(p, q) \/ Ahead(q, p)
    OBVIOUS
  <2>1. /\ Rate(p, q) \in Int /\ Rate(q, p) \in Int /\ p.gain \in Int /\ q.gain \in Int
        /\ p.block < q.block \/ q.block < p.block
    BY <1>1, <1>3, <1>5
  <2>2. QED
    BY <1>2, <2>1
<1>7. \A p, q, r \in profiles : Ahead(p, q) /\ Ahead(q, r) => Ahead(p, r)
  <2> SUFFICES ASSUME NEW p \in profiles, NEW q \in profiles, NEW r \in profiles,
                      Ahead(p, q), Ahead(q, r)
               PROVE  Ahead(p, r)
    OBVIOUS
  <2>1. /\ Rate(p, q) \in Int /\ Rate(q, p) \in Int /\ Rate(q, r) \in Int /\ Rate(r, q) \in Int
        /\ Rate(p, r) \in Int /\ Rate(r, p) \in Int
        /\ p.gain \in Int /\ q.gain \in Int /\ r.gain \in Int
        /\ p.block \in Nat /\ q.block \in Nat /\ r.block \in Nat
    BY <1>1, <1>3
  <2>2. Rate(p, q) >= Rate(q, p) /\ Rate(q, r) >= Rate(r, q)
    BY <1>2, <2>1
  <2>3. /\ Rate(p, r) >= Rate(r, p)
        /\ Rate(p, q) > Rate(q, p) \/ Rate(q, r) > Rate(r, q) => Rate(p, r) > Rate(r, p)
    BY <1>4, <2>2
  <2>4. CASE Rate(p, q) > Rate(q, p) \/ Rate(q, r) > Rate(r, q)
    BY <1>2, <2>3, <2>4
  <2>5. CASE Rate(p, q) = Rate(q, p) /\ Rate(q, r) = Rate(r, q)
    <3>1. /\ p.gain > q.gain \/ (p.gain = q.gain /\ p.block < q.block)
          /\ q.gain > r.gain \/ (q.gain = r.gain /\ q.block < r.block)
      BY <1>2, <2>1, <2>5
    <3>2. p.gain > r.gain \/ (p.gain = r.gain /\ p.block < r.block)
      BY <2>1, <3>1
    <3>3. QED
      BY <1>2, <2>1, <2>3, <3>2
  <2>6. QED
    BY <2>1, <2>2, <2>4, <2>5
<1>8. QED
  BY <1>6, <1>7

\* The columns taken in turn stay within the budget.
LEMMA FrontierFacts ==
    ASSUME NEW profiles, ProfilesOf(profiles), NEW budget \in Nat
    PROVE  LET mask == FrontierMask(profiles, StartLayer, budget)
           IN  mask \in SUBSET Eligible /\ Cardinality(mask) <= budget
<1> DEFINE n == Cardinality(profiles)
           Fits(p, mask) == p.depth > 0 /\ p.depth <= budget - Cardinality(mask) /\ p.gain > 0
           First(left) == CHOOSE p \in left : \A q \in left : q = p \/ Ahead(p, q)
           Grown(p, mask) ==
                IF Fits(p, mask) THEN mask \cup Column(p.block, StartLayer, p.depth) ELSE mask
           Body(x) == [left |-> x.left \ {First(x.left)}, mask |-> Grown(First(x.left), x.mask)]
           start == [left |-> profiles, mask |-> {}]
           V == [left : SUBSET profiles, mask : SUBSET Cells]
           Table(g) == [k \in 0..n |-> IF k = 0 THEN start ELSE Body(g[k - 1])]
           step == [k \in 1..n |-> [x \in V |-> Body(x)]]
           path == CHOOSE g : g = Table(g)
<1>0. n \in Nat
  BY FS_CardinalityType DEF ProfilesOf
<1>1. \A x \in V : Body(x) \in V
  <2> SUFFICES ASSUME NEW x \in V PROVE Body(x) \in V
    OBVIOUS
  <2>1. \A p : Grown(p, x.mask) \in SUBSET Cells
    BY DEF Column
  <2> HIDE DEF Grown, First
  <2>2. QED
    BY <2>1
<1>2. \E g \in [0..n -> V] : g = Table(g)
  <2>1. \A k \in 1..n : \A x \in V : step[k][x] = Body(x)
    OBVIOUS
  <2>2. start \in V
    OBVIOUS
  <2> HIDE DEF V, Body, step, start, n
  <2>3. \A k \in 1..n : \A x \in V : step[k][x] \in V
    BY <1>1, <2>1
  <2>4. Iterable(n, V, start, step)
    BY <1>0, <2>2, <2>3, Iterates
  <2>5. PICK g \in [0..n -> V] : g[0] = start /\ \A i \in 1..n : g[i] = step[i][g[i - 1]]
    BY <2>4 DEF Iterable
  <2>6. \A i \in 1..n : g[i] = Body(g[i - 1])
    <3> SUFFICES ASSUME NEW i \in 1..n PROVE g[i] = Body(g[i - 1])
      OBVIOUS
    <3>1. i - 1 \in 0..n
      BY <1>0
    <3>2. g[i - 1] \in V
      BY <3>1
    <3>3. QED
      BY <2>1, <2>5, <3>2
  <2>7. g = Table(g)
    BY <2>5, <2>6
  <2>8. QED
    BY <2>7
<1>3. path = Table(path)
  <2> HIDE DEF Table
  <2>1. QED
    BY <1>2
<1>4. FrontierMask(profiles, StartLayer, budget) = path[n].mask
  BY DEF FrontierMask
<1> HIDE DEF path
<1>5. path[0] = start /\ \A k \in 1..n : path[k] = Body(path[k - 1])
  <2> HIDE DEF Body, start, n
  <2>1. 0 \in 0..n /\ \A k \in 1..n : k \in 0..n /\ k # 0
    BY <1>0
  <2>2. QED
    BY <1>3, <2>1
<1> DEFINE S == {k \in 0..n :
                    /\ path[k].left \in SUBSET profiles /\ Cardinality(path[k].left) = n - k
                    /\ path[k].mask \in SUBSET Eligible /\ Cardinality(path[k].mask) <= budget}
<1>6. 0 \in S
  <2>1. path[0].left = profiles /\ path[0].mask = {}
    BY <1>5
  <2>2. Cardinality({}) = 0
    BY FS_EmptySet
  <2> HIDE DEF n
  <2>3. Cardinality(profiles) = n - 0
    BY <1>0 DEF n
  <2>4. QED
    BY <1>0, <2>1, <2>2, <2>3
<1>7. ASSUME NEW k \in 0..(n - 1), k \in S PROVE k + 1 \in S
  <2> DEFINE left == path[k].left
             mask == path[k].mask
             p == First(left)
  <2>1. /\ left \in SUBSET profiles /\ Cardinality(left) = n - k
        /\ mask \in SUBSET Eligible /\ Cardinality(mask) <= budget
    BY <1>7
  <2>2. path[k + 1].left = left \ {p} /\ path[k + 1].mask = Grown(p, mask)
    <3> HIDE DEF n, First, Grown
    <3>1. k + 1 \in 1..n /\ (k + 1) - 1 = k
      BY <1>0
    <3>2. path[k + 1] = Body(path[k])
      BY <1>5, <3>1
    <3>3. QED
      BY <3>2
  <2> HIDE DEF left, mask, Grown
  <2>3. IsFiniteSet(left) /\ left # {}
    <3>1. IsFiniteSet(left)
      BY <2>1, FS_Subset DEF ProfilesOf
    <3>2. Cardinality(left) # 0
      <4> HIDE DEF n
      <4>1. QED
        BY <1>0, <2>1
    <3>3. QED
      BY <3>1, <3>2, FS_EmptySet
  <2>4. p \in left
    <3> DEFINE R == {x \in left \X left : Ahead(x[1], x[2])}
    <3>1. \A x, y \in left : <<x, y>> \in R <=> Ahead(x, y)
      OBVIOUS
    <3> HIDE DEF R
    <3>2. Ordered(left, R)
      <4>1. /\ \A x, y \in left : x = y \/ Ahead(x, y) \/ Ahead(y, x)
            /\ \A x, y, z \in left : Ahead(x, y) /\ Ahead(y, z) => Ahead(x, z)
        BY <2>1, ProfilesOrdered
      <4>2. QED
        BY <3>1, <4>1 DEF Ordered
    <3>3. PICK m \in left : \A y \in left : y = m \/ <<m, y>> \in R
      BY <2>3, <3>2, FirstOne
    <3>4. \A y \in left : y = m \/ Ahead(m, y)
      BY <3>1, <3>3
    <3>5. QED
      BY <3>4
  <2> HIDE DEF p
  <2>5. Cardinality(left \ {p}) = n - (k + 1) /\ left \ {p} \in SUBSET profiles
    <3>1. Cardinality(left \ {p}) = Cardinality(left) - 1
      BY <2>3, <2>4, FS_RemoveElement
    <3> HIDE DEF n
    <3>2. QED
      BY <1>0, <2>1, <3>1
  <2>6. p.block \in Nat /\ p.depth \in Nat
    BY <2>1, <2>4 DEF ProfilesOf
  <2>7. Grown(p, mask) \in SUBSET Eligible /\ Cardinality(Grown(p, mask)) <= budget
    <3>1. CASE ~Fits(p, mask)
      BY <2>1, <3>1 DEF Grown
    <3>2. CASE Fits(p, mask)
      <4> DEFINE column == Column(p.block, StartLayer, p.depth)
      <4>1. /\ column \in SUBSET Eligible /\ IsFiniteSet(column)
            /\ Cardinality(column) <= p.depth /\ Cardinality(column) \in Nat
        BY <2>6, ColumnFacts
      <4>2. Grown(p, mask) = mask \cup column
        BY <3>2 DEF Grown
      <4>3. IsFiniteSet(mask)
        BY <2>1, CellsFinite, FS_Subset
      <4>4. Cardinality(mask) \in Nat
        BY <4>3, FS_CardinalityType
      <4> HIDE DEF column
      <4>5. Cardinality(mask \cup column) <= Cardinality(mask) + Cardinality(column)
        <5>1. mask \cap column \in SUBSET mask
          OBVIOUS
        <5>2. Cardinality(mask \cap column) \in Nat
          BY <4>3, <5>1, FS_Subset, FS_CardinalityType
        <5>3. Cardinality(mask \cup column)
                = Cardinality(mask) + Cardinality(column) - Cardinality(mask \cap column)
          BY <4>1, <4>3, FS_Union
        <5>4. QED
          BY <4>1, <4>4, <5>2, <5>3
      <4>6. Cardinality(mask \cup column) \in Nat
        BY <4>1, <4>3, FS_Union, FS_CardinalityType
      <4>7. Cardinality(mask) + Cardinality(column) <= budget
        BY <2>6, <3>2, <4>1, <4>4
      <4>8. QED
        BY <2>1, <4>1, <4>2, <4>4, <4>5, <4>6, <4>7
    <3>3. QED
      BY <3>1, <3>2
  <2>8. k + 1 \in 0..n
    <3> HIDE DEF n
    <3>1. QED
      BY <1>0
  <2> HIDE DEF n
  <2>9. QED
    BY <2>2, <2>5, <2>7, <2>8
<1>8. n \in S
  <2> HIDE DEF S, n
  <2>1. \A k \in 0..n : k \in S
    BY <1>0, <1>6, <1>7, UpTo
  <2>2. QED
    BY <1>0, <2>1
<1>9. QED
  BY <1>4, <1>8

\* What a cell takes off the energy of its layer is a number.
LEMMA MarginalFacts ==
    ASSUME NEW left, IsFiniteSet(left), NEW vector, \A c \in left : vector[c] \in Int,
           NEW d, vector[d] \in Int
    PROVE  Marginal(vector, left, d) \in Int
<1> DEFINE cells == {c \in left : LayerOf(c) = LayerOf(d)}
           f == [c \in cells |-> vector[c]]
<1>1. IsFiniteSet(cells)
  BY FS_Subset
<1>2. \A c \in cells : f[c] \in Int
  OBVIOUS
<1>3. DOMAIN f = cells
  OBVIOUS
<1>4. Residual(vector, left, LayerOf(d)) = Total(f)
  BY DEF Residual
<1> HIDE DEF f, cells
<1>5. Total(f) \in Int
  BY <1>1, <1>2, <1>3, SumFacts
<1> DEFINE t == Total(f)
           v == vector[d]
<1>6. t \in Int /\ v \in Int
  BY <1>5
<1> HIDE DEF t, v
<1>7. 2 * t * v - v * v \in Int
  BY <1>6
<1>8. QED
  BY <1>4, <1>7 DEF Marginal, t, v

\* The members of a sequence are no more than its length.
LEMMA MembersOf ==
    ASSUME NEW S, NEW s \in Seq(S)
    PROVE  IsFiniteSet(ToSet(s)) /\ Cardinality(ToSet(s)) <= Len(s) /\ ToSet(s) \in SUBSET S
           /\ Cardinality(ToSet(s)) \in Nat
<1>1. SubSeq(s, 1, Len(s)) = s
  OBVIOUS
<1>2. ToSet(s) = FirstOf(s, Len(s))
  BY <1>1 DEF FirstOf
<1>3. Len(s) \in Nat
  OBVIOUS
<1>4. IsFiniteSet(ToSet(s)) /\ Cardinality(ToSet(s)) <= Len(s) /\ ToSet(s) \in SUBSET S
  BY <1>2, <1>3, FirstOfFacts
<1>5. QED
  BY <1>4, FS_CardinalityType

\* The signed order is one of the cells that have a correction.
LEMMA SignedOrderFacts ==
    ASSUME NEW available \in SUBSET Nat, IsFiniteSet(available),
           NEW vector, \A c \in available : vector[c] \in Int
    PROVE  SignedOrder(vector, available) \in Seq(available)
<1> DEFINE n == Cardinality(available)
           IsBest(left, c) == \A d \in left :
                            \/ Marginal(vector, left, c) > Marginal(vector, left, d)
                            \/ Marginal(vector, left, c) = Marginal(vector, left, d) /\ c <= d
           First(left) == CHOOSE c \in left : IsBest(left, c)
           Body(p) == Append(p, First(available \ ToSet(p)))
           V == Seq(available \cup {First(left) : left \in SUBSET available})
           Table(g) == [k \in 0..n |-> IF k = 0 THEN <<>> ELSE Body(g[k - 1])]
           step == [k \in 1..n |-> [x \in V |-> Body(x)]]
           path == CHOOSE g : g = Table(g)
<1>0. n \in Nat
  BY FS_CardinalityType
<1>1. \A x \in V : Body(x) \in V
  <2> SUFFICES ASSUME NEW x \in V PROVE Body(x) \in V
    OBVIOUS
  <2>1. available \ ToSet(x) \in SUBSET available
    OBVIOUS
  <2> HIDE DEF First
  <2>2. First(available \ ToSet(x)) \in available \cup {First(left) : left \in SUBSET available}
    BY <2>1
  <2>3. QED
    BY <2>2
<1>2. \E g \in [0..n -> V] : g = Table(g)
  <2>1. \A k \in 1..n : \A x \in V : step[k][x] = Body(x)
    OBVIOUS
  <2>2. <<>> \in V
    OBVIOUS
  <2> HIDE DEF V, Body, step, n
  <2>3. \A k \in 1..n : \A x \in V : step[k][x] \in V
    BY <1>1, <2>1
  <2>4. Iterable(n, V, <<>>, step)
    BY <1>0, <2>2, <2>3, Iterates
  <2>5. PICK g \in [0..n -> V] : g[0] = <<>> /\ \A i \in 1..n : g[i] = step[i][g[i - 1]]
    BY <2>4 DEF Iterable
  <2>6. \A i \in 1..n : g[i] = Body(g[i - 1])
    <3> SUFFICES ASSUME NEW i \in 1..n PROVE g[i] = Body(g[i - 1])
      OBVIOUS
    <3>1. i - 1 \in 0..n
      BY <1>0
    <3>2. g[i - 1] \in V
      BY <3>1
    <3>3. QED
      BY <2>1, <2>5, <3>2
  <2>7. g = Table(g)
    BY <2>5, <2>6
  <2>8. QED
    BY <2>7
<1>3. path = Table(path)
  <2> HIDE DEF Table
  <2>1. QED
    BY <1>2
<1>4. SignedOrder(vector, available) = path[n]
  BY DEF SignedOrder
<1> HIDE DEF path
<1>5. path[0] = <<>> /\ \A k \in 1..n : path[k] = Body(path[k - 1])
  <2> HIDE DEF Body, n
  <2>1. 0 \in 0..n /\ \A k \in 1..n : k \in 0..n /\ k # 0
    BY <1>0
  <2>2. QED
    BY <1>3, <2>1
<1>6. ASSUME NEW left \in SUBSET available, left # {} PROVE First(left) \in left
  <2> DEFINE f == [c \in left |-> -Marginal(vector, left, c)]
  <2>1. IsFiniteSet(left) /\ left \in SUBSET Nat
    BY FS_Subset
  <2>2. \A c \in left : Marginal(vector, left, c) \in Int
    BY <2>1, MarginalFacts
  <2>3. \A c \in left : f[c] = -Marginal(vector, left, c) /\ f[c] \in Int
    BY <2>2
  <2>4. PICK c \in left : \A d \in left : f[c] < f[d] \/ (f[c] = f[d] /\ c <= d)
    <3> HIDE DEF f
    <3>1. QED
      BY <1>6, <2>1, <2>3, FirstLeast
  <2>5. IsBest(left, c)
    <3> HIDE DEF f
    <3>1. QED
      BY <2>2, <2>3, <2>4
  <2> HIDE DEF IsBest
  <2>6. QED
    BY <2>5
<1> HIDE DEF First
<1> DEFINE S == {k \in 0..n : path[k] \in Seq(available) /\ Len(path[k]) = k}
<1>7. 0 \in S
  <2>1. 0 \in 0..n
    BY <1>0
  <2>2. <<>> \in Seq(available) /\ Len(<<>>) = 0
    OBVIOUS
  <2>3. path[0] = <<>>
    BY <1>5
  <2> HIDE DEF n
  <2>4. QED
    BY <2>1, <2>2, <2>3
<1>8. ASSUME NEW k \in 0..(n - 1), k \in S PROVE k + 1 \in S
  <2> DEFINE p == path[k]
             left == available \ ToSet(p)
  <2>1. p \in Seq(available) /\ Len(p) = k
    BY <1>8
  <2>2. path[k + 1] = Append(p, First(left))
    <3> HIDE DEF n
    <3>1. k + 1 \in 1..n /\ (k + 1) - 1 = k
      BY <1>0
    <3>2. path[k + 1] = Body(path[k])
      BY <1>5, <3>1
    <3>3. QED
      BY <3>2
  <2> HIDE DEF p
  <2>3. left # {}
    <3>1. Cardinality(ToSet(p)) <= k /\ Cardinality(ToSet(p)) \in Nat /\ ToSet(p) \in SUBSET available
      BY <2>1, MembersOf
    <3>2. ToSet(p) # available
      <4>1. k < n
        BY <1>0
      <4>2. QED
        BY <3>1, <4>1
    <3>3. QED
      BY <3>1, <3>2
  <2>4. First(left) \in available
    BY <1>6, <2>3
  <2> HIDE DEF left
  <2>5. Append(p, First(left)) \in Seq(available) /\ Len(Append(p, First(left))) = k + 1
    BY <2>1, <2>4
  <2>6. k + 1 \in 0..n
    BY <1>0
  <2> HIDE DEF n
  <2>7. QED
    BY <2>2, <2>5, <2>6
<1>9. n \in S
  <2> HIDE DEF S, n
  <2>1. \A k \in 0..n : k \in S
    BY <1>0, <1>7, <1>8, UpTo
  <2>2. QED
    BY <1>0, <2>1
<1>10. QED
  BY <1>4, <1>9

\* The prefix that a price pays for is of the order.
LEMMA BestPrefixFacts ==
    ASSUME NEW gains, NEW n \in Nat, Len(gains) = n, \A i \in 1..n : gains[i] \in Int,
           NEW energy \in Int, NEW price \in Int
    PROVE  BestPrefix(gains, energy, price) \in Nat
<1> DEFINE Spent(k) == Total([i \in 1..k |-> gains[i]])
           left(k) == Max({0, energy - Spent(k)})
           objective(k) == 1000 * left(k) + price * energy * k
           sizes == 0..n
           f == [k \in sizes |-> objective(k)]
           IsBest(k) == \A j \in 0..Len(gains) :
                        objective(k) < objective(j) \/ (objective(k) = objective(j) /\ k <= j)
<1>1. \A k \in 0..n : Spent(k) \in Int
  <2> SUFFICES ASSUME NEW k \in 0..n PROVE Spent(k) \in Int
    OBVIOUS
  <2> DEFINE g == [i \in 1..k |-> gains[i]]
  <2>1. DOMAIN g = 1..k /\ IsFiniteSet(1..k) /\ \A i \in 1..k : g[i] \in Int
    BY FS_Interval
  <2> HIDE DEF g
  <2>2. Total(g) \in Int
    BY <2>1, SumFacts
  <2>3. QED
    BY <2>2 DEF g
<1> HIDE DEF Spent
<1>2. \A k \in 0..n : left(k) \in Int
  <2> SUFFICES ASSUME NEW k \in 0..n PROVE left(k) \in Int
    OBVIOUS
  <2> DEFINE S == {0, energy - Spent(k)}
  <2>1. S \in SUBSET Int /\ S # {}
    BY <1>1
  <2>2. IsFiniteSet(S)
    <3>1. S = {0} \cup {energy - Spent(k)}
      OBVIOUS
    <3> HIDE DEF S
    <3>2. QED
      BY <3>1, FS_Singleton, FS_Union
  <2> HIDE DEF S
  <2>3. Max(S) \in Int
    BY <2>1, <2>2, MaxInSet
  <2>4. QED
    BY <2>3 DEF S
<1> HIDE DEF left
<1>3. \A k \in 0..n : objective(k) \in Int
  <2> SUFFICES ASSUME NEW k \in 0..n PROVE objective(k) \in Int
    OBVIOUS
  <2>1. left(k) \in Int /\ k \in Int
    BY <1>2
  <2>2. price * energy \in Int
    OBVIOUS
  <2>3. price * energy * k \in Int
    BY <2>1, <2>2
  <2>4. QED
    BY <2>1, <2>3
<1>4. sizes \in SUBSET Nat /\ IsFiniteSet(sizes) /\ sizes # {}
  <2>1. 0 \in Int /\ n \in Int
    OBVIOUS
  <2>2. IsFiniteSet(0..n)
    BY <2>1, FS_Interval
  <2>3. QED
    BY <2>2
<1>5. \A k \in sizes : f[k] = objective(k)
  OBVIOUS
<1>6. PICK k \in sizes : \A j \in sizes : f[k] < f[j] \/ (f[k] = f[j] /\ k <= j)
  <2> HIDE DEF f, objective
  <2>1. \A k \in sizes : f[k] \in Int
    BY <1>3, <1>5
  <2> HIDE DEF sizes
  <2>2. QED
    BY <1>4, <2>1, FirstLeast
<1>7. IsBest(k)
  <2> HIDE DEF f, objective
  <2>1. QED
    BY <1>5, <1>6
<1>8. BestPrefix(gains, energy, price) = CHOOSE m \in sizes : IsBest(m)
  <2> HIDE DEF IsBest
  <2>1. QED
    BY DEF BestPrefix, left, Spent, IsBest
<1> HIDE DEF IsBest, sizes
<1>9. (CHOOSE m \in sizes : IsBest(m)) \in sizes
  BY <1>6, <1>7
<1>10. QED
  BY <1>4, <1>8, <1>9

\* The candidates of the oracle are as many as it asked for, or all there are.
LEMMA CandidatePoolFacts ==
    ASSUME NEW allowed \in SUBSET Nat, IsFiniteSet(allowed), NEW kv, NEW attention,
           \A c \in allowed : kv[c] \in Int /\ attention[c] \in Int, NEW limit \in Nat
    PROVE  LET pool == CandidatePool(kv, attention, allowed, limit)
           IN  /\ pool \in SUBSET allowed /\ IsFiniteSet(pool)
               /\ \A n \in Nat : n <= limit /\ n <= Cardinality(allowed) => n <= Cardinality(pool)
<1> DEFINE most == IF limit < Cardinality(allowed) THEN limit ELSE Cardinality(allowed)
           each == IF most \div 2 > 1 THEN most \div 2 ELSE 1
           union == TopMask(kv, allowed, each) \cup TopMask(attention, allowed, each)
           f == [c \in allowed |-> kv[c] + attention[c]]
           pool == CandidatePool(kv, attention, allowed, limit)
<1>0. Cardinality(allowed) \in Nat
  BY FS_CardinalityType
<1>1. most \in Nat /\ \A n \in Nat : n <= limit /\ n <= Cardinality(allowed) => n <= most
  BY <1>0
<1>2. union \in SUBSET allowed
  BY TopMaskInside
<1>3. pool = IF Cardinality(union) < most THEN union \cup TopMask(f, allowed, most) ELSE union
  BY DEF CandidatePool
<1> HIDE DEF union, pool
<1>4. pool \in SUBSET allowed
  BY <1>2, <1>3, TopMaskInside
<1>5. IsFiniteSet(pool) /\ IsFiniteSet(union)
  BY <1>2, <1>4, FS_Subset
<1>6. Cardinality(TopMask(f, allowed, most)) = most
  <2>1. \A c \in allowed : f[c] \in Int
    OBVIOUS
  <2>2. most <= Cardinality(allowed)
    BY <1>0
  <2> HIDE DEF f, most
  <2>3. Cardinality(TopMask(f, allowed, most))
            = IF most < Cardinality(allowed) THEN most ELSE Cardinality(allowed)
    BY <1>1, <2>1, TopMaskSize
  <2>4. QED
    BY <1>0, <1>1, <2>2, <2>3
<1>7. most <= Cardinality(pool)
  <2> HIDE DEF f, most
  <2>0. Cardinality(pool) \in Nat /\ Cardinality(union) \in Nat
    BY <1>5, FS_CardinalityType
  <2>1. CASE Cardinality(union) < most
    <3>1. TopMask(f, allowed, most) \in SUBSET pool
      BY <1>3, <2>1
    <3>2. Cardinality(TopMask(f, allowed, most)) <= Cardinality(pool)
      BY <1>5, <3>1, FS_Subset
    <3>3. QED
      BY <1>6, <3>2
  <2>2. CASE ~(Cardinality(union) < most)
    BY <1>1, <1>3, <2>0, <2>2
  <2>3. QED
    BY <2>1, <2>2
<1>8. Cardinality(pool) \in Nat
  BY <1>5, FS_CardinalityType
<1>9. \A n \in Nat : n <= limit /\ n <= Cardinality(allowed) => n <= Cardinality(pool)
  <2> HIDE DEF most
  <2>1. QED
    BY <1>1, <1>7, <1>8
<1>10. QED
  BY <1>4, <1>5, <1>9 DEF pool

-----------------------------------------------------------------------------
(* The paths of a condition.                                               *)

\* Every search is for a size of one cell or more.
LEMMA CountsFacts ==
    ASSUME Setting, Direct # {}
    PROVE  SearchCounts \in SUBSET (Nat \ {0}) /\ Max(SearchCounts) \in Nat
<1>1. options.counts # {} /\ options.counts \subseteq 1..Cardinality(Eligible)
  BY OptionsAssumption DEF Setting
<1>2. Cardinality(Eligible) \in Nat
  BY CellsFinite, FS_CardinalityType
<1>3. \A n \in options.counts : AtMost(n) \in 1..Cardinality(Direct)
  BY <1>1, <1>2, DirectSize DEF AtMost
<1>4. SearchCounts \in SUBSET (1..Cardinality(Direct)) /\ SearchCounts # {}
  BY <1>1, <1>3 DEF SearchCounts
<1>5. IsFiniteSet(1..Cardinality(Direct))
  BY DirectSize, FS_Interval
<1>6. IsFiniteSet(SearchCounts) /\ SearchCounts \in SUBSET Int
  <2>1. IsFiniteSet(SearchCounts)
    BY <1>4, <1>5, FS_Subset
  <2>2. \A n \in SearchCounts : n \in Int
    BY <1>4, DirectSize
  <2>3. QED
    BY <2>1, <2>2
<1>7. Max(SearchCounts) \in SearchCounts
  BY <1>4, <1>6, MaxInSet
<1>8. \A n \in 1..Cardinality(Direct) : n \in Nat \ {0}
  BY DirectSize
<1>9. QED
  BY <1>4, <1>7, <1>8

\* The masks of the greedy search by a measure.
GreedyMasks(by) == GreedyPath(ScoreBy(by), Direct, Max(SearchCounts))

\* Where a path has got to that is the greedy one or refines it with swaps.
FollowsGreedy(by, name, n, mask) ==
    LET score == ScoreBy(by)
    IN  /\ name = "greedy" => mask = GreedyMasks(by)[n]
        /\ name = "swap" => score[mask] <= score[GreedyMasks(by)[n]]

\* Every search leads along measured masks, a wide beam to the best of up to
\* two cells, and swaps to no worse than the greedy search.
LEMMA PathsFacts ==
    ASSUME Setting, Direct # {}, NEW by \in DOMAIN measured.nll \cup {Confidence},
           NEW path \in Paths(by)
    PROVE  /\ path.name \in {"greedy", "beam", "swap"}
           /\ PathOf(ScoreBy(by), path.points)
           /\ path.name = "beam" /\ Wide(ScoreBy(by), path.width) =>
                \A n \in {1, 2} \cap DOMAIN path.points : Least(ScoreBy(by), n, path.points[n].mask)
           /\ \A n \in DOMAIN path.points : FollowsGreedy(by, path.name, n, path.points[n].mask)
<1> DEFINE score == ScoreBy(by)
           limit == Max(SearchCounts)
           total == Cardinality(Direct)
           greedy == GreedyPath(score, Direct, limit)
           Greedy == [name |-> "greedy", width |-> 1, points |-> Points(greedy, total)]
           Beam(w) == [name |-> "beam", width |-> w, points |-> BeamPath(score, Direct, limit, w)]
           Swap(r) == [name |-> "swap", width |-> 1, points |-> SwapPath(score, Direct, greedy, r)]
<1>1. Landscape(score)
  BY Measures
<1>2. limit \in Nat
  BY CountsFacts
<1>3. options.beams \subseteq Nat /\ options.rounds \in Nat
  BY OptionsAssumption DEF Setting
<1>4. /\ greedy \in Seq(SUBSET Direct)
      /\ \A k \in 1..Len(greedy) : Cardinality(greedy[k]) = k /\ score[greedy[k]] \in Int
  <2> HIDE DEF score, limit
  <2>1. Scored(score, Direct)
    BY <1>1 DEF Landscape, Scored
  <2>2. QED
    BY <1>2, <2>1, CellsFinite, GreedyFacts
<1> HIDE DEF greedy
<1>5. path = Greedy \/ (\E w \in options.beams : path = Beam(w))
                    \/ (\E r \in {options.rounds} \ {0} : path = Swap(r))
  <2> HIDE DEF Greedy, Beam, Swap
  <2>1. Paths(by) = {Greedy} \cup
            IF by = Confidence THEN {} ELSE
            {Beam(w) : w \in options.beams} \cup {Swap(r) : r \in {options.rounds} \ {0}}
    BY DEF Paths, Greedy, Beam, Swap, greedy
  <2>2. QED
    BY <2>1
<1> HIDE DEF limit, total
<1>6. ASSUME path = Greedy
      PROVE  /\ path.name = "greedy" /\ PathOf(score, path.points)
             /\ \A n \in DOMAIN path.points : FollowsGreedy(by, path.name, n, path.points[n].mask)
  <2>1. DOMAIN path.points = 1..Len(greedy) /\ \A k \in 1..Len(greedy) : path.points[k].mask = greedy[k]
    BY <1>4, <1>6 DEF Points
  <2>2. \A k \in 1..Len(greedy) : greedy[k] \in SUBSET Direct
    BY <1>4
  <2>3. Len(greedy) \in Nat
    BY <1>4
  <2>4. PathOf(score, path.points)
    BY <1>4, <2>1, <2>2, <2>3 DEF PathOf
  <2>5. path.name = "greedy"
    BY <1>6
  <2>6. greedy = GreedyMasks(by)
    BY DEF GreedyMasks, greedy, limit, score
  <2> HIDE DEF score
  <2>7. \A k \in DOMAIN path.points : FollowsGreedy(by, path.name, k, path.points[k].mask)
    BY <2>1, <2>5, <2>6 DEF FollowsGreedy
  <2>8. QED
    BY <2>4, <2>5, <2>7
<1>7. ASSUME NEW w \in options.beams, path = Beam(w)
      PROVE  /\ path.name = "beam" /\ PathOf(score, path.points)
             /\ Wide(score, path.width) => \A n \in {1, 2} \cap DOMAIN path.points :
                                                Least(score, n, path.points[n].mask)
             /\ \A n \in DOMAIN path.points : FollowsGreedy(by, path.name, n, path.points[n].mask)
  <2> HIDE DEF score
  <2>1. w \in Nat
    BY <1>3
  <2> DEFINE found == BeamPath(score, Direct, limit, w)
  <2>2. /\ PathOf(score, found)
        /\ 1 \in DOMAIN found => Least(score, 1, found[1].mask)
        /\ Wide(score, w) /\ 2 \in DOMAIN found => Least(score, 2, found[2].mask)
    BY <1>1, <1>2, <2>1, BeamFacts
  <2>3. path.points = found /\ path.name = "beam" /\ path.width = w
    BY <1>7
  <2> HIDE DEF found
  <2>4. \A n \in DOMAIN path.points : FollowsGreedy(by, path.name, n, path.points[n].mask)
    BY <2>3 DEF FollowsGreedy
  <2>5. QED
    BY <2>2, <2>3, <2>4
<1>8. ASSUME NEW r \in {options.rounds} \ {0}, path = Swap(r)
      PROVE  /\ path.name = "swap" /\ PathOf(score, path.points)
             /\ \A n \in DOMAIN path.points : FollowsGreedy(by, path.name, n, path.points[n].mask)
  <2> DEFINE Probes(k) == GreedyProbes(Cardinality(Direct), k)
             Reach(k) == SwapPoint(score, Direct, greedy[k], r, Probes(k))
  <2>1. path.name = "swap" /\ path.points = [k \in DOMAIN greedy |-> Reach(k)]
    BY <1>8 DEF SwapPath
  <2>2. DOMAIN greedy = 1..Len(greedy) /\ Len(greedy) \in Nat
    BY <1>4
  <2>3. ASSUME NEW k \in 1..Len(greedy)
        PROVE  Reach(k).mask \in SUBSET Direct /\ Cardinality(Reach(k).mask) = k
               /\ score[Reach(k).mask] \in Int /\ score[Reach(k).mask] <= score[greedy[k]]
    <3>1. greedy[k] \in SUBSET Direct /\ Cardinality(greedy[k]) = k /\ score[greedy[k]] \in Int
      BY <1>4
    <3>2. Probes(k) \in Int
      <4>1. k * Cardinality(Direct) \in Int /\ k * (k - 1) \in Int
        BY <2>2, DirectSize
      <4>2. (k * (k - 1)) \div 2 \in Int
        BY <4>1
      <4>3. QED
        BY <4>1, <4>2 DEF GreedyProbes
    <3>3. r \in Nat
      BY <1>3
    <3> HIDE DEF Probes, score
    <3>4. QED
      BY <1>1, <3>1, <3>2, <3>3, SwapFacts
  <2> HIDE DEF Reach, score
  <2>4. \A k \in 1..Len(greedy) : path.points[k] = Reach(k)
    BY <2>1, <2>2
  <2>5. DOMAIN path.points = 1..Len(greedy)
    BY <2>1, <2>2
  <2>6. PathOf(score, path.points)
    BY <2>2, <2>3, <2>4, <2>5 DEF PathOf
  <2>7. greedy = GreedyMasks(by)
    BY DEF GreedyMasks, greedy, limit, score
  <2>8. \A k \in DOMAIN path.points : FollowsGreedy(by, path.name, k, path.points[k].mask)
    BY <2>1, <2>3, <2>4, <2>5, <2>7 DEF FollowsGreedy, score
  <2>9. QED
    BY <2>1, <2>6, <2>8
<1> HIDE DEF score, Greedy, Beam, Swap
<1>9. QED
  <2>1. path = Greedy =>
            /\ path.name = "greedy" /\ PathOf(score, path.points)
            /\ \A n \in DOMAIN path.points : FollowsGreedy(by, path.name, n, path.points[n].mask)
    BY <1>6 DEF Greedy, score
  <2>2. path.name = "beam" \/ path.name # "beam"
    OBVIOUS
  <2>3. CASE path = Greedy
    BY <2>1, <2>3 DEF score
  <2>4. CASE \E w \in options.beams : path = Beam(w)
    BY <1>7, <2>4 DEF score
  <2>5. CASE \E r \in {options.rounds} \ {0} : path = Swap(r)
    BY <1>8, <2>5 DEF score
  <2>6. QED
    BY <1>5, <2>3, <2>4, <2>5

-----------------------------------------------------------------------------
(* The rows of a condition.                                                *)

\* What a row may spend: cells that can be repaired, no more than its budget;
\* the oracle all that it may.
RowIsKept(r) ==
    /\ r.mask \subseteq (IF r.output = "splice" THEN Eligible ELSE Direct)
    /\ Cardinality(r.mask) <= r.budget
    /\ r.name = "greedy_oracle" =>
        Cardinality(r.mask) = (IF r.budget < OracleLimit THEN r.budget ELSE OracleLimit)

\* What a row of cells repaired directly takes.
Within(mask, budget) == mask \in SUBSET Direct /\ Cardinality(mask) <= budget

\* Such a row keeps its budget, whatever it reports,
LEMMA KeptWithin ==
    \A r : r.name # "greedy_oracle" /\ Within(r.mask, r.budget) => RowIsKept(r)
BY ConditionAssumption DEF RowIsKept, Within

\* so does one that spends nothing,
LEMMA EmptyWithin == \A budget \in Nat : Within({}, budget)
BY FS_EmptySet DEF Within

\* one that spends what it says,
LEMMA ExactlyWithin == \A mask \in SUBSET Direct : Within(mask, Cardinality(mask))
BY MaskFinite DEF Within

\* and the mask of the best cells.
LEMMA TopMaskWithin ==
    ASSUME NEW allowed \in SUBSET Nat, IsFiniteSet(allowed), NEW value,
           \A c \in allowed : value[c] \in Int, NEW count \in Nat
    PROVE  /\ TopMask(value, allowed, count) \in SUBSET allowed
           /\ Cardinality(TopMask(value, allowed, count)) <= count
<1>1. Cardinality(allowed) \in Nat
  BY FS_CardinalityType
<1>2. Cardinality(TopMask(value, allowed, count))
        = IF count < Cardinality(allowed) THEN count ELSE Cardinality(allowed)
  BY TopMaskSize
<1>3. QED
  BY <1>1, <1>2, TopMaskInside

\* What the selectors that probe nothing are given.
LEMMA RankingFacts ==
    ASSUME Setting
    PROVE  /\ options.counts # {} /\ options.counts \subseteq 1..Cardinality(Eligible)
           /\ Cardinality(Eligible) \in Nat /\ options.counts \in SUBSET Nat
           /\ options.oracleCells \in Nat \ {0} /\ options.oracleLimit \in Nat \ {0}
           /\ Ranker => options.ranker.default \in Nat
           /\ \A s \in DOMAIN measured.surgery : \A c \in Eligible : measured.surgery[s][c] \in Int
           /\ "greedy_oracle" \notin DOMAIN measured.sparse \cup DOMAIN measured.surgery
           /\ measured.signed \in SUBSET Direct
           /\ \A c \in Direct : /\ measured.vector[c] \in Int /\ measured.risk[c] \in Int
                                /\ measured.learned[c] \in Int
           /\ options.surgery => /\ {"kv_drift", "attention"} \subseteq DOMAIN measured.surgery
                                 /\ \A mask \in SUBSET Eligible : measured.kl[mask] \in Int
<1>1. PICK i \in DOMAIN Conditions :
        options \in Conditions[i].options /\ measured \in Conditions[i].measured
  BY DEF Setting
<1>2. /\ options.counts # {} /\ options.counts \subseteq 1..Cardinality(Eligible)
      /\ options.oracleCells \in Nat \ {0} /\ options.oracleLimit \in Nat \ {0}
      /\ Ranker => options.ranker.default \in Nat
  BY <1>1, OptionsAssumption DEF Ranker
<1>3. /\ \A s \in DOMAIN measured.surgery : \A c \in Eligible : measured.surgery[s][c] \in Int
      /\ "greedy_oracle" \notin DOMAIN measured.sparse \cup DOMAIN measured.surgery
      /\ measured.signed \in SUBSET Direct
      /\ \A c \in Direct : /\ measured.vector[c] \in Int /\ measured.risk[c] \in Int
                           /\ measured.learned[c] \in Int
      /\ options.surgery => /\ {"kv_drift", "attention"} \subseteq DOMAIN measured.surgery
                            /\ \A mask \in SUBSET Eligible : measured.kl[mask] \in Int
  <2>1. OtherNames \cap (DOMAIN measured.sparse \cup DOMAIN measured.surgery) = {}
    BY <1>1, MeasuredAssumption
  <2>2. "greedy_oracle" \notin DOMAIN measured.sparse \cup DOMAIN measured.surgery
    BY <2>1 DEF OtherNames
  <2>3. QED
    BY <1>1, <2>2, MeasuredAssumption
<1>4. Cardinality(Eligible) \in Nat
  BY CellsFinite, FS_CardinalityType
<1>5. options.counts \in SUBSET Nat
  <2>1. \A n \in 1..Cardinality(Eligible) : n \in Nat
    BY <1>4
  <2>2. QED
    BY <1>2, <2>1
<1>6. QED
  BY <1>2, <1>3, <1>4, <1>5

\* A size cut at the cells that are left is no larger.
LEMMA AtMostFacts == \A n \in Nat : AtMost(n) \in Nat /\ AtMost(n) <= n
BY DirectSize DEF AtMost

\* The signed order repairs cells that have a correction, up to each size,
LEMMA SignedKept ==
    ASSUME Setting, NEW r \in SignedRows
    PROVE  r.name # "greedy_oracle" /\ Within(r.mask, r.budget) /\ r.gate = "none" /\ r.by = 0
<1> DEFINE order == SignedOrder(measured.vector, measured.signed)
           gains == SignedGains(measured.vector, order)
           energy == Energy(measured.vector, measured.signed)
           RowOf(name, n, price) ==
                [Row(name, n, FirstOf(order, n), IF n = 0 THEN "stale" ELSE "sparse")
                    EXCEPT !.price = price]
           Fitting(n) == IF n < Len(order) THEN n ELSE Len(order)
           A == {RowOf("sparse_signed_residual_greedy", Fitting(n), 0) : n \in options.counts}
           B == {RowOf("sparse_signed_residual_auto", BestPrefix(gains, energy, p), p) : p \in Prices}
<1>0. SignedRows = A \cup B
  BY Zenon DEF SignedRows
<1>1. /\ measured.signed \in SUBSET Nat /\ IsFiniteSet(measured.signed)
      /\ \A c \in measured.signed : measured.vector[c] \in Int
      /\ measured.signed \in SUBSET Direct
  <2>1. measured.signed \in SUBSET Direct /\ \A c \in Direct : measured.vector[c] \in Int
    BY RankingFacts
  <2>2. QED
    BY <2>1, CellsFinite, FS_Subset
<1>2. order \in Seq(measured.signed)
  BY <1>1, SignedOrderFacts
<1>3. \A l : Residual(measured.vector, measured.signed, l) \in Int
  <2> TAKE l
  <2> DEFINE cells == {c \in measured.signed : LayerOf(c) = l}
             f == [c \in cells |-> measured.vector[c]]
  <2>1. IsFiniteSet(cells) /\ DOMAIN f = cells /\ \A c \in cells : f[c] \in Int
    BY <1>1, FS_Subset
  <2>2. Residual(measured.vector, measured.signed, l) = Total(f)
    BY DEF Residual
  <2> HIDE DEF f, cells
  <2>3. QED
    BY <2>1, <2>2, SumFacts
<1>4. energy \in Int
  <2> DEFINE R(l) == Residual(measured.vector, measured.signed, l)
             f == [l \in 0..(Layers - 1) |-> R(l) * R(l)]
  <2>1. energy = Total(f)
    BY DEF Energy
  <2>2. \A l \in 0..(Layers - 1) : R(l) \in Int
    BY <1>3
  <2> HIDE DEF R
  <2>3. \A l \in 0..(Layers - 1) : f[l] \in Int
    BY <2>2
  <2>4. 0 \in Int /\ Layers - 1 \in Int
    BY ConditionAssumption
  <2>5. IsFiniteSet(0..(Layers - 1))
    BY <2>4, FS_Interval
  <2>6. DOMAIN f = 0..(Layers - 1)
    OBVIOUS
  <2> HIDE DEF f
  <2>7. Total(f) \in Int
    BY <2>3, <2>5, <2>6, SumFacts
  <2>8. QED
    BY <2>1, <2>7
<1> HIDE DEF order, energy
<1>5. Len(order) \in Nat /\ DOMAIN order = 1..Len(order)
  BY <1>2
<1>6. Len(gains) = Len(order) /\ \A k \in 1..Len(order) : gains[k] \in Int
  <2>1. \A k \in 1..Len(order) :
            gains[k] = Marginal(measured.vector, ToSet(order) \ FirstOf(order, k - 1), order[k])
    BY <1>5 DEF SignedGains
  <2>2. DOMAIN gains = 1..Len(order)
    BY <1>5 DEF SignedGains
  <2>3. Len(gains) = Len(order)
    <3>1. gains = [k \in 1..Len(order) |-> gains[k]]
      BY <1>5 DEF SignedGains
    <3> HIDE DEF gains
    <3>2. QED
      BY <1>5, <3>1
  <2>4. ASSUME NEW k \in 1..Len(order) PROVE gains[k] \in Int
    <3> DEFINE left == ToSet(order) \ FirstOf(order, k - 1)
    <3>1. IsFiniteSet(left) /\ left \in SUBSET measured.signed
      <4>1. IsFiniteSet(ToSet(order)) /\ ToSet(order) \in SUBSET measured.signed
        BY <1>2, MembersOf
      <4>2. QED
        BY <4>1, FS_Subset
    <3>2. order[k] \in measured.signed
      BY <1>2
    <3> HIDE DEF left
    <3>3. Marginal(measured.vector, left, order[k]) \in Int
      BY <1>1, <3>1, <3>2, MarginalFacts
    <3>4. QED
      BY <2>1, <3>3 DEF left
  <2>5. QED
    BY <2>3, <2>4
<1> HIDE DEF gains
<1>7. \A n \in Nat : Within(FirstOf(order, n), n)
  BY <1>1, <1>2, FirstOfFacts DEF Within
<1>8. \A name, price : \A n \in Nat :
        LET x == RowOf(name, n, price)
        IN  x.name = name /\ Within(x.mask, x.budget) /\ x.gate = "none" /\ x.by = 0
  BY <1>7 DEF Row
<1>9. \A n \in options.counts : Fitting(n) \in Nat
  BY <1>5, RankingFacts
<1>10. \A p \in Prices : BestPrefix(gains, energy, p) \in Nat
  <2>1. \A p \in Prices : p \in Int
    BY DEF Prices
  <2>2. QED
    BY <1>4, <1>5, <1>6, <2>1, BestPrefixFacts
<1> HIDE DEF RowOf, Fitting
<1>11. CASE r \in A
  BY <1>8, <1>9, <1>11
<1>12. CASE r \in B
  BY <1>8, <1>10, <1>12
<1>13. QED
  BY <1>0, <1>11, <1>12

\* and the oracle repairs as many as it may: its pool never runs out.
LEMMA OracleKept ==
    ASSUME Setting, options.surgery, NEW r \in OracleRows
    PROVE  RowIsKept(r) /\ r.gate = "none" /\ r.by = 0
<1> DEFINE limit == OracleLimit
           most == IF limit > options.oracleLimit THEN limit ELSE options.oracleLimit
           pool == CandidatePool(measured.surgery["kv_drift"], measured.surgery["attention"],
                        Eligible, most)
           path == GreedyPath(measured.kl, pool, limit)
           Mask(n) == IF n = 0 THEN {} ELSE path[n]
           Of(n) == Row("greedy_oracle", n, Mask(Min({n, limit, Len(path)})), "splice")
<1>1. OracleRows = {Of(n) : n \in options.counts}
  BY Zenon DEF OracleRows
<1>2. Max(options.counts) \in options.counts
  <2>1. \A n \in options.counts : n \in Int
    BY RankingFacts
  <2>2. IsFiniteSet(options.counts)
    <3>1. IsFiniteSet(1..Cardinality(Eligible))
      BY RankingFacts, FS_Interval
    <3>2. QED
      BY <3>1, RankingFacts, FS_Subset
  <2>3. options.counts \in SUBSET Int /\ options.counts # {}
    BY <2>1, RankingFacts
  <2>4. QED
    BY <2>2, <2>3, MaxInSet
<1>3. limit \in Nat /\ limit <= Cardinality(Eligible)
  <2> DEFINE S == {Max(options.counts), options.oracleCells, Cardinality(Eligible)}
  <2>1. S \in SUBSET Nat /\ S # {}
    BY <1>2, RankingFacts
  <2>2. limit = Min(S) /\ Cardinality(Eligible) \in S
    BY DEF OracleLimit
  <2> HIDE DEF S
  <2>3. Min(S) \in S /\ \A x \in S : Min(S) <= x
    BY <2>1, MinInSet
  <2>4. QED
    BY <2>1, <2>2, <2>3
<1> HIDE DEF limit
<1>4. most \in Nat /\ limit <= most
  BY <1>3, RankingFacts
<1> HIDE DEF most
<1>5. pool \in SUBSET Eligible /\ IsFiniteSet(pool) /\ limit <= Cardinality(pool)
  <2> DEFINE kv == measured.surgery["kv_drift"]
             attention == measured.surgery["attention"]
  <2>1. \A c \in Eligible : kv[c] \in Int /\ attention[c] \in Int
    BY RankingFacts
  <2>2. Eligible \in SUBSET Nat /\ IsFiniteSet(Eligible)
    BY CellsFinite
  <2> HIDE DEF kv, attention
  <2>3. LET found == CandidatePool(kv, attention, Eligible, most)
        IN  /\ found \in SUBSET Eligible /\ IsFiniteSet(found)
            /\ \A n \in Nat : n <= most /\ n <= Cardinality(Eligible) => n <= Cardinality(found)
    BY <1>4, <2>1, <2>2, CandidatePoolFacts
  <2>4. QED
    BY <1>3, <1>4, <2>3 DEF kv, attention
<1> HIDE DEF pool
<1>6. pool \in SUBSET Nat /\ Scored(measured.kl, pool) /\ AllScored(measured.kl, pool)
  <2>1. \A m \in SUBSET pool : measured.kl[m] \in Int
    BY <1>5, RankingFacts
  <2>2. QED
    BY <1>5, <2>1, CellsFinite, ScoresAssumption DEF Scored, AllScored
<1>7. /\ path \in Seq(SUBSET pool) /\ Len(path) = limit
      /\ \A k \in 1..Len(path) : Cardinality(path[k]) = k
  BY <1>3, <1>5, <1>6, GreedyFacts
<1> HIDE DEF path
<1>8. ASSUME NEW n \in options.counts PROVE RowIsKept(Of(n)) /\ Of(n).gate = "none" /\ Of(n).by = 0
  <2> DEFINE S == {n, limit, Len(path)}
             k == Min(S)
  <2>1. n \in Nat
    BY RankingFacts
  <2>2. k = IF n < limit THEN n ELSE limit
    <3>1. S \in SUBSET Nat /\ S # {} /\ S = {n, limit}
      BY <1>3, <1>7, <2>1
    <3> HIDE DEF S
    <3>2. Min(S) \in S /\ \A x \in S : Min(S) <= x
      BY <3>1, MinInSet
    <3>3. QED
      BY <1>3, <2>1, <3>1, <3>2
  <2> DEFINE mask == Mask(k)
  <2>3. k \in Nat /\ k <= n /\ k <= limit
    BY <1>3, <2>1, <2>2
  <2> HIDE DEF k
  <2>4. mask \in SUBSET Eligible /\ Cardinality(mask) = k
    <3>1. CASE k = 0
      BY <3>1, FS_EmptySet
    <3>2. CASE k # 0
      <4>1. k \in 1..Len(path)
        BY <1>7, <2>3, <3>2
      <4>2. QED
        BY <1>5, <1>7, <3>2, <4>1
    <3>3. QED
      BY <3>1, <3>2
  <2> HIDE DEF mask
  <2>5. Of(n) = Row("greedy_oracle", n, mask, "splice")
    BY DEF mask, k
  <2> HIDE DEF Of
  <2>6. /\ Of(n).mask = mask /\ Of(n).budget = n /\ Of(n).output = "splice"
        /\ Of(n).gate = "none" /\ Of(n).by = 0
    BY <2>5 DEF Row
  <2>7. QED
    BY <2>2, <2>3, <2>4, <2>6 DEF RowIsKept, limit
<1> HIDE DEF Of
<1>9. QED
  BY <1>1, <1>8

\* The frontier keeps its budget, with columns of any depth.
LEMMA FrontierKept ==
    ASSUME Setting, options.surgery, NEW r \in FrontierRows
    PROVE  RowIsKept(r) /\ r.gate = "none" /\ r.by = 0
<1> DEFINE blocks == 0..(Blocks - 1)
           profiles == {Profile(measured.kl, b, StartLayer) : b \in blocks}
           Of(n) == Row("marginal_frontier", n, FrontierMask(profiles, StartLayer, n), "splice")
<1>1. FrontierRows = {Of(n) : n \in options.counts}
  BY Zenon DEF FrontierRows
<1>2. IsFiniteSet(blocks) /\ \A b \in blocks : b \in Nat
  <2>1. 0 \in Int /\ Blocks - 1 \in Int
    BY ConditionAssumption
  <2>2. QED
    BY <2>1, FS_Interval
<1> HIDE DEF blocks
<1>3. \A b \in blocks : LET p == Profile(measured.kl, b, StartLayer)
                        IN  p.block = b /\ p.depth \in Nat /\ p.gain \in Int
  BY <1>2, RankingFacts, ProfileFacts
<1>4. ProfilesOf(profiles)
  <2> DEFINE f == [b \in blocks |-> Profile(measured.kl, b, StartLayer)]
  <2>1. f \in Surjection(blocks, profiles)
    BY DEF Surjection
  <2>2. IsFiniteSet(profiles)
    <3> HIDE DEF f, profiles
    <3>1. QED
      BY <1>2, <2>1, FS_Surjection
  <2>3. \A p \in profiles : p.block \in Nat /\ p.depth \in Nat /\ p.gain \in Int
    BY <1>2, <1>3
  <2>4. \A p, q \in profiles : p.block = q.block => p = q
    BY <1>3
  <2>5. QED
    BY <2>2, <2>3, <2>4 DEF ProfilesOf
<1> HIDE DEF profiles
<1>5. ASSUME NEW n \in options.counts PROVE RowIsKept(Of(n)) /\ Of(n).gate = "none" /\ Of(n).by = 0
  <2> DEFINE mask == FrontierMask(profiles, StartLayer, n)
  <2>1. n \in Nat
    BY RankingFacts
  <2>2. mask \in SUBSET Eligible /\ Cardinality(mask) <= n
    BY <1>4, <2>1, FrontierFacts
  <2> HIDE DEF mask
  <2>3. Of(n) = Row("marginal_frontier", n, mask, "splice")
    BY DEF mask
  <2> HIDE DEF Of
  <2>4. /\ Of(n).mask = mask /\ Of(n).budget = n /\ Of(n).output = "splice"
        /\ Of(n).name = "marginal_frontier" /\ Of(n).gate = "none" /\ Of(n).by = 0
    BY <2>3 DEF Row
  <2>5. QED
    BY <2>2, <2>4 DEF RowIsKept
<1> HIDE DEF Of
<1>6. QED
  BY <1>1, <1>5

\* What the row of a search says.
SearchHolds(r) ==
    /\ Landscape(ScoreBy(r.by))
    /\ r.name = "exhaustive" => r.mask \in Exhaustive(ScoreBy(r.by), Direct, r.budget)
    /\ r.name \in {"greedy", "beam", "swap"} /\ r.gate = "none" =>
        /\ r.mask \in MeasuredMasks(ScoreBy(r.by), r.budget)
        /\ r.name = "beam" /\ Wide(ScoreBy(r.by), r.width) /\ r.budget <= 2 =>
            Least(ScoreBy(r.by), r.budget, r.mask)
        /\ FollowsGreedy(r.by, r.name, r.budget, r.mask)

RowHolds(r) == RowIsSound(r) /\ (r.by # 0 => SearchHolds(r)) /\ RowIsKept(r)

\* The rows of a selector that probes nothing.
LEMMA PlainRows ==
    \A r : r.by = 0 /\ r.gate = "none" /\ RowIsKept(r) => RowHolds(r)
BY DEF RowHolds, RowIsSound

\* A gate or a router.
LEMMA GateRows ==
    ASSUME Setting, NEW name, 
           name \notin {"greedy", "beam", "swap", "exhaustive", "greedy_oracle"},
           NEW mask \in SUBSET Direct, NEW fallback, NEW by, Landscape(ScoreBy(by)), NEW margin, NEW against, NEW tried,
           RowIsSound(GatedRow(name, mask, fallback, by, margin, against, tried))
    PROVE  RowHolds(GatedRow(name, mask, fallback, by, margin, against, tried))
<1> DEFINE r == GatedRow(name, mask, fallback, by, margin, against, tried)
<1>1. r.name = name /\ r.by = by /\ r.mask = mask /\ r.budget = Cardinality(mask)
  BY DEF GatedRow, Row
<1> HIDE DEF r
<1>2. RowIsSound(r)
  BY DEF r
<1>3. RowIsKept(r)
  BY <1>1, ExactlyWithin, KeptWithin
<1>4. RowHolds(r)
  BY <1>1, <1>2, <1>3 DEF RowHolds, SearchHolds
<1>5. QED
  BY <1>4 DEF r

\* The rows of the exhaustive search.
LEMMA ExhaustiveHold ==
    ASSUME Setting, Direct # {}, NEW r \in ExhaustiveRows
    PROVE  RowHolds(r)
<1>1. PICK by \in DOMAIN measured.nll \cup {Confidence}, n \in SearchCounts :
        r \in ExhaustiveRowsOf(by, n)
  BY DEF ExhaustiveRows
<1>2. PICK m \in Exhaustive(ScoreBy(by), Direct, n) :
            r = [Row("exhaustive", n, m, "sparse") EXCEPT !.by = by,
                    !.probes = Cardinality({s \in SUBSET Direct : Cardinality(s) = n})]
  BY <1>1 DEF ExhaustiveRowsOf
<1>3. r.name = "exhaustive" /\ r.mask = m /\ r.budget = n /\ r.by = by /\ r.gate = "none"
  BY <1>2 DEF Row
<1>4. Landscape(ScoreBy(by))
  BY Measures
<1>5. RowIsKept(r)
  <2>1. m \in SUBSET Direct /\ Cardinality(m) = n
    BY DEF Exhaustive
  <2>2. n \in Nat
    BY CountsFacts
  <2>3. Within(m, n)
    BY <2>1, <2>2 DEF Within
  <2>4. QED
    BY <1>3, <2>3, KeptWithin
<1>6. QED
  BY <1>3, <1>4, <1>5 DEF RowHolds, RowIsSound, SearchHolds

\* The rows along a path.
LEMMA PathRowsHold ==
    ASSUME Setting, Direct # {}, NEW by \in DOMAIN measured.nll \cup {Confidence},
           NEW r \in PathRows(by)
    PROVE  RowHolds(r)
<1>1. PICK path \in Paths(by) : \E n \in SearchCounts \cap DOMAIN path.points :
        r = [Row(path.name, n, path.points[n].mask, "sparse") EXCEPT
                !.by = by, !.width = path.width, !.probes = path.points[n].probes]
  BY DEF PathRows
<1>2. PICK n \in SearchCounts \cap DOMAIN path.points :
        r = [Row(path.name, n, path.points[n].mask, "sparse") EXCEPT
                !.by = by, !.width = path.width, !.probes = path.points[n].probes]
  BY <1>1
<1>3. /\ r.name = path.name /\ r.mask = path.points[n].mask /\ r.budget = n /\ r.by = by
      /\ r.width = path.width /\ r.gate = "none"
  BY <1>2 DEF Row
<1>4. Landscape(ScoreBy(by))
  BY Measures
<1>5. /\ path.name \in {"greedy", "beam", "swap"}
      /\ PathOf(ScoreBy(by), path.points)
      /\ path.name = "beam" /\ Wide(ScoreBy(by), path.width) =>
            \A k \in {1, 2} \cap DOMAIN path.points : Least(ScoreBy(by), k, path.points[k].mask)
      /\ FollowsGreedy(by, path.name, n, path.points[n].mask)
  BY PathsFacts
<1>6. path.points[n].mask \in MeasuredMasks(ScoreBy(by), n)
  BY <1>5, ScoresAssumption DEF PathOf, MeasuredMasks
<1>7. n \in Nat \ {0}
  BY CountsFacts
<1>8. n <= 2 => n \in {1, 2} \cap DOMAIN path.points
  BY <1>7
<1>9. SearchHolds(r)
  <2>1. r.name # "exhaustive"
    BY <1>3, <1>5
  <2>2. r.name = "beam" /\ Wide(ScoreBy(r.by), r.width) /\ r.budget <= 2 =>
            Least(ScoreBy(r.by), r.budget, r.mask)
    BY <1>3, <1>5, <1>8
  <2>3. FollowsGreedy(r.by, r.name, r.budget, r.mask)
    BY <1>3, <1>5
  <2>4. QED
    BY <1>3, <1>4, <1>6, <2>1, <2>2, <2>3 DEF SearchHolds
<1>10. RowIsKept(r)
  <2>1. Within(path.points[n].mask, n)
    BY <1>5, <1>7 DEF PathOf, Within
  <2>2. r.name # "greedy_oracle"
    BY <1>3, <1>5
  <2>3. QED
    BY <1>3, <2>1, <2>2, KeptWithin
<1>11. QED
  BY <1>3, <1>9, <1>10 DEF RowHolds, RowIsSound

\* The rows of the sizes a price pays for.
LEMMA JointRowsHold ==
    ASSUME Setting, Direct # {}, NEW by \in DOMAIN measured.nll, NEW r \in JointRows(by)
    PROVE  RowHolds(r)
<1>1. PICK path \in Paths(by), price \in options.prices, margin \in options.margins :
        r = JointRow(by, path, price, margin)
  BY DEF JointRows
<1> DEFINE mask == JointMask(ScoreBy(by), path.points, price, margin)
<1>2. /\ r.name = path.name /\ r.mask = mask /\ r.by = by /\ r.margin = margin
      /\ r.budget = Cardinality(mask)
      /\ r.against = ScoreBy(by)[{}] /\ r.tried = {} /\ r.gate # "none"
  BY <1>1 DEF JointRow, GatedRow, Row
<1>3. Landscape(ScoreBy(by))
  BY Measures
<1>4. PathOf(ScoreBy(by), path.points) /\ path.name \in {"greedy", "beam", "swap"}
  BY PathsFacts
<1>5. price \in Nat /\ margin \in Nat
  BY OptionsAssumption DEF Setting
<1>6. /\ mask # {} => ScoreBy(by)[{}] # NaN /\ Less(ScoreBy(by)[mask], ScoreBy(by)[{}] - margin)
      /\ mask \in SUBSET Direct
  BY <1>3, <1>4, <1>5, JointFacts
<1> HIDE DEF mask
<1>7. GateHolds(by, mask, margin, ScoreBy(by)[{}], {})
  BY <1>6 DEF GateHolds
<1>8. RowIsSound(r)
  BY <1>2, <1>7 DEF RowIsSound
<1>9. SearchHolds(r)
  BY <1>2, <1>3, <1>4 DEF SearchHolds
<1>10. RowIsKept(r)
  <2>1. Within(mask, Cardinality(mask))
    BY <1>6, ExactlyWithin
  <2>2. r.name # "greedy_oracle"
    BY <1>2, <1>4
  <2>3. QED
    BY <1>2, <2>1, <2>2, KeptWithin
<1>11. QED
  BY <1>8, <1>9, <1>10 DEF RowHolds

\* The rows of all searches.
LEMMA SearchRowsHold ==
    ASSUME Setting, Direct # {}, NEW r \in SearchRows
    PROVE  RowHolds(r)
<1>1. CASE r \in ExhaustiveRows
  BY <1>1, ExhaustiveHold
<1>2. CASE \E by \in DOMAIN measured.nll \cup {Confidence} : r \in PathRows(by)
  BY <1>2, PathRowsHold
<1>3. CASE \E by \in DOMAIN measured.nll : r \in JointRows(by)
  BY <1>3, JointRowsHold
<1>4. \/ r \in ExhaustiveRows
      \/ r \in UNION {PathRows(by) : by \in DOMAIN measured.nll \cup {Confidence}}
      \/ r \in UNION {JointRows(by) : by \in DOMAIN measured.nll}
  BY DEF SearchRows
<1>5. QED
  BY <1>1, <1>2, <1>3, <1>4

-----------------------------------------------------------------------------
(* The condition.                                                          *)

CondInv == Setting /\ StageInv /\ ControllerInv /\ \A r \in rows : RowHolds(r)

\* Whether a row holds depends on what is measured and asked for alone.
LEMMA RowsStay ==
    ASSUME measured' = measured, options' = options
    PROVE  \A r : RowHolds(r)' <=> RowHolds(r)
BY DEF RowHolds, RowIsSound, GateHolds, SearchHolds, ScoreBy, RowIsKept, OracleLimit,
       FollowsGreedy, GreedyMasks, SearchCounts

\* A stage whose rows hold keeps the invariant.
LEMMA StageKeeps ==
    ASSUME CondInv, NEW s, s # "end", NEW wanted, NEW new, Stage(s, wanted, new),
           UNCHANGED controllerVars, wanted => \A r \in new : RowHolds(r)
    PROVE  CondInv'
<1>1. /\ options' = options /\ measured' = measured /\ StageInv'
      /\ rows' = IF wanted THEN rows \cup new ELSE rows
  BY StageGoesOn DEF CondInv
<1>2. Setting'
  BY <1>1 DEF CondInv, Setting
<1>3. ControllerInv'
  BY ControllerRests DEF CondInv
<1>4. \A r \in rows' : RowHolds(r)
  BY <1>1 DEF CondInv
<1>5. \A r \in rows' : RowHolds(r)'
  BY <1>1, <1>4, RowsStay
<1>6. QED
  BY <1>1, <1>2, <1>3, <1>5 DEF CondInv

\* A condition starts in the invariant.
LEMMA CondStarts == Init => CondInv
<1> SUFFICES ASSUME Init PROVE CondInv
  OBVIOUS
<1>1. Setting
  BY DEF Init, Setting
<1>2. ControllerInit
  <2>1. options.policy \in Policies
    BY <1>1, SettingFacts
  <2>2. IsStart(ControllerStart(options.policy, Cardinality(Direct)))
    BY DEF Init
  <2>3. QED
    BY <2>1, <2>2, DirectSize DEF ControllerInit
<1>3. ControllerInv
  BY <1>2, ControllerStarts
<1>4. StageInv /\ rows = {}
  BY DEF Init, StageInv
<1>5. QED
  BY <1>1, <1>3, <1>4 DEF CondInv

\* The stages that probe nothing.
LEMMA PlainStages ==
    ASSUME CondInv,
           Stale \/ Recompute \/ Surgery \/ Selectors \/ Signed \/ LearnedRanker \/ Committed
             \/ Controlled \/ Supervised \/ Oracles
    PROVE  CondInv'
<1>0. /\ Setting /\ ControllerInv
      /\ \A name, budget, mask, output : Within(mask, budget) /\ name # "greedy_oracle" =>
            RowHolds(Row(name, budget, mask, output))
      /\ \A name, budget, mask, output, probes : Within(mask, budget) /\ name # "greedy_oracle" =>
            RowHolds([Row(name, budget, mask, output) EXCEPT !.probes = probes])
  BY PlainRows, KeptWithin DEF Row, CondInv
<1>0a. Direct \in SUBSET Nat /\ IsFiniteSet(Direct) /\ Eligible \in SUBSET Nat /\ IsFiniteSet(Eligible)
  BY CellsFinite
<1>1. ASSUME Stale PROVE CondInv'
  <2> DEFINE new == {Row("stale", 0, {}, "stale")}
  <2>1. \A r \in new : RowHolds(r)
    BY <1>0, EmptyWithin
  <2>2. Stage("stale", TRUE, new) /\ UNCHANGED controllerVars
    BY <1>1 DEF Stale
  <2> HIDE DEF new
  <2>3. QED
    BY <2>1, <2>2, StageKeeps
<1>2. ASSUME Recompute PROVE CondInv'
  <2> DEFINE trigger == measured.failureRisk # NaN /\ measured.failureRisk >= options.ranker.recompute
             wanted == Ranker /\ options.variant = "recompute"
             r == Row("zero_probe_recompute_router", IF trigger THEN Cardinality(Eligible) ELSE 0, {},
                      IF trigger THEN "full" ELSE "stale")
  <2>1. RowHolds(r)
    <3>1. Cardinality(Eligible) \in Nat
      BY <1>0, RankingFacts
    <3> HIDE DEF trigger
    <3>2. QED
      BY <1>0, <3>1, EmptyWithin
  <2>2. Stage("recompute", wanted, {r}) /\ UNCHANGED controllerVars
    BY <1>2 DEF Recompute
  <2> HIDE DEF r, wanted
  <2>3. QED
    BY <2>1, <2>2, StageKeeps
<1>3. ASSUME Surgery PROVE CondInv'
  <2> DEFINE Of(s, n) == Row(s, n, TopMask(measured.surgery[s], Eligible, n), "splice")
             new == {Of(s, n) : s \in DOMAIN measured.surgery, n \in options.counts}
  <2>1. ASSUME NEW s \in DOMAIN measured.surgery, NEW n \in options.counts,
               s # "greedy_oracle"
        PROVE  RowHolds(Of(s, n))
    <3> DEFINE value == measured.surgery[s]
               mask == TopMask(value, Eligible, n)
    <3>1. n \in Nat /\ \A c \in Eligible : value[c] \in Int
      BY <1>0, RankingFacts
    <3>2. mask \in SUBSET Eligible /\ Cardinality(mask) <= n
      <4> HIDE DEF value
      <4>1. QED
        BY <1>0a, <3>1, TopMaskWithin
    <3>3. Of(s, n) = Row(s, n, mask, "splice")
      OBVIOUS
    <3> HIDE DEF Of, mask
    <3>4. RowIsKept(Of(s, n)) /\ Of(s, n).by = 0 /\ Of(s, n).gate = "none"
      BY <2>1, <3>2, <3>3 DEF RowIsKept, Row
    <3>5. QED
      BY <3>4, PlainRows
  <2>2. Stage("surgery", options.surgery, new) /\ UNCHANGED controllerVars
    BY <1>3 DEF Surgery
  <2> HIDE DEF Of
  <2>3. \A r \in new : RowHolds(r)
    BY <2>1, <1>0, RankingFacts
  <2> HIDE DEF new
  <2>4. QED
    BY <2>2, <2>3, StageKeeps
<1>4. ASSUME Selectors PROVE CondInv'
  <2> DEFINE Of(s, n) == Row(s, n, TopMask(measured.sparse[s], Direct, AtMost(n)), "sparse")
             new == {Of(s, n) : s \in DOMAIN measured.sparse, n \in options.counts}
  <2>1. ASSUME NEW s \in DOMAIN measured.sparse, NEW n \in options.counts,
               s # "greedy_oracle"
        PROVE  RowHolds(Of(s, n))
    <3> DEFINE value == measured.sparse[s]
               mask == TopMask(value, Direct, AtMost(n))
    <3>1. \A c \in Direct : value[c] \in Int
      BY <1>0, SettingFacts
    <3>2. n \in Nat /\ AtMost(n) \in Nat /\ AtMost(n) <= n
      BY <1>0, RankingFacts, AtMostFacts
    <3>3. mask \in SUBSET Direct /\ Cardinality(mask) <= AtMost(n)
      <4> HIDE DEF value
      <4>1. QED
        BY <1>0a, <3>1, <3>2, TopMaskWithin
    <3>4. Cardinality(mask) \in Nat
      BY <3>3, MaskFinite
    <3>5. Within(mask, n)
      <4> HIDE DEF mask
      <4>1. QED
        BY <3>2, <3>3, <3>4 DEF Within
    <3> HIDE DEF mask
    <3>6. QED
      BY <1>0, <2>1, <3>5 DEF mask
  <2>2. Stage("selectors", Exploring, new) /\ UNCHANGED controllerVars
    BY <1>4 DEF Selectors
  <2> HIDE DEF Of
  <2>3. \A r \in new : RowHolds(r)
    BY <2>1, <1>0, RankingFacts
  <2> HIDE DEF new
  <2>4. QED
    BY <2>2, <2>3, StageKeeps
<1>5. ASSUME Signed PROVE CondInv'
  <2>1. \A r \in SignedRows : RowHolds(r)
    BY <1>0, SignedKept, KeptWithin, PlainRows
  <2>2. QED
    BY <1>5, <2>1, StageKeeps DEF Signed
<1>6. ASSUME LearnedRanker PROVE CondInv'
  <2> DEFINE Of(name, n) ==
                Row(name, n, TopMask(measured.learned, Direct, n), IF n = 0 THEN "stale" ELSE "sparse")
             A == {Of("sparse_learned_ranker", AtMost(n)) : n \in options.counts}
             B == {Of("sparse_learned_default_budget", AtMost(options.ranker.default))}
  <2>1. ASSUME NEW n \in Nat PROVE Within(TopMask(measured.learned, Direct, n), n)
    <3> DEFINE value == measured.learned
    <3>1. \A c \in Direct : value[c] \in Int
      BY <1>0, RankingFacts
    <3> HIDE DEF value
    <3>2. Within(TopMask(value, Direct, n), n)
      BY <1>0a, <3>1, TopMaskWithin DEF Within
    <3>3. QED
      BY <3>2 DEF value
  <2>2. \A n \in Nat : RowHolds(Of("sparse_learned_ranker", n))
                       /\ RowHolds(Of("sparse_learned_default_budget", n))
    BY <1>0, <2>1
  <2>3. RankerRows = A \cup B
    BY Zenon DEF RankerRows
  <2>4. \A n \in options.counts : AtMost(n) \in Nat
    BY <1>0, RankingFacts, AtMostFacts
  <2>5. Ranker => AtMost(options.ranker.default) \in Nat
    BY <1>0, RankingFacts, AtMostFacts
  <2> HIDE DEF Of
  <2>6. Ranker => \A r \in RankerRows : RowHolds(r)
    BY <2>2, <2>3, <2>4, <2>5
  <2>7. Stage("ranker", Ranker /\ Exploring, RankerRows) /\ UNCHANGED controllerVars
    BY <1>6 DEF LearnedRanker
  <2>8. QED
    BY <2>6, <2>7, StageKeeps
<1>7. ASSUME Committed PROVE CondInv'
  <2> DEFINE p == options.ranker.committed
             wanted == Ranker /\ options.variant = "committed" /\ p # NoPolicy
             Mask(bound) == UNION {CandidateMask(c) : c \in CommittedCandidate(p, bound)}
             New(bound) == {Row("sparse_committed_router_policy", Cardinality(Mask(bound)),
                                Mask(bound), IF Mask(bound) = {} THEN "stale" ELSE "sparse")}
  <2>1. /\ \E bound : Stage("committed", wanted, New(bound))
        /\ UNCHANGED controllerVars
    BY <1>7 DEF Committed
  <2>2. \A bound : \A r \in New(bound) : RowHolds(r)
    <3>1. \A bound : Mask(bound) \in SUBSET Direct
      BY TopMaskInside DEF CandidateMask
    <3> HIDE DEF Mask
    <3>2. QED
      BY <1>0, <3>1, ExactlyWithin
  <2> HIDE DEF New, wanted
  <2>3. QED
    BY <2>1, <2>2, StageKeeps
<1>8. \A count \in Nat : \A observed : RowHolds(DynamicRow(count, observed))
  <2> TAKE count \in Nat
  <2> TAKE observed
  <2> DEFINE value == measured.risk
  <2>1. \A c \in Direct : value[c] \in Int
    BY <1>0, RankingFacts
  <2> HIDE DEF value
  <2>2. Within(TopMask(value, Direct, count), count)
    BY <1>0a, <2>1, TopMaskWithin DEF Within
  <2>3. QED
    BY <1>0, <2>2 DEF DynamicRow, RiskiestMask, value
<1>9. ASSUME Controlled PROVE CondInv'
  <2>1. Selected \in Nat
    <3>1. stop # "running"
      BY <1>9 DEF Controlled
    <3>2. Len(points) \in Nat
      BY <1>0 DEF ControllerInv, ControllerTyped
    <3>3. Selected \in 0..Len(points)
      BY <1>0, <3>1, InvCommits DEF CommitsTheBest
    <3>4. QED
      BY <3>2, <3>3
  <2>2. RowHolds(DynamicRow(Selected, Len(points)))
    BY <1>8, <2>1
  <2>3. Stage("dynamic", TRUE, {DynamicRow(Selected, Len(points))}) /\ UNCHANGED controllerVars
    BY <1>9 DEF Controlled
  <2>4. QED
    BY <2>2, <2>3, StageKeeps
<1>10. ASSUME Supervised PROVE CondInv'
  <2> DEFINE counts == IF options.prefixOnly THEN {1, 2, cap} \cap 1..cap ELSE 1..cap
             Count(accepted, likeliest) ==
                IF options.largest THEN Max(accepted \cup {0}) ELSE likeliest
  <2>0. cap \in Nat
    BY <1>0 DEF ControllerInv, ControllerTyped
  <2>1. counts \in SUBSET Nat /\ IsFiniteSet(counts)
    <3>1. IsFiniteSet(1..cap) /\ \A n \in 1..cap : n \in Nat
      BY <2>0, FS_Interval
    <3>2. counts \in SUBSET (1..cap)
      OBVIOUS
    <3>3. IsFiniteSet(counts)
      BY <3>1, <3>2, FS_Subset
    <3>4. QED
      BY <3>1, <3>2, <3>3
  <2>2. /\ \E accepted \in SUBSET counts, likeliest \in counts \cup {0} :
            Stage("dynamic", TRUE, {DynamicRow(Count(accepted, likeliest), Cardinality(counts))})
        /\ UNCHANGED controllerVars
    BY <1>10 DEF Supervised
  <2> HIDE DEF counts
  <2>3. \A accepted \in SUBSET counts, likeliest \in counts \cup {0} : Count(accepted, likeliest) \in Nat
    <3> SUFFICES ASSUME NEW accepted \in SUBSET counts, NEW likeliest \in counts \cup {0}
                 PROVE  Count(accepted, likeliest) \in Nat
      OBVIOUS
    <3> DEFINE S == accepted \cup {0}
    <3>1. S \in SUBSET Nat /\ S \in SUBSET Int /\ S # {}
      BY <2>1
    <3>2. IsFiniteSet(accepted)
      BY <2>1, FS_Subset
    <3>3. IsFiniteSet(S)
      BY <3>2, FS_AddElement
    <3> HIDE DEF S
    <3>4. Max(S) \in Nat
      BY <3>1, <3>3, MaxInSet
    <3>5. QED
      BY <2>1, <3>4 DEF S
  <2> HIDE DEF Count
  <2>4. QED
    BY <1>8, <2>2, <2>3, StageKeeps
<1>11. ASSUME Oracles PROVE CondInv'
  <2> DEFINE full == Row("eligible_full", Cardinality(Eligible), Eligible, "splice")
             new == OracleRows \cup FrontierRows \cup {full}
  <2>1. options.surgery => \A r \in OracleRows \cup FrontierRows : RowHolds(r)
    BY <1>0, OracleKept, FrontierKept, PlainRows
  <2>2. RowHolds(full)
    <3>1. Cardinality(Eligible) \in Nat
      BY <1>0, RankingFacts
    <3>2. RowIsKept(full) /\ full.by = 0 /\ full.gate = "none"
      BY <3>1 DEF RowIsKept, Row
    <3>3. QED
      BY <3>2, PlainRows
  <2> HIDE DEF full
  <2>3. options.surgery => \A r \in new : RowHolds(r)
    BY <2>1, <2>2
  <2>4. Stage("oracles", options.surgery, new) /\ UNCHANGED controllerVars
    BY <1>11 DEF Oracles, full
  <2> HIDE DEF new
  <2>5. QED
    BY <2>3, <2>4, StageKeeps
<1>12. QED
  BY <1>1, <1>2, <1>3, <1>4, <1>5, <1>6, <1>7, <1>9, <1>10, <1>11

\* In the stages of the gates there are cells to repair.
LEMMA SomeDirect ==
    ASSUME StageInv, stage \notin {"stale", "recompute", "surgery", "oracles", "end"}
    PROVE  Direct # {}
BY DEF StageInv

\* The candidates of a list repair something.
LEMMA PoolFacts ==
    ASSUME Setting, Ranker, Direct # {}, NEW p \in Pools(options.ranker)
    PROVE  /\ p.margin \in Nat /\ p.candidates \in Seq(ToSet(p.candidates))
           /\ \A i \in DOMAIN p.candidates :
                /\ CandidateMask(p.candidates[i]) \in SUBSET Direct
                /\ CandidateMask(p.candidates[i]) # {}
<1>1. p \in Gates(options.ranker)
  BY DEF Pools, Gates
<1>2. p.margin \in Nat /\ p.candidates \in Seq(ToSet(p.candidates))
  BY <1>1, MarginFacts
<1>3. ASSUME NEW i \in DOMAIN p.candidates
      PROVE  p.candidates[i] \in CandidatesOf(options.ranker)
  <2> DEFINE c == p.candidates
  <2>1. c[i] \in ToSet(c)
    BY DEF ToSet
  <2> HIDE DEF c
  <2>2. c[i] \in UNION {ToSet(q.candidates) : q \in Pools(options.ranker)}
    BY <2>1 DEF c
  <2>3. QED
    BY <2>2 DEF CandidatesOf, c
<1>4. QED
  BY <1>2, <1>3, CandidateFacts

\* The gate of one probe keeps the invariant.
LEMMA OneProbeKeeps == CondInv /\ OneProbe => CondInv'
<1> SUFFICES ASSUME CondInv, OneProbe PROVE CondInv'
  OBVIOUS
<1> DEFINE p == options.ranker.oneProbe
           wanted == Ranker /\ Exploring /\ p # NoPolicy
           r == OneProbeRow("sparse_one_probe_policy", p, 1)
<1>1. Stage("one_probe", wanted, {r}) /\ UNCHANGED controllerVars
  BY DEF OneProbe
<1>2. Direct # {} /\ Setting
  BY <1>1, SomeDirect DEF CondInv, Stage
<1>3. ASSUME wanted PROVE RowHolds(r)
  <2>1. p \in Gates(options.ranker) /\ p.candidate \in CandidatesOf(options.ranker)
    BY <1>3 DEF Gates, CandidatesOf
  <2>2. RowIsSound(r)
    BY <1>2, <1>3, <2>1, OneProbeSound
  <2>3. Landscape(ScoreBy(1))
    BY <1>2, Measures
  <2>4. GateMask(ScoreBy(1), CandidateMask(p.candidate), p.margin) \in SUBSET Direct
    BY TopMaskInside DEF GateMask, CandidateMask
  <2>5. QED
    BY <1>2, <2>2, <2>3, <2>4, GateRows DEF OneProbeRow
<1> HIDE DEF r, wanted
<1>4. QED
  BY <1>1, <1>3, StageKeeps

\* So does the gate on confidence,
LEMMA ConfidenceKeeps == CondInv /\ ConfidenceGate => CondInv'
<1> SUFFICES ASSUME CondInv, ConfidenceGate PROVE CondInv'
  OBVIOUS
<1> DEFINE p == options.ranker.confidence
           wanted == Ranker /\ Exploring /\ p # NoPolicy
           r == OneProbeRow("sparse_one_probe_confidence_gate", p, Confidence)
<1>1. Stage("confidence", wanted, {r}) /\ UNCHANGED controllerVars
  BY DEF ConfidenceGate
<1>2. Direct # {} /\ Setting
  BY <1>1, SomeDirect DEF CondInv, Stage
<1>3. ASSUME wanted PROVE RowHolds(r)
  <2>1. p \in Gates(options.ranker) /\ p.candidate \in CandidatesOf(options.ranker)
    BY <1>3 DEF Gates, CandidatesOf
  <2>2. RowIsSound(r)
    BY <1>2, <1>3, <2>1, OneProbeSound
  <2>3. Landscape(ScoreBy(Confidence))
    BY <1>2, Measures
  <2>4. GateMask(ScoreBy(Confidence), CandidateMask(p.candidate), p.margin) \in SUBSET Direct
    BY TopMaskInside DEF GateMask, CandidateMask
  <2>5. QED
    BY <1>2, <2>2, <2>3, <2>4, GateRows DEF OneProbeRow
<1> HIDE DEF r, wanted
<1>4. QED
  BY <1>1, <1>3, StageKeeps

\* the gate that tries a pool,
LEMMA PoolKeeps == CondInv /\ Pool => CondInv'
<1> SUFFICES ASSUME CondInv, Pool PROVE CondInv'
  OBVIOUS
<1> DEFINE p == options.ranker.pool
           wanted == Ranker /\ Exploring /\ p # NoPolicy
           masks == [i \in DOMAIN p.candidates |-> CandidateMask(p.candidates[i])]
           against == measured.nll[1][{}]
           mask == PoolMask(measured.nll[1], masks, against, p.margin)
           r == GatedRow("sparse_reference_pool_policy", mask, "stale", 1, p.margin, against,
                         ToSet(masks))
<1>1. Stage("pool", wanted, {r}) /\ UNCHANGED controllerVars
  BY DEF Pool
<1>2. Direct # {} /\ Setting
  BY <1>1, SomeDirect DEF CondInv, Stage
<1>3. ASSUME wanted PROVE RowHolds(r)
  <2>1. p \in Pools(options.ranker)
    BY <1>3 DEF Pools
  <2>2. /\ p.margin \in Nat /\ p.candidates \in Seq(ToSet(p.candidates))
        /\ \A i \in DOMAIN p.candidates : CandidateMask(p.candidates[i]) \in SUBSET Direct
    BY <1>2, <1>3, <2>1, PoolFacts
  <2>3. masks \in Seq(SUBSET Direct)
    BY <2>2
  <2>4. Landscape(measured.nll[1]) /\ Landscape(ScoreBy(1))
    BY <1>2, Measures
  <2>5. against = NaN \/ against \in Int
    BY <2>4 DEF Landscape
  <2>6. RowIsSound(r)
    <3> HIDE DEF masks, p
    <3>0. against = measured.nll[1][{}]
      OBVIOUS
    <3> HIDE DEF against
    <3>1. QED
      BY <1>2, <2>2, <2>3, <2>5, <3>0, PoolRowSound DEF against
  <2>7. mask \in SUBSET Direct
    <3> DEFINE score == measured.nll[1]
    <3>1. Landscape(score) /\ against = score[{}]
      BY <2>4
    <3> HIDE DEF score, masks, p, against
    <3>2. PoolMask(score, masks, against, p.margin) \in SUBSET Direct
      BY <2>2, <2>3, <2>5, <3>1, PoolMaskFacts
    <3>3. QED
      BY <3>2 DEF score
  <2> HIDE DEF mask, masks, against, p
  <2>8. QED
    BY <1>2, <2>4, <2>6, <2>7, GateRows
<1> HIDE DEF r, wanted
<1>4. QED
  BY <1>1, <1>3, StageKeeps

\* the router, whichever score it compares with,
LEMMA RouterKeeps == CondInv /\ Router => CondInv'
<1> SUFFICES ASSUME CondInv, Router PROVE CondInv'
  OBVIOUS
<1> DEFINE baseline == options.variant = "baseline_reference"
           p == IF baseline THEN options.ranker.baselineRouter ELSE options.ranker.router
           wanted == Ranker /\ options.variant # "committed" /\ p # NoPolicy
           against == IF baseline THEN measured.baseline ELSE measured.nll[1][{}]
           close == IF baseline THEN 0 ELSE p.close
           Order(score, i, j) == IF score[i] - score[j] < close THEN <<i, j>> ELSE <<i>>
           Masks(order) == [k \in DOMAIN order |-> CandidateMask(p.candidates[order[k]])]
           RowOf(masks) ==
                GatedRow("sparse_reference_router_policy",
                         PoolMask(measured.nll[1], masks, against, p.margin),
                         IF baseline THEN "full" ELSE "stale", 1, p.margin, against, ToSet(masks))
<1> DEFINE RowFor(score, i, j) ==
                LET order == IF score[i] - score[j] < close THEN <<i, j>> ELSE <<i>>
                    masks == [k \in DOMAIN order |-> CandidateMask(p.candidates[order[k]])]
                    mask == PoolMask(measured.nll[1], masks, against, p.margin)
                IN  GatedRow("sparse_reference_router_policy", mask,
                             IF baseline THEN "full" ELSE "stale", 1, p.margin, against, ToSet(masks))
<1>0. /\ \/ Stage("router", FALSE, {}) /\ ~wanted
         \/ /\ wanted
            /\ \E score \in [DOMAIN p.candidates -> RouterScores] :
                \E i, j \in DOMAIN p.candidates :
                    /\ i # j /\ \A k \in DOMAIN score : score[i] >= score[k]
                    /\ \A k \in DOMAIN score \ {i} : score[j] >= score[k]
                    /\ Stage("router", TRUE, {RowFor(score, i, j)})
      /\ UNCHANGED controllerVars
  BY Zenon DEF Router
<1>0a. \A score, i, j : RowFor(score, i, j) = RowOf(Masks(Order(score, i, j)))
  OBVIOUS
<1>1. /\ \/ Stage("router", FALSE, {}) /\ ~wanted
         \/ /\ wanted
            /\ \E score \in [DOMAIN p.candidates -> RouterScores] :
                \E i, j \in DOMAIN p.candidates :
                    Stage("router", TRUE, {RowOf(Masks(Order(score, i, j)))})
      /\ UNCHANGED controllerVars
  <2> HIDE DEF RowFor, RowOf, Masks, Order, wanted, p
  <2>1. QED
    BY <1>0, <1>0a
<1>2. stage = "router"
  <2> HIDE DEF RowFor, RowOf, Masks, Order, wanted, p
  <2>1. \A w, new : Stage("router", w, new) => stage = "router"
    BY DEF Stage
  <2>2. QED
    BY <1>1, <2>1
<1>3. Direct # {} /\ Setting
  BY <1>2, SomeDirect DEF CondInv
<1>4. ASSUME wanted, NEW i \in DOMAIN p.candidates, NEW j \in DOMAIN p.candidates,
             NEW order \in {<<i, j>>, <<i>>}
      PROVE  RowHolds(RowOf(Masks(order)))
  <2>1. p \in Pools(options.ranker)
    BY <1>4 DEF Pools
  <2>2. /\ p.margin \in Nat
        /\ \A k \in DOMAIN p.candidates : /\ CandidateMask(p.candidates[k]) \in SUBSET Direct
                                          /\ CandidateMask(p.candidates[k]) # {}
    BY <1>3, <1>4, <2>1, PoolFacts
  <2> DEFINE masks == Masks(order)
  <2> HIDE DEF p
  <2>3. masks \in Seq(SUBSET Direct) /\ \A k \in 1..Len(masks) : masks[k] # {}
    <3>1. CASE order = <<i, j>>
      <4>1. masks = <<CandidateMask(p.candidates[i]), CandidateMask(p.candidates[j])>>
        BY <3>1
      <4> HIDE DEF masks
      <4>2. QED
        BY <2>2, <4>1
    <3>2. CASE order = <<i>>
      <4>1. masks = <<CandidateMask(p.candidates[i])>>
        BY <3>2
      <4> HIDE DEF masks
      <4>2. QED
        BY <2>2, <4>1
    <3>3. QED
      BY <3>1, <3>2
  <2>4. Landscape(measured.nll[1]) /\ Landscape(ScoreBy(1))
    BY <1>3, Measures
  <2>5. against = NaN \/ against \in Int
    BY <1>3, <2>4, SettingFacts DEF Landscape
  <2> HIDE DEF masks, against, baseline, wanted
  <2>6. RowIsSound(RowOf(masks))
    BY <1>3, <2>2, <2>3, <2>5, PoolRowSound
  <2>7. RowHolds(RowOf(masks))
    <3> DEFINE score == measured.nll[1]
               mask == PoolMask(score, masks, against, p.margin)
    <3>1. mask \in SUBSET Direct
      <4>1. Landscape(score)
        BY <2>4
      <4> HIDE DEF score
      <4>2. QED
        BY <2>2, <2>3, <2>5, <4>1, PoolMaskFacts
    <3> HIDE DEF mask
    <3>2. QED
      BY <1>3, <2>4, <2>6, <3>1, GateRows DEF mask
  <2>8. QED
    BY <2>7 DEF masks
<1> HIDE DEF wanted, RowOf, Masks, against, p, baseline
<1>5. CASE Stage("router", FALSE, {})
  BY <1>1, <1>5, StageKeeps
<1>6. CASE wanted /\ \E score \in [DOMAIN p.candidates -> RouterScores] :
                        \E i, j \in DOMAIN p.candidates :
                            Stage("router", TRUE, {RowOf(Masks(Order(score, i, j)))})
  <2>1. PICK score \in [DOMAIN p.candidates -> RouterScores] :
            \E i, j \in DOMAIN p.candidates :
                Stage("router", TRUE, {RowOf(Masks(Order(score, i, j)))})
    BY <1>6
  <2>2. PICK i \in DOMAIN p.candidates, j \in DOMAIN p.candidates :
            Stage("router", TRUE, {RowOf(Masks(Order(score, i, j)))})
    BY <2>1
  <2>3. Order(score, i, j) \in {<<i, j>>, <<i>>}
    OBVIOUS
  <2> HIDE DEF Order
  <2>4. RowHolds(RowOf(Masks(Order(score, i, j))))
    BY <1>4, <1>6, <2>3
  <2>5. QED
    BY <1>1, <2>2, <2>4, StageKeeps
<1>7. QED
  BY <1>1, <1>5, <1>6

\* the searches,
LEMMA StructuredKeeps == CondInv /\ Structured => CondInv'
<1> SUFFICES ASSUME CondInv, Structured PROVE CondInv'
  OBVIOUS
<1> DEFINE all == Row("sparse_all_direct", Cardinality(Direct), Direct, "sparse")
           new == {all} \cup (IF options.structured THEN SearchRows ELSE {})
<1>1. Stage("structured", Exploring, new) /\ UNCHANGED controllerVars
  BY DEF Structured
<1>2. Direct # {} /\ Setting
  BY <1>1, SomeDirect DEF CondInv, Stage
<1>3. RowHolds(all)
  <2>1. Within(Direct, Cardinality(Direct))
    BY ExactlyWithin
  <2>2. QED
    BY <2>1, KeptWithin, PlainRows DEF Row
<1>4. \A r \in new : RowHolds(r)
  <2> HIDE DEF all
  <2>1. QED
    BY <1>2, <1>3, SearchRowsHold
<1> HIDE DEF new
<1>5. QED
  BY <1>1, <1>4, StageKeeps

\* a probe of the controller,
LEMMA TryMoreKeeps == CondInv /\ TryMore => CondInv'
<1> SUFFICES ASSUME CondInv, TryMore PROVE CondInv'
  OBVIOUS
<1> DEFINE mask == RiskiestMask(Len(points) + 1)
<1>1. Probe(Consensus(mask)) /\ UNCHANGED <<options, measured, stage, rows>>
  BY DEF TryMore
<1>2. mask \in SUBSET Direct
  BY TopMaskInside DEF RiskiestMask
<1> HIDE DEF mask
<1>3. Consensus(mask) \in Found
  BY <1>2, ConsensusFound DEF CondInv
<1>4. ControllerInv'
  BY <1>1, <1>3, ProbeKeeps DEF CondInv
<1>5. Setting' /\ StageInv'
  BY <1>1 DEF CondInv, Setting, StageInv
<1>6. \A r \in rows' : RowHolds(r)'
  BY <1>1, RowsStay DEF CondInv
<1>7. QED
  BY <1>4, <1>5, <1>6 DEF CondInv

\* and a step that changes nothing.
LEMMA CondRests == CondInv /\ UNCHANGED vars => CondInv'
<1> SUFFICES ASSUME CondInv, UNCHANGED vars PROVE CondInv'
  OBVIOUS
<1>1. UNCHANGED <<options, measured, stage, rows>> /\ UNCHANGED controllerVars
  BY DEF vars
<1>2. ControllerInv'
  BY <1>1, ControllerRests DEF CondInv
<1>3. Setting' /\ StageInv'
  BY <1>1 DEF CondInv, Setting, StageInv
<1>4. \A r \in rows' : RowHolds(r)'
  BY <1>1, RowsStay DEF CondInv
<1>5. QED
  BY <1>2, <1>3, <1>4 DEF CondInv

\* The invariant holds in every reachable state of a condition.
THEOREM ConditionInductive == Spec => []CondInv
<1>1. CondInv /\ [Next]_vars => CondInv'
  <2> SUFFICES ASSUME CondInv, [Next]_vars PROVE CondInv'
    OBVIOUS
  <2>1. CASE Stale \/ Recompute \/ Surgery \/ Selectors \/ Signed \/ LearnedRanker \/ Committed
               \/ Controlled \/ Supervised \/ Oracles
    BY <2>1, PlainStages
  <2>2. CASE OneProbe \/ ConfidenceGate \/ Pool \/ Router
    BY <2>2, OneProbeKeeps, ConfidenceKeeps, PoolKeeps, RouterKeeps
  <2>3. CASE Structured \/ TryMore
    BY <2>3, StructuredKeeps, TryMoreKeeps
  <2>4. CASE UNCHANGED vars
    BY <2>4, CondRests
  <2>5. QED
    BY <2>1, <2>2, <2>3, <2>4 DEF Next, Finished
<1>2. QED
  BY <1>1, CondStarts, PTL DEF Spec

\* What a gate or a router lets through improves on doing nothing by more than
\* its margin, and nothing it tried is better by more than the margin.
THEOREM GatesKeepTheirPromise == Spec => []GatesAreSound
<1>1. CondInv => GatesAreSound
  BY SoundRows DEF CondInv, RowHolds
<1>2. QED
  BY <1>1, ConditionInductive, PTL

\* No search finds a mask better than the exhaustive search of its size, a beam
\* as wide as there are cells finds the best masks of one and two, and swaps
\* end with a measured mask of the size of the greedy one that scores no worse,
\* in however many rounds.
THEOREM SearchesAreOrdered == Spec => []SearchOrder
<1>1. CondInv => NoneBeatsExhaustive
  <2> SUFFICES ASSUME CondInv, NEW r \in rows, NEW s \in rows,
                      r.by = s.by, r.budget = s.budget, s.gate = "none", r.by # 0,
                      r.name = "exhaustive", s.name \in {"greedy", "beam", "swap"}
               PROVE  LET score == ScoreBy(r.by)
                      IN  /\ ~Less(score[s.mask], score[r.mask])
                          /\ s.name = "beam" /\ (\A m \in SUBSET Direct : score[m] # NaN)
                             /\ s.width >= Cardinality({m \in SUBSET Direct : Cardinality(m) = 1})
                             /\ r.budget <= 2 => score[s.mask] = score[r.mask]
    BY DEF NoneBeatsExhaustive
  <2> DEFINE score == ScoreBy(r.by)
             n == r.budget
  <2>1. Landscape(score) /\ r.mask \in Exhaustive(score, Direct, n)
    BY DEF CondInv, RowHolds, SearchHolds
  <2>2. /\ s.mask \in MeasuredMasks(score, n)
        /\ s.name = "beam" /\ Wide(score, s.width) /\ n <= 2 => Least(score, n, s.mask)
    BY DEF CondInv, RowHolds, SearchHolds
  <2> HIDE DEF score, n
  <2>3. /\ r.mask \in MeasuredMasks(score, n)
        /\ \A m \in MeasuredMasks(score, n) :
                m = r.mask \/ Less(score[r.mask], score[m]) \/ score[r.mask] = score[m]
    BY <2>1 DEF Exhaustive, MeasuredMasks
  <2>4. score[r.mask] \in Int /\ score[s.mask] \in Int
    BY <2>1, <2>2, <2>3, MasksAreMeasured
  <2>5. ~Less(score[s.mask], score[r.mask])
    BY <2>2, <2>3, <2>4 DEF Less
  <2>6. ASSUME s.name = "beam", Wide(score, s.width), n <= 2
        PROVE  score[s.mask] = score[r.mask]
    <3>1. score[s.mask] <= score[r.mask]
      BY <2>2, <2>3, <2>6 DEF Least
    <3>2. score[r.mask] <= score[s.mask]
      BY <2>2, <2>3, <2>4 DEF Less
    <3>3. QED
      BY <2>4, <3>1, <3>2
  <2>7. QED
    BY <2>5, <2>6 DEF Wide, score, n
<1>2. CondInv => SwapsNeverWorsen
  <2> SUFFICES ASSUME CondInv, NEW r \in rows, NEW s \in rows,
                      r.by = s.by, r.budget = s.budget, r.by # 0,
                      r.gate = "none", s.gate = "none", r.name = "greedy", s.name = "swap"
               PROVE  LET score == ScoreBy(r.by)
                      IN  /\ Cardinality(s.mask) = Cardinality(r.mask)
                          /\ score[s.mask] # NaN /\ ~Less(score[r.mask], score[s.mask])
    BY DEF SwapsNeverWorsen
  <2> DEFINE score == ScoreBy(r.by)
             n == r.budget
  <2>1. Landscape(score) /\ r.mask \in MeasuredMasks(score, n) /\ s.mask \in MeasuredMasks(score, n)
    BY DEF CondInv, RowHolds, SearchHolds
  <2>2. r.mask = GreedyMasks(r.by)[n]
    BY DEF CondInv, RowHolds, SearchHolds, FollowsGreedy
  <2>3. score[s.mask] <= score[GreedyMasks(r.by)[n]]
    BY DEF CondInv, RowHolds, SearchHolds, FollowsGreedy
  <2> HIDE DEF score, n
  <2>4. score[r.mask] \in Int /\ score[s.mask] \in Int
    BY <2>1, MasksAreMeasured
  <2>5. ~Less(score[r.mask], score[s.mask])
    BY <2>2, <2>3, <2>4 DEF Less
  <2>6. Cardinality(s.mask) = Cardinality(r.mask) /\ score[s.mask] # NaN
    BY <2>1 DEF MeasuredMasks
  <2>7. QED
    BY <2>5, <2>6 DEF score
<1>3. CondInv => SearchOrder
  BY <1>1, <1>2 DEF SearchOrder
<1>4. QED
  BY <1>3, ConditionInductive, PTL

\* A selector spends no more cells than it is given, on cells that it may
\* repair, whichever way it chooses them; and the oracle spends all it is given,
\* for the pool it chooses from is never the smaller of the two.
THEOREM NothingIsOverspent == Spec => []BudgetsKept
<1>1. CondInv => BudgetsKept
  BY DEF CondInv, RowHolds, RowIsKept, BudgetsKept
<1>2. QED
  BY <1>1, ConditionInductive, PTL

\* In a condition too, where the scores are the consensus of its horizons, the
\* controller commits the best acceptable repair it tried and did not go on
\* for longer than its patience.
THEOREM ConditionCommitsTheBest == Spec => [](CommitsTheBest /\ RollbackBounded)
<1>1. CondInv => CommitsTheBest /\ RollbackBounded
  BY InvCommits, InvRollback DEF CondInv
<1>2. QED
  BY <1>1, ConditionInductive, PTL

-----------------------------------------------------------------------------
(* The best of some policies, and the pools that grow from them.           *)

\* The values of a table at finitely many places are finitely many.
LEMMA FiniteImage ==
    ASSUME NEW S, IsFiniteSet(S), NEW f
    PROVE  IsFiniteSet({f[x] : x \in S}) /\ Cardinality({f[x] : x \in S}) <= Cardinality(S)
<1> DEFINE T == {f[x] : x \in S}
           g == [x \in S |-> f[x]]
<1>1. g \in Surjection(S, T)
  BY DEF Surjection
<1> HIDE DEF g, T
<1>2. IsFiniteSet(T) /\ Cardinality(T) <= Cardinality(S)
  BY <1>1, FS_Surjection
<1>3. QED
  BY <1>2 DEF T

\* Keys of as many numbers are in one order, but for equal ones.
LEMMA KeysOrdered ==
    ASSUME NEW n \in Nat, NEW S \in SUBSET [1..n -> Int]
    PROVE  /\ \A a, b \in S : a = b \/ Precedes(a, b) \/ Precedes(b, a)
           /\ \A a, b, c \in S : Precedes(a, b) /\ Precedes(b, c) => Precedes(a, c)
           /\ \A a \in S : ~Precedes(a, a)
<1>0. \A a \in S : DOMAIN a = 1..n /\ \A i \in 1..n : a[i] \in Int
  OBVIOUS
<1>1. ASSUME NEW a \in S, NEW b \in S, a # b PROVE Precedes(a, b) \/ Precedes(b, a)
  <2> DEFINE D == {i \in 1..n : a[i] # b[i]}
             i == Min(D)
  <2>1. a \in [1..n -> Int] /\ b \in [1..n -> Int]
    OBVIOUS
  <2>2. D # {} /\ D \in SUBSET Nat
    BY <1>1, <2>1
  <2>3. i \in D /\ \A j \in D : i <= j
    <3> HIDE DEF D
    <3>1. QED
      BY <2>2, MinInSet
  <2> HIDE DEF i
  <2>4. \A j \in 1..(i - 1) : a[j] = b[j]
    BY <2>3
  <2>5. i \in DOMAIN a /\ i \in DOMAIN b /\ (a[i] > b[i] \/ b[i] > a[i])
    BY <1>0, <2>3
  <2>6. QED
    BY <2>4, <2>5 DEF Precedes
<1>2. ASSUME NEW a \in S, NEW b \in S, NEW c \in S, Precedes(a, b), Precedes(b, c)
      PROVE  Precedes(a, c)
  <2>1. PICK i \in 1..n : a[i] > b[i] /\ \A j \in 1..(i - 1) : a[j] = b[j]
    BY <1>0, <1>2 DEF Precedes
  <2>2. PICK k \in 1..n : b[k] > c[k] /\ \A j \in 1..(k - 1) : b[j] = c[j]
    BY <1>0, <1>2 DEF Precedes
  <2> DEFINE m == IF i < k THEN i ELSE k
  <2>3. m \in 1..n /\ a[m] > c[m] /\ \A j \in 1..(m - 1) : a[j] = c[j]
    BY <1>0, <2>1, <2>2
  <2> HIDE DEF m
  <2>4. QED
    BY <1>0, <2>3 DEF Precedes
<1>3. \A a \in S : ~Precedes(a, a)
  BY <1>0 DEF Precedes
<1>4. QED
  BY <1>1, <1>2, <1>3

\* The best are choices that no other comes before.
LEMMA BestFacts ==
    ASSUME NEW choices, NEW key, NEW x \in Best(choices, key)
    PROVE  x \in choices /\ \A y \in choices : ~Precedes(key[y], key[x])
<1> DEFINE keyed == {<<y, key[y]>> : y \in choices}
<1>1. PICK a \in keyed : x = a[1] /\ \A b \in keyed : ~Precedes(b[2], a[2])
  BY DEF Best
<1>2. PICK z \in choices : a = <<z, key[z]>>
  OBVIOUS
<1>3. x = z /\ a[2] = key[x]
  BY <1>1, <1>2
<1>4. ASSUME NEW y \in choices PROVE ~Precedes(key[y], key[x])
  <2>1. <<y, key[y]>> \in keyed /\ <<y, key[y]>>[2] = key[y]
    OBVIOUS
  <2> HIDE DEF keyed
  <2>2. QED
    BY <1>1, <1>3, <2>1
<1>5. QED
  BY <1>3, <1>4

\* Of some choices with such keys some are the best.
LEMMA BestExist ==
    ASSUME NEW choices, IsFiniteSet(choices), choices # {}, NEW key, NEW n \in Nat,
           \A x \in choices : key[x] \in [1..n -> Int]
    PROVE  Best(choices, key) # {}
<1> DEFINE K == {key[x] : x \in choices}
           R == {p \in K \X K : Precedes(p[1], p[2])}
<1>1. IsFiniteSet(K)
  BY FiniteImage
<1>2. K # {} /\ K \in SUBSET [1..n -> Int]
  OBVIOUS
<1> HIDE DEF K
<1>3. \A a, b \in K : <<a, b>> \in R <=> Precedes(a, b)
  <2> SUFFICES ASSUME NEW a \in K, NEW b \in K PROVE <<a, b>> \in R <=> Precedes(a, b)
    OBVIOUS
  <2>1. <<a, b>> \in K \X K /\ <<a, b>>[1] = a /\ <<a, b>>[2] = b
    OBVIOUS
  <2>2. QED
    BY <2>1
<1> HIDE DEF R
<1>4. Ordered(K, R)
  BY <1>2, <1>3, KeysOrdered DEF Ordered
<1>5. PICK a \in K : \A b \in K : b = a \/ <<a, b>> \in R
  BY <1>1, <1>2, <1>4, FirstOne, ZenonT(30)
<1>6. \A b \in K : ~Precedes(b, a)
  BY <1>2, <1>3, <1>5, KeysOrdered
<1>7. PICK x \in choices : key[x] = a
  BY <1>5 DEF K
<1>8. \A y \in choices : ~Precedes(key[y], key[x])
  BY <1>6, <1>7 DEF K
<1>9. x \in Best(choices, key)
  <2> DEFINE keyed == {<<y, key[y]>> : y \in choices}
  <2>1. <<x, key[x]>> \in keyed /\ <<x, key[x]>>[1] = x /\ <<x, key[x]>>[2] = key[x]
    OBVIOUS
  <2>2. \A b \in keyed : ~Precedes(b[2], key[x])
    BY <1>8
  <2> HIDE DEF keyed
  <2>3. <<x, key[x]>> \in {p \in keyed : \A b \in keyed : ~Precedes(b[2], p[2])}
    BY <2>1, <2>2
  <2>4. QED
    BY <2>1, <2>3 DEF Best, keyed
<1>10. QED
  BY <1>9

\* A sequence of numbers is a table of them.
LEMMA SequenceIsTable == \A s \in Seq(Int) : s \in [1..Len(s) -> Int]
OBVIOUS

\* Keys joined are a key.
LEMMA JoinedKeys ==
    ASSUME NEW s \in Seq(Int), NEW t \in Seq(Int)
    PROVE  s \o t \in [1..(Len(s) + Len(t)) -> Int]
<1>1. s \o t \in Seq(Int) /\ Len(s \o t) = Len(s) + Len(t)
  OBVIOUS
<1>2. s \o t \in [1..Len(s \o t) -> Int]
  BY <1>1, SequenceIsTable
<1>3. QED
  BY <1>1, <1>2

\* A pool grows to its size, or to all that is available.
LEMMA GrownPoolFacts ==
    ASSUME NEW available, IsFiniteSet(available), available # {}, NEW size \in Nat \ {0},
           NEW n \in Nat, NEW key, \A p \in Seq(available) : key[p] \in Seq(Int) /\ Len(key[p]) = n,
           \A k \in available : k.count \in Int /\ NameRank(k) \in Int
    PROVE  /\ GrownPool(available, size, key) \in Seq(available) \ {<<>>}
           /\ Len(GrownPool(available, size, key)) \in 1..size
<1> DEFINE m == Min({size, Cardinality(available)})
           ranked == [p \in Seq(available) |-> key[p] \o <<-Last(p).count, NameRank(Last(p))>>]
           Longer(p) == {Append(p, k) : k \in available \ ToSet(p)}
           Body(p) == CHOOSE q \in Best(Longer(p), ranked) : TRUE
           Table(g) == [i \in 0..m |-> IF i = 0 THEN <<>> ELSE Body(g[i - 1])]
           pool == CHOOSE g : g = Table(g)
           V == Seq(available)
           Grows(h) == /\ h[0] = <<>>
                       /\ \A i \in 1..m : h[i - 1] \in V /\ Len(h[i - 1]) = i - 1 =>
                                          h[i] = Body(h[i - 1])
<1>1. /\ m \in 1..size /\ m \in Nat \ {0}
      /\ m <= Cardinality(available) /\ Cardinality(available) \in Nat
  <2>1. Cardinality(available) \in Nat \ {0}
    BY FS_CardinalityType, FS_EmptySet
  <2>2. QED
    BY <2>1, MinInSet, SMTT(30)
<1>2. GrownPool(available, size, key) = pool[m]
  BY DEF GrownPool
<1> HIDE DEF m
<1>3. ASSUME NEW p \in V, NEW k \in available
      PROVE  ranked[Append(p, k)] \in [1..(n + 2) -> Int] /\ Append(p, k) \in V
  <2> DEFINE q == Append(p, k)
  <2>1. q \in Seq(available) /\ Last(q) = k
    BY DEF Last
  <2>2. ranked[q] = key[q] \o <<-k.count, NameRank(k)>>
    BY <2>1
  <2> HIDE DEF q, ranked
  <2>3. <<-k.count, NameRank(k)>> \in Seq(Int) /\ Len(<<-k.count, NameRank(k)>>) = 2
    OBVIOUS
  <2>4. ranked[q] \in [1..(n + 2) -> Int]
    <3>1. key[q] \in Seq(Int) /\ Len(key[q]) = n
      BY <2>1
    <3>2. QED
      BY <2>2, <2>3, <3>1, JoinedKeys
  <2>5. QED
    BY <2>1, <2>4 DEF q
<1>4. ASSUME NEW p \in V, NEW i \in 1..m, Len(p) = i - 1
      PROVE  Body(p) \in V /\ Len(Body(p)) = i
  <2>1. available \ ToSet(p) # {}
    <3>1. Cardinality(ToSet(p)) < m /\ ToSet(p) \in SUBSET available
      BY <1>1, <1>4, MembersOf
    <3>2. Cardinality(ToSet(p)) # Cardinality(available)
      BY <1>1, <1>4, MembersOf
    <3>3. ToSet(p) # available
      BY <3>2
    <3>4. QED
      BY <3>1, <3>3
  <2>2. IsFiniteSet(Longer(p)) /\ Longer(p) # {}
    <3> DEFINE left == available \ ToSet(p)
               f == [k \in left |-> Append(p, k)]
    <3>1. IsFiniteSet(left)
      BY FS_Subset
    <3>2. IsFiniteSet({f[k] : k \in left})
      <4> HIDE DEF f, left
      <4>1. QED
        BY <3>1, FiniteImage
    <3>3. {f[k] : k \in left} = Longer(p)
      OBVIOUS
    <3>4. QED
      BY <2>1, <3>2, <3>3
  <2>3. \A q \in Longer(p) : ranked[q] \in [1..(n + 2) -> Int]
    <3> HIDE DEF ranked
    <3>1. QED
      BY <1>3
  <2>4. Best(Longer(p), ranked) # {}
    <3>0. n + 2 \in Nat
      OBVIOUS
    <3> HIDE DEF ranked, Longer
    <3>1. QED
      BY <2>2, <2>3, <3>0, BestExist
  <2>5. Body(p) \in Longer(p)
    <3> HIDE DEF ranked, Longer
    <3>1. QED
      BY <2>4, BestFacts
  <2> HIDE DEF Body
  <2>6. QED
    BY <1>4, <2>5, SMTT(30)
<1> HIDE DEF Body
<1>5. ASSUME NEW h, Grows(h) PROVE \A i \in 0..m : h[i] \in V /\ Len(h[i]) = i
  <2> DEFINE S == {i \in 0..m : h[i] \in V /\ Len(h[i]) = i}
  <2>1. 0 \in S
    <3>1. 0 \in 0..m /\ h[0] = <<>> /\ <<>> \in V /\ Len(<<>>) = 0
      BY <1>1, <1>5
    <3>2. QED
      BY <3>1
  <2>2. ASSUME NEW i \in 0..(m - 1), i \in S PROVE i + 1 \in S
    <3>1. i + 1 \in 1..m /\ (i + 1) - 1 = i /\ i + 1 \in 0..m
      BY <1>1
    <3>2. h[i + 1] = Body(h[i]) /\ h[i] \in V /\ Len(h[i]) = i
      BY <1>5, <2>2, <3>1
    <3>3. Body(h[i]) \in V /\ Len(Body(h[i])) = i + 1
      <4> HIDE DEF V
      <4>1. QED
        BY <1>4, <3>1, <3>2
    <3>4. QED
      BY <3>1, <3>2, <3>3
  <2> HIDE DEF S
  <2>3. \A i \in 0..m : i \in S
    BY <1>1, <2>1, <2>2, UpTo
  <2>4. QED
    BY <2>3 DEF S
<1> HIDE DEF Grows
<1>6. \E g : g = Table(g)
  <2> DEFINE step == [i \in 1..m |-> [p \in V |-> IF Len(p) = i - 1 THEN Body(p) ELSE p]]
  <2>1. \A i \in 1..m : \A p \in V : step[i][p] = IF Len(p) = i - 1 THEN Body(p) ELSE p
    OBVIOUS
  <2>2. <<>> \in V
    OBVIOUS
  <2> HIDE DEF step, V
  <2>3. \A i \in 1..m : \A p \in V : step[i][p] \in V
    BY <1>4, <2>1
  <2>4. Iterable(m, V, <<>>, step)
    BY <1>1, <2>2, <2>3, Iterates
  <2>5. PICK g \in [0..m -> V] : g[0] = <<>> /\ \A i \in 1..m : g[i] = step[i][g[i - 1]]
    BY <2>4 DEF Iterable
  <2>6. \A i \in 1..m : i - 1 \in 0..m /\ g[i - 1] \in V
    <3>1. \A i \in 1..m : i - 1 \in 0..m
      BY <1>1
    <3>2. QED
      BY <3>1
  <2>7. Grows(g)
    BY <2>1, <2>5, <2>6 DEF Grows
  <2>8. \A i \in 0..m : Len(g[i]) = i
    BY <1>5, <2>7
  <2>9. \A i \in 1..m : g[i] = Body(g[i - 1])
    BY <2>1, <2>5, <2>6, <2>8
  <2>10. g = Table(g)
    BY <2>5, <2>9
  <2>11. QED
    BY <2>10
<1>7. pool = Table(pool)
  <2> HIDE DEF Table
  <2>1. QED
    BY <1>6
<1> HIDE DEF pool
<1>8. Grows(pool)
  <2>1. 0 \in 0..m /\ \A i \in 1..m : i \in 0..m /\ i # 0
    BY <1>1
  <2>2. QED
    BY <1>7, <2>1 DEF Grows
<1>9. pool[m] \in V /\ Len(pool[m]) = m
  BY <1>1, <1>5, <1>8
<1>10. QED
  BY <1>1, <1>2, <1>9

-----------------------------------------------------------------------------
(* What a fit counts: the least and the highest of some numbers, and harms. *)

\* A finite set of integers has a least one.
LEMMA LeastInteger ==
    ASSUME NEW S \in SUBSET Int, IsFiniteSet(S), S # {}
    PROVE  Min(S) \in S /\ \A x \in S : Min(S) <= x
<1> DEFINE f == [x \in S |-> -x]
           T == {f[x] : x \in S}
<1>1. IsFiniteSet(T)
  <2> HIDE DEF f
  <2>1. QED
    BY FiniteImage
<1>2. T \in SUBSET Int /\ T # {}
  <2>1. \A x \in S : f[x] = -x /\ f[x] \in Int
    OBVIOUS
  <2> HIDE DEF f
  <2>2. QED
    BY <2>1
<1>3. Max(T) \in T /\ \A y \in T : Max(T) >= y
  <2> HIDE DEF T
  <2>1. QED
    BY <1>1, <1>2, MaxInSet
<1>4. PICK x \in S : Max(T) = -x
  BY <1>3
<1>5. \A y \in S : x <= y
  <2> SUFFICES ASSUME NEW y \in S PROVE x <= y
    OBVIOUS
  <2>1. -y \in T /\ x \in Int /\ y \in Int
    OBVIOUS
  <2>2. -x >= -y
    BY <1>3, <1>4, <2>1
  <2>3. QED
    BY <2>1, <2>2
<1>6. QED
  BY <1>5 DEF Min

\* The likeliest candidate is a candidate, and none is likelier.
LEMMA LikeliestFacts ==
    ASSUME NEW scores, DOMAIN scores \in SUBSET Nat, IsFiniteSet(DOMAIN scores),
           DOMAIN scores # {}, \A i \in DOMAIN scores : scores[i] \in Int
    PROVE  /\ Likeliest(scores) \in DOMAIN scores
           /\ \A i \in DOMAIN scores : scores[Likeliest(scores)] >= scores[i]
<1> DEFINE I == DOMAIN scores
           f == [i \in I |-> -scores[i]]
           IsBest(i) == \A j \in I : scores[i] > scores[j] \/ (scores[i] = scores[j] /\ i <= j)
<1>1. \A i \in I : f[i] = -scores[i] /\ f[i] \in Int
  OBVIOUS
<1>2. PICK i \in I : \A j \in I : f[i] < f[j] \/ (f[i] = f[j] /\ i <= j)
  <2> HIDE DEF f
  <2>1. QED
    BY <1>1, FirstLeast
<1>3. IsBest(i)
  BY <1>1, <1>2
<1>4. Likeliest(scores) = CHOOSE j \in I : IsBest(j)
  BY DEF Likeliest
<1>5. Likeliest(scores) \in I /\ IsBest(Likeliest(scores))
  <2> HIDE DEF IsBest, I
  <2>1. QED
    BY <1>3, <1>4
<1>6. QED
  BY <1>5

\* How many gains are harms is a number, and 0 if none is.
LEMMA HarmsCounted ==
    ASSUME NEW f, IsFiniteSet(DOMAIN f)
    PROVE  /\ Negative(f) \in Nat /\ Positive(f) \in Nat
           /\ Negative(f) = 0 <=> \A c \in DOMAIN f : ~(f[c] < 0)
<1> DEFINE harms == {c \in DOMAIN f : f[c] < 0}
           helps == {c \in DOMAIN f : f[c] > 0}
<1>1. IsFiniteSet(harms) /\ IsFiniteSet(helps)
  BY FS_Subset
<1>2. Cardinality(harms) \in Nat /\ Cardinality(helps) \in Nat /\ (Cardinality(harms) = 0 <=> harms = {})
  BY <1>1, FS_CardinalityType, FS_EmptySet
<1>3. Negative(f) = Cardinality(harms) /\ Positive(f) = Cardinality(helps)
  BY DEF Negative, Positive
<1>4. QED
  BY <1>2, <1>3

\* All values lie below the highest quantile or at it.
LEMMA HighestQuantile ==
    ASSUME NEW f, IsFiniteSet(DOMAIN f), DOMAIN f # {}, \A c \in DOMAIN f : f[c] \in Int
    PROVE  Higher(f, 1000) \in Int /\ \A c \in DOMAIN f : f[c] <= Higher(f, 1000)
<1> DEFINE S == DOMAIN f
           n == Cardinality(S)
           T == {f[c] : c \in S}
           below == (1000 * (n - 1) + 999) \div 1000
           Under(v) == {c \in S : f[c] < v}
           AtOrUnder(v) == {c \in S : f[c] <= v}
           IsHigher(v) == Cardinality(Under(v)) <= below /\ Cardinality(AtOrUnder(v)) > below
<1>1. n \in Nat \ {0}
  BY FS_CardinalityType, FS_EmptySet
<1>2. below = n - 1
  <2> HIDE DEF n
  <2>1. QED
    BY <1>1
<1>3. Max(T) \in T /\ \A v \in T : Max(T) >= v
  <2>1. IsFiniteSet(T)
    BY FiniteImage
  <2>2. T \in SUBSET Int /\ T # {}
    OBVIOUS
  <2> HIDE DEF T
  <2>3. QED
    BY <2>1, <2>2, MaxInSet
<1> DEFINE top == Max(T)
<1> HIDE DEF top
<1>4. top \in T /\ top \in Int /\ \A c \in S : f[c] <= top
  BY <1>3 DEF top
<1>5. IsHigher(top)
  <2>1. AtOrUnder(top) = S
    BY <1>4
  <2>2. PICK c \in S : f[c] = top
    BY <1>4
  <2>3. Under(top) \in SUBSET S /\ Under(top) # S
    BY <1>4, <2>2
  <2>4. Cardinality(Under(top)) < n
    <3> HIDE DEF Under
    <3>1. Cardinality(Under(top)) <= n /\ Cardinality(Under(top)) # n
      BY <2>3, FS_Subset
    <3>2. IsFiniteSet(Under(top))
      BY <2>3, FS_Subset
    <3>3. Cardinality(Under(top)) \in Nat
      BY <3>2, FS_CardinalityType
    <3> HIDE DEF n
    <3>4. QED
      BY <1>1, <3>1, <3>3
  <2>5. Cardinality(Under(top)) \in Nat
    <3>1. IsFiniteSet(Under(top))
      BY <2>3, FS_Subset
    <3>2. QED
      BY <3>1, FS_CardinalityType
  <2> HIDE DEF below, Under
  <2>6. QED
    BY <1>1, <1>2, <2>1, <2>4, <2>5
<1>6. Higher(f, 1000) = CHOOSE v \in T : IsHigher(v)
  BY DEF Higher
<1>7. Higher(f, 1000) \in T /\ IsHigher(Higher(f, 1000))
  <2> HIDE DEF IsHigher, T
  <2>1. QED
    BY <1>4, <1>5, <1>6
<1>8. \A c \in S : f[c] <= Higher(f, 1000)
  <2> DEFINE h == Higher(f, 1000)
             U == AtOrUnder(h)
  <2>1. Cardinality(U) > n - 1 /\ U \in SUBSET S
    BY <1>2, <1>7
  <2> HIDE DEF U
  <2>2. Cardinality(U) <= n /\ Cardinality(U) \in Nat /\ (Cardinality(U) = n => U = S)
    <3>1. IsFiniteSet(U)
      BY <2>1, FS_Subset
    <3>2. QED
      BY <2>1, <3>1, FS_Subset, FS_CardinalityType
  <2>3. Cardinality(U) = n
    <3> HIDE DEF n
    <3>1. QED
      BY <1>1, <2>1, <2>2
  <2>4. U = S
    BY <2>2, <2>3
  <2>5. QED
    BY <2>4 DEF U
<1>9. QED
  BY <1>7, <1>8

-----------------------------------------------------------------------------
(* The tables of a calibration, and the gates fitted to them.              *)

\* The calibration of a fitted ranker, and the tables it was fitted to.
Fit == options.ranker.calibration
Tables(k) == [c \in DOMAIN k.conditions |-> TableOf(k.conditions[c], k.counts)]

\* What a policy of a fit is, if there is one.
LEMMA NotNone == \A policies, p : p \in OrNone(policies) /\ p # NoPolicy => p \in policies
BY DEF OrNone

\* What a fitted ranker holds.
LEMMA RankerIsFitted ==
    ASSUME Setting, Calibrated
    PROVE  LET r == options.ranker
               cal == Tables(Fit)
               ms == Fit.conditions
           IN  /\ Readable(Fit) /\ \E c \in DOMAIN ms : measured = ms[c]
               /\ r.oneProbe # NoPolicy => r.oneProbe \in OneProbePolicies(cal)
               /\ r.confidence # NoPolicy => r.confidence \in ConfidencePolicies(cal)
               /\ r.pool # NoPolicy => r.pool \in ReferencePools(cal, DOMAIN ms[1].sparse)
               /\ r.router # NoPolicy =>
                    /\ Len(r.router.candidates) >= 2
                    /\ \E p \in ReferencePools(cal, DOMAIN ms[1].sparse) :
                        r.router \in ReferenceRouters(cal, p.candidates, Fit.fits)
               /\ r.committed # NoPolicy =>
                    \E pool \in CommittedPools(cal) :
                        \E p \in CommittedRouters(cal, pool, Fit.fits) :
                            r.committed.metrics = p.metrics
<1> DEFINE r == options.ranker
           cal == Tables(Fit)
           ms == Fit.conditions
<1>1. PICK i \in DOMAIN Conditions : options \in Conditions[i].options
  BY DEF Setting
<1>2. r # NoPolicy /\ "calibration" \in DOMAIN r /\ measured \in ToSet(ms)
  BY DEF Calibrated, Ranker, Fit
<1>3. /\ Readable(Fit) /\ r \in FittedRankers(ms, Fit.counts, Fit.fits)
      /\ r.router # NoPolicy => Len(r.router.candidates) >= 2
  <2> DEFINE fitted == {x \in {o.ranker : o \in Conditions[i].options} :
                            x # NoPolicy /\ "calibration" \in DOMAIN x}
  <2>1. r \in fitted
    BY <1>1, <1>2
  <2>2. r.calibration \in {x.calibration : x \in fitted} /\ Fit = r.calibration
    BY <2>1 DEF Fit
  <2>3. /\ Readable(Fit)
        /\ {x \in fitted : x.calibration = Fit} \subseteq FittedRankers(ms, Fit.counts, Fit.fits)
        /\ \A x \in fitted : x.router # NoPolicy => Len(x.router.candidates) >= 2
    BY <2>2, FittedAssumption
  <2> HIDE DEF fitted
  <2>4. QED
    BY <2>1, <2>2, <2>3
<1> DEFINE Routers(pools) == UNION {ReferenceRouters(cal, p.candidates, Fit.fits) : p \in pools}
           committed == UNION {CommittedRouters(cal, pool, Fit.fits) : pool \in CommittedPools(cal)}
           Guarded(p) ==
                IF p = NoPolicy THEN p
                ELSE [candidates |-> p.candidates, minimum |-> p.minimum, metrics |-> p.metrics,
                      guard |-> RuntimeGuard(DevRows(ms, p.candidates))]
           pools == ReferencePools(cal, DOMAIN ms[1].sparse)
<1>4. /\ r.oneProbe \in OrNone(OneProbePolicies(cal))
      /\ r.confidence \in OrNone(ConfidencePolicies(cal))
      /\ r.pool \in OrNone(pools)
      /\ r.router \in OrNone(Routers(pools))
      /\ r.committed \in {Guarded(p) : p \in OrNone(committed)}
  BY <1>3 DEF FittedRankers, Tables
<1>5. \E c \in DOMAIN ms : measured = ms[c]
  BY <1>2 DEF ToSet
<1>6. r.committed # NoPolicy => \E pool \in CommittedPools(cal) :
            \E p \in CommittedRouters(cal, pool, Fit.fits) : r.committed.metrics = p.metrics
  <2> SUFFICES ASSUME r.committed # NoPolicy
               PROVE  \E pool \in CommittedPools(cal) :
                        \E p \in CommittedRouters(cal, pool, Fit.fits) : r.committed.metrics = p.metrics
    OBVIOUS
  <2> HIDE DEF cal, r
  <2>1. PICK p \in OrNone(committed) : r.committed = Guarded(p)
    BY <1>4
  <2>2. p # NoPolicy
    BY <2>1
  <2>3. p \in committed /\ r.committed.metrics = p.metrics
    BY <2>1, <2>2, NotNone
  <2>4. QED
    BY <2>3
<1>7. r.router # NoPolicy => \E p \in pools : r.router \in ReferenceRouters(cal, p.candidates, Fit.fits)
  <2> HIDE DEF cal, r, pools
  <2>1. r.router # NoPolicy => r.router \in Routers(pools)
    BY <1>4, NotNone
  <2>2. QED
    BY <2>1
<1>8. /\ r.oneProbe # NoPolicy => r.oneProbe \in OneProbePolicies(cal)
      /\ r.confidence # NoPolicy => r.confidence \in ConfidencePolicies(cal)
      /\ r.pool # NoPolicy => r.pool \in pools
  <2> HIDE DEF cal, r, pools
  <2>1. QED
    BY <1>4, NotNone
<1> HIDE DEF cal, r, ms
<1>9. QED
  BY <1>3, <1>5, <1>6, <1>7, <1>8 DEF cal, r, ms

-----------------------------------------------------------------------------
\* The candidates in the table of a condition.
KeysOf(m, counts) ==
    {NoRepair} \cup [selector : DOMAIN m.sparse, count : {AtMost(n) : n \in counts}]

\* What the table of a readable condition says of a candidate.
LEMMA TableFacts ==
    ASSUME NEW k, Readable(k), NEW c \in DOMAIN k.conditions
    PROVE  LET m == k.conditions[c]
               t == Tables(k)[c]
               keys == KeysOf(m, k.counts)
           IN  /\ DOMAIN t.kl = keys /\ DOMAIN t.nll = keys /\ DOMAIN t.doubt = keys
               /\ NoRepair \in keys /\ MaskOf(m, NoRepair) = {}
               /\ \A x \in keys :
                    /\ MaskOf(m, x) \in SUBSET Direct
                    /\ t.kl[x] = m.sparseKl[MaskOf(m, x)] /\ t.kl[x] \in Int
                    /\ t.nll[x] = m.nll[1][MaskOf(m, x)] /\ t.nll[x] \in Found
                    /\ t.doubt[x] = m.confidence[MaskOf(m, x)] /\ t.doubt[x] \in Found
               /\ \A x \in keys \ {NoRepair} :
                    /\ x.selector \in DOMAIN m.sparse /\ x.count \in Nat
                    /\ AtMost(x.count) = x.count /\ NameRank(x) \in Int
<1> DEFINE m == k.conditions[c]
           t == Tables(k)[c]
           keys == KeysOf(m, k.counts)
<1>1. /\ m \in ToSet(k.conditions) /\ DOMAIN m.sparse \subseteq ToSet(SelectorNames)
      /\ \A mask \in SUBSET Direct : m.sparseKl[mask] \in Int
      /\ Landscape(m.nll[1]) /\ Landscape(m.confidence) /\ k.counts \subseteq Nat \ {0}
  <2>1. m \in ToSet(k.conditions)
    BY DEF ToSet
  <2>2. QED
    BY <2>1 DEF Readable
<1>2. t = [kl |-> [x \in keys |-> m.sparseKl[MaskOf(m, x)]],
           nll |-> [x \in keys |-> m.nll[1][MaskOf(m, x)]],
           doubt |-> [x \in keys |-> m.confidence[MaskOf(m, x)]]]
  BY DEF Tables, TableOf, KeysOf
<1>3. \A x : MaskOf(m, x) \in SUBSET Direct
  BY TopMaskInside DEF MaskOf
<1>4. NoRepair \in keys /\ MaskOf(m, NoRepair) = {}
  BY DEF KeysOf, MaskOf
<1>5. ASSUME NEW x \in keys \ {NoRepair}
      PROVE  /\ x.selector \in DOMAIN m.sparse /\ x.count \in Nat
             /\ AtMost(x.count) = x.count /\ NameRank(x) \in Int
  <2>1. x.selector \in DOMAIN m.sparse /\ \E n \in k.counts : x.count = AtMost(n)
    BY DEF KeysOf
  <2>2. PICK n \in k.counts : x.count = AtMost(n)
    BY <2>1
  <2>3. n \in Nat
    BY <1>1
  <2>4. x.count \in Nat /\ AtMost(x.count) = x.count
    BY <2>2, <2>3, DirectSize DEF AtMost
  <2>5. NameRank(x) \in Int
    <3>1. PICK i \in DOMAIN SelectorNames : SelectorNames[i] = x.selector
      BY <1>1, <2>1 DEF ToSet
    <3>2. NameRank(x) \in DOMAIN SelectorNames
      BY <3>1 DEF NameRank
    <3>3. DOMAIN SelectorNames = 1..Len(SelectorNames) /\ Len(SelectorNames) \in Nat
      BY PolicyAssumption
    <3>4. QED
      BY <3>2, <3>3
  <2>6. QED
    BY <2>1, <2>4, <2>5
<1> HIDE DEF m, t, keys
<1>6. ASSUME NEW x \in keys
      PROVE  /\ t.kl[x] = m.sparseKl[MaskOf(m, x)] /\ t.kl[x] \in Int
             /\ t.nll[x] = m.nll[1][MaskOf(m, x)] /\ t.nll[x] \in Found
             /\ t.doubt[x] = m.confidence[MaskOf(m, x)] /\ t.doubt[x] \in Found
  BY <1>1, <1>2, <1>3 DEF Landscape, Found
<1>7. DOMAIN t.kl = keys /\ DOMAIN t.nll = keys /\ DOMAIN t.doubt = keys
  BY <1>2
<1>8. QED
  BY <1>3, <1>4, <1>5, <1>6, <1>7 DEF m, t, keys

\* A calibration has finitely many tables.
LEMMA TablesFinite ==
    ASSUME NEW k, Readable(k)
    PROVE  /\ DOMAIN Tables(k) = DOMAIN k.conditions /\ IsFiniteSet(DOMAIN Tables(k))
           /\ Cardinality(DOMAIN Tables(k)) = Len(k.conditions) /\ Len(k.conditions) \in Nat
<1>1. DOMAIN k.conditions = 1..Len(k.conditions) /\ Len(k.conditions) \in Nat
  BY DEF Readable
<1>2. IsFiniteSet(1..Len(k.conditions)) /\ Cardinality(1..Len(k.conditions)) = Len(k.conditions)
  BY <1>1, FS_Interval
<1>3. QED
  BY <1>1, <1>2 DEF Tables

\* What is measured of the candidates of the table it is fitted to.
LEMMA MaskOfCandidate ==
    ASSUME NEW k, Readable(k), NEW c \in DOMAIN k.conditions, measured = k.conditions[c],
           NEW x \in KeysOf(measured, k.counts) \ {NoRepair}
    PROVE  CandidateMask(x) = MaskOf(measured, x)
<1>1. AtMost(x.count) = x.count
  BY TableFacts
<1>2. QED
  BY <1>1 DEF CandidateMask, MaskOf

\* What the table of the condition at hand says.
LEMMA MeasuredTable ==
    ASSUME NEW k, Readable(k), NEW c \in DOMAIN k.conditions, measured = k.conditions[c]
    PROVE  /\ NoRepair \in KeysOf(measured, k.counts) /\ MaskOf(measured, NoRepair) = {}
           /\ \A x \in KeysOf(measured, k.counts) :
                /\ MaskOf(measured, x) \in SUBSET Direct
                /\ Tables(k)[c].kl[x] = measured.sparseKl[MaskOf(measured, x)]
                /\ Tables(k)[c].kl[x] \in Int
                /\ Tables(k)[c].nll[x] = measured.nll[1][MaskOf(measured, x)]
                /\ Tables(k)[c].doubt[x] = measured.confidence[MaskOf(measured, x)]
<1> DEFINE m == k.conditions[c]
           keys == KeysOf(m, k.counts)
           t == Tables(k)[c]
<1>1. NoRepair \in keys /\ MaskOf(m, NoRepair) = {}
  BY TableFacts
<1>1a. \A x \in keys :
            /\ MaskOf(m, x) \in SUBSET Direct
            /\ t.kl[x] = m.sparseKl[MaskOf(m, x)] /\ t.kl[x] \in Int
            /\ t.nll[x] = m.nll[1][MaskOf(m, x)]
            /\ t.doubt[x] = m.confidence[MaskOf(m, x)]
  BY TableFacts
<1>2. m = measured
  OBVIOUS
<1> HIDE DEF m
<1>3. QED
  BY <1>1, <1>1a, <1>2

\* A gate does no more harm than the worst its fit found.
LEMMA GateNoWorse ==
    ASSUME NEW k, Readable(k), NEW c0 \in DOMAIN k.conditions, measured = k.conditions[c0],
           NEW score, NEW s,
           \A c \in DOMAIN k.conditions : DOMAIN score[c] = KeysOf(k.conditions[c], k.counts),
           \A x \in KeysOf(measured, k.counts) :
                score[c0][x] = s[MaskOf(measured, x)] /\ score[c0][x] \in Found,
           NEW p \in GatePolicies(Tables(k), score), p.margin \in Nat
    PROVE  LET mask == GateMask(s, CandidateMask(p.candidate), p.margin)
           IN  measured.sparseKl[mask] - measured.sparseKl[{}] <= p.worst
<1> DEFINE cal == Tables(k)
           choice(x, margin) == GatedChoice(cal, score, x, margin)
           gains(x, margin) == Gains(cal, choice(x, margin))
           policies == {GateFit(cal, score, x, m) : x \in Probed(cal, score), m \in ProbeMargins}
           keyed == [q \in policies |-> GateKey(q)]
<1>1. p \in Best(policies, keyed)
  BY DEF GatePolicies
<1>2. p \in policies
  <2> HIDE DEF policies, keyed
  <2>1. QED
    BY <1>1, BestFacts
<1>3. PICK x \in Probed(cal, score), margin \in ProbeMargins : p = GateFit(cal, score, x, margin)
  BY <1>2
<1>3a. x \in Candidates(cal)
       /\ \A c \in DOMAIN cal : /\ {x, NoRepair} \subseteq DOMAIN score[c]
                                /\ score[c][x] # NaN /\ score[c][NoRepair] # NaN
  BY DEF Probed
<1> DEFINE g == gains(x, margin)
           S == {g[c] : c \in DOMAIN cal}
           mask == GateMask(s, CandidateMask(x), margin)
           kept == choice(x, margin)[c0]
<1>4. p.candidate = x /\ p.margin = margin /\ p.worst = -Min(S)
  BY <1>3 DEF GateFit
<1>5. x # NoRepair /\ DOMAIN cal = DOMAIN k.conditions /\ IsFiniteSet(DOMAIN cal)
  BY <1>3a, TablesFinite DEF Candidates
<1>6. \A c \in DOMAIN cal : choice(x, margin)[c] \in {x, NoRepair}
  BY DEF GatedChoice
<1>7. \A c \in DOMAIN cal : g[c] = cal[c].kl[NoRepair] - cal[c].kl[choice(x, margin)[c]]
  BY DEF Gains
<1>7a. c0 \in DOMAIN cal /\ kept = IF Passes(score[c0][x], score[c0][NoRepair], margin) THEN x ELSE NoRepair
  BY <1>5 DEF GatedChoice
<1>8. \A c \in DOMAIN cal : {x, NoRepair} \subseteq KeysOf(k.conditions[c], k.counts)
  BY <1>3a, <1>5
<1>8a. score[c0][x] # NaN /\ score[c0][NoRepair] # NaN
  BY <1>3a, <1>7a
<1> HIDE DEF cal, keyed, policies, choice, gains
<1>9. \A c \in DOMAIN cal : g[c] \in Int
  <2> SUFFICES ASSUME NEW c \in DOMAIN cal PROVE g[c] \in Int
    OBVIOUS
  <2>1. cal[c].kl[x] \in Int /\ cal[c].kl[NoRepair] \in Int
    BY <1>5, <1>8, TableFacts DEF cal
  <2>2. QED
    BY <1>6, <1>7, <2>1
<1> HIDE DEF g
<1>10. \A v \in S : Min(S) <= v /\ Min(S) \in Int
  <2>1. IsFiniteSet(S)
    BY <1>5, FiniteImage
  <2>2. S \in SUBSET Int /\ S # {}
    BY <1>7a, <1>9
  <2> HIDE DEF S
  <2>3. QED
    BY <2>1, <2>2, LeastInteger
<1>11. g[c0] \in S
  BY <1>7a
<1>12. mask = MaskOf(measured, kept)
  <2>1. {x, NoRepair} \subseteq KeysOf(measured, k.counts)
    BY <1>7a, <1>8
  <2>2. CandidateMask(x) = MaskOf(measured, x) /\ MaskOf(measured, NoRepair) = {}
    BY <1>5, <2>1, MaskOfCandidate DEF MaskOf
  <2>3. score[c0][x] = s[CandidateMask(x)] /\ score[c0][NoRepair] = s[{}]
        /\ score[c0][x] \in Int /\ score[c0][NoRepair] \in Int
    BY <1>8a, <2>1, <2>2 DEF Found
  <2>4. s[{}] # NaN /\ Less(s[CandidateMask(x)], s[{}] - margin)
            <=> Passes(score[c0][x], score[c0][NoRepair], margin)
    <3>1. margin \in Nat /\ NaN \notin Int
      BY <1>4, ScoresAssumption
    <3>2. s[{}] - margin \in Int /\ s[{}] - margin # NaN
      BY <2>3, <3>1
    <3>3. QED
      BY <2>3, <3>1, <3>2 DEF Less, Passes
  <2>5. QED
    BY <1>7a, <2>2, <2>4 DEF GateMask
<1>13. g[c0] = measured.sparseKl[{}] - measured.sparseKl[mask]
       /\ measured.sparseKl[{}] \in Int /\ measured.sparseKl[mask] \in Int
  <2>1. kept \in {x, NoRepair} /\ {x, NoRepair} \subseteq KeysOf(measured, k.counts)
    BY <1>6, <1>7a, <1>8
  <2>2. /\ cal[c0].kl[kept] = measured.sparseKl[MaskOf(measured, kept)] /\ cal[c0].kl[kept] \in Int
        /\ cal[c0].kl[NoRepair] = measured.sparseKl[{}] /\ cal[c0].kl[NoRepair] \in Int
    <3> HIDE DEF kept
    <3>1. kept \in KeysOf(measured, k.counts) /\ NoRepair \in KeysOf(measured, k.counts)
      BY <2>1
    <3>2. /\ \A y \in KeysOf(measured, k.counts) :
                cal[c0].kl[y] = measured.sparseKl[MaskOf(measured, y)] /\ cal[c0].kl[y] \in Int
          /\ MaskOf(measured, NoRepair) = {}
      BY MeasuredTable DEF cal
    <3>3. QED
      BY <3>1, <3>2
  <2>3. g[c0] = cal[c0].kl[NoRepair] - cal[c0].kl[kept]
    BY <1>7, <1>7a
  <2> HIDE DEF mask, kept
  <2>4. QED
    BY <1>12, <2>2, <2>3
<1> HIDE DEF mask, S
<1>14. Min(S) <= g[c0] /\ Min(S) \in Int
  BY <1>10, <1>11
<1>15. measured.sparseKl[mask] - measured.sparseKl[{}] <= p.worst
  BY <1>4, <1>13, <1>14
<1>16. QED
  BY <1>4, <1>15 DEF mask

-----------------------------------------------------------------------------
(* The pools of candidates.                                                *)

\* A readable condition has finitely many candidates.
LEMMA KeysFinite ==
    ASSUME NEW k, Readable(k), NEW c \in DOMAIN k.conditions
    PROVE  IsFiniteSet(KeysOf(k.conditions[c], k.counts))
<1> DEFINE m == k.conditions[c]
           A == DOMAIN m.sparse
           B == {AtMost(n) : n \in k.counts}
           f == [z \in A \X B |-> [selector |-> z[1], count |-> z[2]]]
<1>1. IsFiniteSet(A)
  <2>1. A \subseteq ToSet(SelectorNames)
    BY DEF Readable, ToSet
  <2>2. IsFiniteSet(ToSet(SelectorNames))
    BY PolicyAssumption, MembersOf
  <2>3. QED
    BY <2>1, <2>2, FS_Subset
<1>2. IsFiniteSet(B)
  <2>1. B \subseteq 0..Cardinality(Direct)
    <3> SUFFICES ASSUME NEW n \in k.counts PROVE AtMost(n) \in 0..Cardinality(Direct)
      OBVIOUS
    <3>1. n \in Nat
      BY DEF Readable
    <3>2. QED
      BY <3>1, DirectSize DEF AtMost
  <2>2. IsFiniteSet(0..Cardinality(Direct))
    BY DirectSize, FS_Interval
  <2>3. QED
    BY <2>1, <2>2, FS_Subset
<1>3. [selector : A, count : B] = {f[z] : z \in A \X B}
  <2> HIDE DEF A, B
  <2>1. \A z \in A \X B : f[z] = [selector |-> z[1], count |-> z[2]]
    OBVIOUS
  <2> HIDE DEF f
  <2>2. ASSUME NEW z \in A \X B PROVE f[z] \in [selector : A, count : B]
    <3>1. z[1] \in A /\ z[2] \in B
      OBVIOUS
    <3>2. f[z] = [selector |-> z[1], count |-> z[2]]
      BY <2>1
    <3>3. [selector |-> z[1], count |-> z[2]] \in [selector : A, count : B]
      BY <3>1
    <3>4. QED
      BY <3>2, <3>3
  <2>3. ASSUME NEW x \in [selector : A, count : B] PROVE \E z \in A \X B : x = f[z]
    <3>1. <<x.selector, x.count>> \in A \X B
      OBVIOUS
    <3>2. f[<<x.selector, x.count>>] = [selector |-> x.selector, count |-> x.count]
      BY <2>1, <3>1
    <3>3. x = [selector |-> x.selector, count |-> x.count]
      OBVIOUS
    <3>4. QED
      BY <3>1, <3>2, <3>3
  <2>4. QED
    BY <2>2, <2>3, ZenonT(30)
<1>4. IsFiniteSet({f[z] : z \in A \X B})
  <2>1. IsFiniteSet(A \X B)
    BY <1>1, <1>2, FS_Product
  <2> HIDE DEF A, B, f
  <2>2. QED
    BY <2>1, FiniteImage
<1>5. KeysOf(m, k.counts) = [selector : A, count : B] \cup {NoRepair}
  BY DEF KeysOf
<1>5a. IsFiniteSet([selector : A, count : B])
  <2> HIDE DEF A, B, f
  <2>1. QED
    BY <1>3, <1>4
<1> DEFINE T == [selector : A, count : B]
<1> HIDE DEF T
<1>6. IsFiniteSet(T \cup {NoRepair})
  BY <1>5a, FS_AddElement DEF T
<1>7. QED
  BY <1>5, <1>6 DEF T

\* The tables of some of the conditions.
Part(k, D) == [c \in D |-> Tables(k)[c]]

\* What choices of candidates gain on some of the conditions are numbers.
LEMMA GainsFacts ==
    ASSUME NEW k, Readable(k), NEW D \in SUBSET DOMAIN k.conditions, NEW choice,
           \A c \in D : choice[c] \in KeysOf(k.conditions[c], k.counts)
    PROVE  LET g == Gains(Part(k, D), choice)
           IN  /\ DOMAIN g = D /\ IsFiniteSet(D)
               /\ \A c \in D :
                    /\ g[c] = Tables(k)[c].kl[NoRepair] - Tables(k)[c].kl[choice[c]]
                    /\ g[c] \in Int
               /\ Total(g) \in Int /\ Positive(g) \in Nat /\ Negative(g) \in Nat
               /\ Negative(g) = 0 <=> \A c \in D : g[c] >= 0
<1> DEFINE g == Gains(Part(k, D), choice)
<1>1. DOMAIN g = D /\ \A c \in D : g[c] = Tables(k)[c].kl[NoRepair] - Tables(k)[c].kl[choice[c]]
  BY DEF Gains, Part
<1>2. IsFiniteSet(D)
  BY TablesFinite, FS_Subset
<1>3. ASSUME NEW c \in D PROVE g[c] \in Int
  <2>1. \A x \in KeysOf(k.conditions[c], k.counts) : Tables(k)[c].kl[x] \in Int
    BY TableFacts
  <2>2. NoRepair \in KeysOf(k.conditions[c], k.counts)
    BY DEF KeysOf
  <2> HIDE DEF g
  <2>3. QED
    BY <1>1, <2>1, <2>2
<1> HIDE DEF g
<1>4. Total(g) \in Int
  BY <1>1, <1>2, <1>3, SumFacts
<1>5. /\ Positive(g) \in Nat /\ Negative(g) \in Nat
      /\ Negative(g) = 0 <=> \A c \in D : ~(g[c] < 0)
  BY <1>1, <1>2, HarmsCounted
<1>6. QED
  BY <1>1, <1>2, <1>3, <1>4, <1>5 DEF g

\* What is available was measured on each of the conditions.
LEMMA AvailableFacts ==
    ASSUME NEW k, Readable(k), NEW D \in SUBSET DOMAIN k.conditions,
           NEW score, DOMAIN score = D,
           \A c \in D : DOMAIN score[c] = KeysOf(k.conditions[c], k.counts)
    PROVE  LET available == Available(score)
           IN  /\ available # {} => D # {}
               /\ IsFiniteSet(available)
               /\ \A x \in available :
                    /\ \A c \in D : x \in KeysOf(k.conditions[c], k.counts) \ {NoRepair}
                    /\ x.count \in Int /\ NameRank(x) \in Int
<1> DEFINE available == Available(score)
<1>1. \A x \in available : /\ \E c \in D : TRUE
                           /\ \A c \in D : x \in KeysOf(k.conditions[c], k.counts) \ {NoRepair}
  BY DEF Available
<1> HIDE DEF available
<1>2. IsFiniteSet(available)
  <2>1. CASE available = {}
    BY <2>1, FS_EmptySet
  <2>2. CASE available # {}
    <3>1. PICK c \in D : TRUE
      BY <1>1, <2>2
    <3>2. available \in SUBSET KeysOf(k.conditions[c], k.counts)
      BY <1>1
    <3>3. QED
      BY <3>2, KeysFinite, FS_Subset
  <2>3. QED
    BY <2>1, <2>2
<1>3. ASSUME NEW x \in available PROVE x.count \in Int /\ NameRank(x) \in Int
  <2>1. PICK c \in D : TRUE
    BY <1>1
  <2>2. x \in KeysOf(k.conditions[c], k.counts) \ {NoRepair}
    BY <1>1
  <2>3. x.count \in Nat /\ NameRank(x) \in Int
    BY <2>2, TableFacts
  <2>4. QED
    BY <2>3
<1>4. QED
  BY <1>1, <1>2, <1>3 DEF available

\* The choice of a pool goes from one candidate to the next.
LEMMA PoolChoiceSteps ==
    ASSUME NEW nll, NEW K, NoRepair \in K, NEW pool \in Seq(K)
    PROVE  \E choice \in [0..Len(pool) -> K] :
            /\ choice[0] = NoRepair /\ PoolChoice(nll, pool) = choice[Len(pool)]
            /\ \A i \in 1..Len(pool) :
                choice[i] = IF Less(nll[pool[i]], nll[choice[i - 1]]) THEN pool[i] ELSE choice[i - 1]
<1> DEFINE n == Len(pool)
           Body(i, was) == IF Less(nll[pool[i]], nll[was]) THEN pool[i] ELSE was
           step == [i \in 1..n |-> [x \in K |-> Body(i, x)]]
           Table(g) == [i \in 0..n |-> IF i = 0 THEN NoRepair ELSE Body(i, g[i - 1])]
           choice == CHOOSE g : g = Table(g)
<1>1. n \in Nat /\ \A i \in 1..n : pool[i] \in K
  OBVIOUS
<1>2. \A i \in 1..n : \A x \in K : step[i][x] = Body(i, x) /\ Body(i, x) \in K
  BY <1>1
<1> HIDE DEF n, Body, step
<1>3. PICK g \in [0..n -> K] : g[0] = NoRepair /\ \A i \in 1..n : g[i] = step[i][g[i - 1]]
  <2>1. Iterable(n, K, NoRepair, step)
    BY <1>1, <1>2, Iterates
  <2>2. QED
    BY <2>1 DEF Iterable
<1>4. g = Table(g)
  <2>1. \A i \in 1..n : i - 1 \in 0..n /\ g[i - 1] \in K
    <3>1. \A i \in 1..n : i - 1 \in 0..n
      BY <1>1
    <3>2. QED
      BY <3>1
  <2>2. \A i \in 1..n : g[i] = Body(i, g[i - 1])
    BY <1>2, <1>3, <2>1
  <2>3. QED
    BY <1>3, <2>2
<1>5. choice = Table(choice)
  <2> HIDE DEF Table
  <2>1. QED
    BY <1>4
<1>6. PoolChoice(nll, pool) = choice[n]
  BY DEF PoolChoice, n, Body
<1> HIDE DEF choice
<1>7. choice[0] = NoRepair /\ \A i \in 1..n : choice[i] = Body(i, choice[i - 1])
  <2>1. 0 \in 0..n /\ \A i \in 1..n : i \in 0..n /\ i # 0
    BY <1>1
  <2>2. QED
    BY <1>5, <2>1
<1> DEFINE S == {i \in 0..n : choice[i] \in K}
<1>8. \A i \in 0..n : i \in S
  <2>1. 0 \in S
    BY <1>1, <1>7
  <2>2. ASSUME NEW i \in 0..(n - 1), i \in S PROVE i + 1 \in S
    <3>1. i + 1 \in 1..n /\ (i + 1) - 1 = i /\ i + 1 \in 0..n
      BY <1>1
    <3>2. choice[i + 1] = Body(i + 1, choice[i])
      BY <1>7, <3>1
    <3>3. QED
      BY <1>2, <2>2, <3>1, <3>2
  <2> HIDE DEF S
  <2>3. QED
    BY <1>1, <2>1, <2>2, UpTo
<1>9. choice \in [0..n -> K]
  <2>1. choice = [i \in 0..n |-> choice[i]]
    BY <1>5, Zenon
  <2>2. QED
    BY <1>8, <2>1
<1>10. QED
  BY <1>6, <1>7, <1>9 DEF n, Body

\* A pool chooses one of its candidates, or none.
LEMMA PoolChoiceInside ==
    ASSUME NEW nll, NEW K, NoRepair \in K, NEW pool \in Seq(K)
    PROVE  PoolChoice(nll, pool) \in K
<1>1. PICK choice \in [0..Len(pool) -> K] : PoolChoice(nll, pool) = choice[Len(pool)]
  BY PoolChoiceSteps
<1>2. Len(pool) \in 0..Len(pool)
  OBVIOUS
<1>3. QED
  BY <1>1, <1>2

\* The masks of the candidates are served as the candidates are chosen.
LEMMA PoolServesChoice ==
    ASSUME NEW score, Landscape(score), score[{}] # NaN,
           NEW nll, NEW K, NoRepair \in K, NEW maskOf \in [K -> SUBSET Direct],
           maskOf[NoRepair] = {}, \A x \in K : nll[x] = score[maskOf[x]],
           NEW pool \in Seq(K)
    PROVE  LET masks == [i \in DOMAIN pool |-> maskOf[pool[i]]]
           IN  PoolMask(score, masks, score[{}], 0) = maskOf[PoolChoice(nll, pool)]
<1> DEFINE masks == [i \in DOMAIN pool |-> maskOf[pool[i]]]
           n == Len(pool)
<1>1. n \in Nat /\ DOMAIN pool = 1..n /\ \A i \in 1..n : pool[i] \in K
  OBVIOUS
<1>2. masks \in Seq(SUBSET Direct) /\ Len(masks) = n /\ \A i \in 1..n : masks[i] = maskOf[pool[i]]
  BY <1>1
<1>3. PICK choice \in [0..n -> K] :
        /\ choice[0] = NoRepair /\ PoolChoice(nll, pool) = choice[n]
        /\ \A i \in 1..n :
            choice[i] = IF Less(nll[pool[i]], nll[choice[i - 1]]) THEN pool[i] ELSE choice[i - 1]
  BY PoolChoiceSteps
<1> HIDE DEF masks, n
<1>4. PICK select \in [0..n -> [mask : SUBSET Direct, score : Found]] :
        /\ PoolSteps(select, score, masks, score[{}], 0)
        /\ PoolMask(score, masks, score[{}], 0) = select[n].mask
  <2>1. score[{}] = NaN \/ score[{}] \in Int
    BY DEF Landscape
  <2>2. QED
    BY <1>2, <2>1, PoolMaskSteps, SMTT(30)
<1>4a. /\ select[0] = [mask |-> {}, score |-> score[{}]]
       /\ \A i \in 1..n : LET was == select[i - 1] IN
            select[i] = IF was.score # NaN /\ Less(score[masks[i]], was.score - 0)
                        THEN [mask |-> masks[i], score |-> score[masks[i]]] ELSE was
  BY <1>2, <1>4 DEF PoolSteps
<1> DEFINE S == {i \in 0..n : /\ select[i].mask = maskOf[choice[i]]
                              /\ select[i].score = nll[choice[i]] /\ nll[choice[i]] \in Int}
<1>5. 0 \in S
  <2>1. score[{}] \in Int
    BY DEF Landscape
  <2>2. select[0].mask = {} /\ select[0].score = score[{}]
    BY <1>4a
  <2>3. maskOf[choice[0]] = {} /\ nll[choice[0]] = score[{}]
    BY <1>3
  <2>4. 0 \in 0..n
    BY <1>1
  <2>5. QED
    BY <2>1, <2>2, <2>3, <2>4
<1>6. ASSUME NEW i \in 0..(n - 1), i \in S PROVE i + 1 \in S
  <2>1. i + 1 \in 1..n /\ (i + 1) - 1 = i /\ i + 1 \in 0..n /\ i \in 0..n
    BY <1>1
  <2> DEFINE was == select[i]
             x == pool[i + 1]
             y == choice[i]
  <2>2. /\ choice[i + 1] = IF Less(nll[x], nll[y]) THEN x ELSE y
        /\ select[i + 1] = IF was.score # NaN /\ Less(score[masks[i + 1]], was.score - 0)
                           THEN [mask |-> masks[i + 1], score |-> score[masks[i + 1]]] ELSE was
    BY <1>3, <1>4a, <2>1
  <2>3. /\ was.mask = maskOf[y] /\ was.score = nll[y] /\ nll[y] \in Int /\ nll[y] # NaN
        /\ masks[i + 1] = maskOf[x] /\ score[masks[i + 1]] = nll[x] /\ x \in K /\ y \in K
    BY <1>1, <1>2, <1>6, <2>1, ScoresAssumption
  <2>4. nll[x] = NaN \/ nll[x] \in Int
    BY <2>3 DEF Landscape
  <2> HIDE DEF was, x, y
  <2>5. was.score - 0 = nll[y]
    BY <2>3
  <2>6. CASE Less(nll[x], nll[y])
    <3>1. choice[i + 1] = x /\ select[i + 1] = [mask |-> maskOf[x], score |-> nll[x]]
      BY <2>2, <2>3, <2>5, <2>6
    <3>2. nll[x] \in Int
      BY <2>4, <2>6 DEF Less
    <3>3. QED
      BY <2>1, <3>1, <3>2
  <2>7. CASE ~Less(nll[x], nll[y])
    <3>1. choice[i + 1] = y /\ select[i + 1] = was
      BY <2>2, <2>3, <2>5, <2>7
    <3>2. QED
      BY <2>1, <2>3, <3>1
  <2>8. QED
    BY <2>6, <2>7
<1> HIDE DEF S
<1>7. n \in S
  <2>1. \A i \in 0..n : i \in S
    BY <1>1, <1>5, <1>6, UpTo
  <2>2. QED
    BY <1>1, <2>1
<1>8. QED
  BY <1>3, <1>4, <1>7 DEF S, masks

\* What probing a pool gains on some of the conditions, and the least of it.
PoolGain(k, D, pool) == Gains(Part(k, D), [c \in D |-> PoolChoice(Tables(k)[c].nll, pool)])
PoolWorst(k, D, pool) ==
    Min({Relative(Tables(k)[c].kl[NoRepair], PoolGain(k, D, pool)[c]) :
            c \in DOMAIN PoolGain(k, D, pool)})

\* A relative gain is a number.
LEMMA RelativeGain == \A stale, gain \in Int : Relative(stale, gain) \in Int
<1> SUFFICES ASSUME NEW stale \in Int, NEW gain \in Int PROVE Relative(stale, gain) \in Int
  OBVIOUS
<1> DEFINE scale == IF stale > 1 THEN stale ELSE 1
           scaled == gain * Share
<1>1. scale \in Nat \ {0}
  OBVIOUS
<1>2. scaled \in Int
  BY PolicyAssumption
<1>3. Relative(stale, gain) = scaled \div scale
  BY DEF Relative
<1> HIDE DEF scale, scaled
<1>4. scaled \div scale \in Int
  BY <1>1, <1>2
<1>5. QED
  BY <1>3, <1>4

\* What probing a pool gains are numbers, and it gains no less than the least.
LEMMA PoolGainFacts ==
    ASSUME NEW k, Readable(k), NEW D \in SUBSET DOMAIN k.conditions, D # {}, NEW pool,
           \A c \in D : pool \in Seq(KeysOf(k.conditions[c], k.counts))
    PROVE  LET g == PoolGain(k, D, pool)
           IN  /\ DOMAIN g = D /\ IsFiniteSet(D)
               /\ \A c \in D :
                    /\ PoolChoice(Tables(k)[c].nll, pool) \in KeysOf(k.conditions[c], k.counts)
                    /\ g[c] = Tables(k)[c].kl[NoRepair]
                                - Tables(k)[c].kl[PoolChoice(Tables(k)[c].nll, pool)]
                    /\ g[c] \in Int
               /\ Total(g) \in Int /\ Positive(g) \in Nat /\ Negative(g) \in Nat
               /\ Negative(g) = 0 <=> \A c \in D : g[c] >= 0
               /\ PoolWorst(k, D, pool) \in Int
               /\ \A c \in D :
                    PoolWorst(k, D, pool) <= Relative(Tables(k)[c].kl[NoRepair], g[c])
<1> DEFINE choice == [c \in D |-> PoolChoice(Tables(k)[c].nll, pool)]
           g == PoolGain(k, D, pool)
           relative == [c \in D |-> Relative(Tables(k)[c].kl[NoRepair], g[c])]
           S == {relative[c] : c \in D}
<1>1. \A c \in D : choice[c] \in KeysOf(k.conditions[c], k.counts)
  <2> SUFFICES ASSUME NEW c \in D PROVE choice[c] \in KeysOf(k.conditions[c], k.counts)
    OBVIOUS
  <2>1. NoRepair \in KeysOf(k.conditions[c], k.counts)
    BY DEF KeysOf
  <2>2. QED
    BY <2>1, PoolChoiceInside
<1>2. g = Gains(Part(k, D), choice)
  BY DEF PoolGain
<1>2a. \A c \in D : choice[c] = PoolChoice(Tables(k)[c].nll, pool)
  OBVIOUS
<1> HIDE DEF choice, g
<1>3. /\ DOMAIN g = D /\ IsFiniteSet(D)
      /\ \A c \in D : /\ g[c] = Tables(k)[c].kl[NoRepair] - Tables(k)[c].kl[choice[c]]
                      /\ g[c] \in Int
      /\ Total(g) \in Int /\ Positive(g) \in Nat /\ Negative(g) \in Nat
      /\ Negative(g) = 0 <=> \A c \in D : g[c] >= 0
  BY <1>1, <1>2, GainsFacts
<1>4. \A c \in D : relative[c] \in Int
  <2> SUFFICES ASSUME NEW c \in D PROVE relative[c] \in Int
    OBVIOUS
  <2>1. Tables(k)[c].kl[NoRepair] \in Int
    <3>1. NoRepair \in KeysOf(k.conditions[c], k.counts)
      BY DEF KeysOf
    <3>2. QED
      BY <3>1, TableFacts
  <2>2. QED
    BY <1>3, <2>1, RelativeGain
<1>5. PoolWorst(k, D, pool) = Min(S)
  <2>1. {Relative(Tables(k)[c].kl[NoRepair], PoolGain(k, D, pool)[c]) :
            c \in DOMAIN PoolGain(k, D, pool)} = S
    BY <1>3 DEF g
  <2>2. QED
    BY <2>1 DEF PoolWorst
<1>6. S \in SUBSET Int /\ S # {} /\ \A c \in D : relative[c] \in S
  BY <1>4
<1>7. IsFiniteSet(S)
  <2> HIDE DEF relative
  <2>1. QED
    BY <1>3, FiniteImage
<1>8. \A c \in D : relative[c] = Relative(Tables(k)[c].kl[NoRepair], g[c])
  OBVIOUS
<1> HIDE DEF relative, S
<1>9. Min(S) \in Int /\ \A c \in D : Min(S) <= relative[c]
  <2>1. Min(S) \in S /\ \A x \in S : Min(S) <= x
    BY <1>6, <1>7, LeastInteger
  <2>2. QED
    BY <1>6, <2>1
<1>10. QED
  BY <1>1, <1>2a, <1>3, <1>5, <1>8, <1>9 DEF g

\* What a fit says of a reference pool: its candidates were measured on every
\* material condition.
LEMMA ReferencePoolFacts ==
    ASSUME NEW k, Readable(k), NEW selectors, NEW p \in ReferencePools(Tables(k), selectors)
    PROVE  LET D == Material(Tables(k))
           IN  /\ D \in SUBSET DOMAIN k.conditions /\ D # {}
               /\ p.candidates # <<>> /\ Len(p.candidates) \in 1..PoolSize
               /\ \A c \in D : p.candidates \in Seq(KeysOf(k.conditions[c], k.counts) \ {NoRepair})
               /\ \E A : p.candidates \in Seq(A)
               /\ p.margin = 0 /\ p.harmful = Negative(PoolGain(k, D, p.candidates))
               /\ p.worst = PoolWorst(k, D, p.candidates)
<1> DEFINE cal == Tables(k)
           D == Material(cal)
           score == [c \in D |-> cal[c].nll]
           available == {x \in Available(score) : x.selector \in selectors}
           Fitted(pool) ==
                [candidates |-> pool, margin |-> 0, harmful |-> Negative(PoolGain(k, D, pool)),
                 gain |-> Total(PoolGain(k, D, pool)),
                 beneficial |-> Positive(PoolGain(k, D, pool)),
                 worst |-> PoolWorst(k, D, pool)]
           key == [pool \in Seq(available) |->
                LET q == Fitted(pool) IN <<-q.harmful, q.gain, q.worst, q.beneficial>>]
           grown == GrownPool(available, PoolSize, key)
<1>1. available # {} /\ p = Fitted(grown)
  BY DEF ReferencePools, PoolGain, PoolWorst, Part
<1>2. D \in SUBSET DOMAIN k.conditions
  BY TablesFinite DEF Material
<1>3. /\ DOMAIN score = D
      /\ \A c \in D : DOMAIN score[c] = KeysOf(k.conditions[c], k.counts)
  BY <1>2, TableFacts
<1> HIDE DEF cal, D, score
<1>4. /\ D # {} /\ IsFiniteSet(available)
      /\ \A x \in available :
            /\ \A c \in D : x \in KeysOf(k.conditions[c], k.counts) \ {NoRepair}
            /\ x.count \in Int /\ NameRank(x) \in Int
  <2>1. available \subseteq Available(score)
    OBVIOUS
  <2>2. /\ Available(score) # {} => D # {}
        /\ IsFiniteSet(Available(score))
        /\ \A x \in Available(score) :
            /\ \A c \in D : x \in KeysOf(k.conditions[c], k.counts) \ {NoRepair}
            /\ x.count \in Int /\ NameRank(x) \in Int
    BY <1>2, <1>3, AvailableFacts
  <2> HIDE DEF available
  <2>3. QED
    BY <1>1, <2>1, <2>2, FS_Subset
<1> HIDE DEF available
<1>5. ASSUME NEW pool \in Seq(available)
      PROVE  key[pool] \in Seq(Int) /\ Len(key[pool]) = 4
  <2> DEFINE g == PoolGain(k, D, pool)
  <2>1. \A c \in D : pool \in Seq(KeysOf(k.conditions[c], k.counts))
    <3> SUFFICES ASSUME NEW c \in D PROVE pool \in Seq(KeysOf(k.conditions[c], k.counts))
      OBVIOUS
    <3>1. available \subseteq KeysOf(k.conditions[c], k.counts)
      BY <1>4
    <3>2. QED
      BY <3>1
  <2>2. Negative(g) \in Nat /\ Total(g) \in Int /\ PoolWorst(k, D, pool) \in Int /\ Positive(g) \in Nat
    BY <1>2, <1>4, <2>1, PoolGainFacts
  <2>3. key[pool] = <<-Negative(g), Total(g), PoolWorst(k, D, pool), Positive(g)>>
    OBVIOUS
  <2> HIDE DEF g, key
  <2>4. QED
    BY <2>2, <2>3
<1> HIDE DEF key
<1>6. grown \in Seq(available) \ {<<>>} /\ Len(grown) \in 1..PoolSize
  <2>1. PoolSize \in Nat \ {0} /\ 4 \in Nat
    BY PolicyAssumption
  <2>2. /\ GrownPool(available, PoolSize, key) \in Seq(available) \ {<<>>}
        /\ Len(GrownPool(available, PoolSize, key)) \in 1..PoolSize
    BY <1>1, <1>4, <1>5, <2>1, GrownPoolFacts
  <2>3. QED
    BY <2>2
<1> HIDE DEF grown
<1>7. \A c \in D : grown \in Seq(KeysOf(k.conditions[c], k.counts) \ {NoRepair})
  <2> SUFFICES ASSUME NEW c \in D
               PROVE  grown \in Seq(KeysOf(k.conditions[c], k.counts) \ {NoRepair})
    OBVIOUS
  <2>1. available \subseteq KeysOf(k.conditions[c], k.counts) \ {NoRepair}
    BY <1>4
  <2>2. QED
    BY <1>6, <2>1
<1>8. /\ p.candidates = grown /\ p.margin = 0 /\ p.harmful = Negative(PoolGain(k, D, grown))
      /\ p.worst = PoolWorst(k, D, grown)
  BY <1>1
<1>9. QED
  BY <1>2, <1>4, <1>6, <1>7, <1>8 DEF D, cal

\* On a material condition of its fit a pool does no more harm than its worst,
\* and none if it did none.
LEMMA PoolNoWorse ==
    ASSUME NEW k, Readable(k), NEW c0 \in DOMAIN k.conditions, measured = k.conditions[c0],
           NEW selectors, NEW p \in ReferencePools(Tables(k), selectors),
           measured.sparseKl[{}] >= MinStaleKl, measured.nll[1][{}] # NaN
    PROVE  LET masks == [i \in DOMAIN p.candidates |-> CandidateMask(p.candidates[i])]
               mask == PoolMask(measured.nll[1], masks, measured.nll[1][{}], p.margin)
               stale == measured.sparseKl[{}]
           IN  /\ Relative(stale, -(measured.sparseKl[mask] - stale)) >= p.worst
               /\ p.harmful = 0 => measured.sparseKl[mask] - stale <= 0
<1> DEFINE pool == p.candidates
           masks == [i \in DOMAIN pool |-> CandidateMask(pool[i])]
           stale == measured.sparseKl[{}]
           cal == Tables(k)
           D == Material(cal)
           K == KeysOf(measured, k.counts)
           maskOf == [x \in K |-> MaskOf(measured, x)]
           choice == PoolChoice(cal[c0].nll, pool)
           g == PoolGain(k, D, pool)
<1>1. /\ NoRepair \in K /\ maskOf[NoRepair] = {}
      /\ \A x \in K : /\ maskOf[x] \in SUBSET Direct
                      /\ cal[c0].kl[x] = measured.sparseKl[maskOf[x]]
                      /\ cal[c0].kl[x] \in Int
                      /\ cal[c0].nll[x] = measured.nll[1][maskOf[x]]
  BY MeasuredTable
<1>1a. DOMAIN maskOf = K /\ maskOf \in [K -> SUBSET Direct]
  BY <1>1
<1>1b. \A x \in K \ {NoRepair} : CandidateMask(x) = maskOf[x]
  BY MaskOfCandidate
<1> HIDE DEF maskOf
<1>2. c0 \in D
  <2>1. cal[c0].kl[NoRepair] = stale /\ cal[c0].kl[NoRepair] \in Int
        /\ cal[c0].nll[NoRepair] = measured.nll[1][{}]
    BY <1>1
  <2>2. NaN \notin Int /\ c0 \in DOMAIN cal
    BY ScoresAssumption, TablesFinite
  <2> HIDE DEF cal
  <2>3. QED
    BY <2>1, <2>2 DEF Material
<1>3. /\ D \in SUBSET DOMAIN k.conditions /\ D # {}
      /\ \A c \in D : pool \in Seq(KeysOf(k.conditions[c], k.counts) \ {NoRepair})
      /\ p.margin = 0 /\ p.harmful = Negative(g) /\ p.worst = PoolWorst(k, D, pool)
  BY ReferencePoolFacts
<1>4. pool \in Seq(K \ {NoRepair}) /\ pool \in Seq(K)
  <2>1. pool \in Seq(K \ {NoRepair})
    <3>1. pool \in Seq(KeysOf(k.conditions[c0], k.counts) \ {NoRepair})
      BY <1>2, <1>3
    <3>2. QED
      BY <3>1
  <2> HIDE DEF K, pool
  <2>2. QED
    BY <2>1
<1> HIDE DEF D
<1>5. \A c \in D : pool \in Seq(KeysOf(k.conditions[c], k.counts))
  <2> SUFFICES ASSUME NEW c \in D PROVE pool \in Seq(KeysOf(k.conditions[c], k.counts))
    OBVIOUS
  <2>1. pool \in Seq(KeysOf(k.conditions[c], k.counts) \ {NoRepair})
    BY <1>3
  <2> HIDE DEF pool
  <2>2. QED
    BY <2>1
<1> HIDE DEF g, pool
<1>6. /\ g[c0] = cal[c0].kl[NoRepair] - cal[c0].kl[choice] /\ g[c0] \in Int /\ choice \in K
      /\ Negative(g) = 0 <=> \A c \in D : g[c] >= 0
      /\ PoolWorst(k, D, pool) <= Relative(cal[c0].kl[NoRepair], g[c0])
      /\ PoolWorst(k, D, pool) \in Int
  <2>1. /\ \A c \in D :
            /\ PoolChoice(Tables(k)[c].nll, pool) \in KeysOf(k.conditions[c], k.counts)
            /\ g[c] = Tables(k)[c].kl[NoRepair]
                        - Tables(k)[c].kl[PoolChoice(Tables(k)[c].nll, pool)]
            /\ g[c] \in Int
        /\ Negative(g) = 0 <=> \A c \in D : g[c] >= 0
        /\ PoolWorst(k, D, pool) \in Int
        /\ \A c \in D : PoolWorst(k, D, pool) <= Relative(Tables(k)[c].kl[NoRepair], g[c])
    BY <1>3, <1>5, PoolGainFacts DEF g
  <2>2. QED
    BY <1>2, <2>1
<1>7. Landscape(measured.nll[1])
  <2>1. measured \in ToSet(k.conditions)
    BY DEF ToSet
  <2>2. QED
    BY <2>1 DEF Readable
<1> DEFINE mask == PoolMask(measured.nll[1], masks, measured.nll[1][{}], p.margin)
<1>8. mask = maskOf[choice]
  <2> DEFINE served == [i \in DOMAIN pool |-> maskOf[pool[i]]]
             score == measured.nll[1]
             nll == cal[c0].nll
  <2>1. masks = served
    <3>1. \A i \in DOMAIN pool : pool[i] \in K \ {NoRepair}
      <4> HIDE DEF K
      <4>1. QED
        BY <1>4
    <3>2. \A i \in DOMAIN pool : CandidateMask(pool[i]) = maskOf[pool[i]]
      BY <1>1b, <3>1
    <3>3. QED
      BY <3>2
  <2>2. /\ maskOf[NoRepair] = {} /\ maskOf \in [K -> SUBSET Direct] /\ NoRepair \in K
        /\ \A x \in K : nll[x] = score[maskOf[x]]
    BY <1>1, <1>1a
  <2>3. Landscape(score) /\ score[{}] # NaN
    BY <1>7
  <2> HIDE DEF masks, K, score, nll
  <2>4. PoolMask(score, served, score[{}], 0) = maskOf[PoolChoice(nll, pool)]
    BY <1>4, <2>2, <2>3, PoolServesChoice
  <2>5. QED
    BY <1>3, <2>1, <2>4 DEF score, nll
<1>9. g[c0] = stale - measured.sparseKl[mask] /\ cal[c0].kl[NoRepair] = stale
      /\ measured.sparseKl[mask] \in Int /\ stale \in Int
  <2>1. /\ cal[c0].kl[choice] = measured.sparseKl[maskOf[choice]] /\ cal[c0].kl[choice] \in Int
        /\ cal[c0].kl[NoRepair] = stale /\ cal[c0].kl[NoRepair] \in Int
    BY <1>1, <1>6
  <2> HIDE DEF mask, cal, choice, stale
  <2>2. QED
    BY <1>6, <1>8, <2>1
<1> HIDE DEF mask, stale
<1>10. -(measured.sparseKl[mask] - stale) = g[c0]
  BY <1>9
<1>11. Relative(stale, -(measured.sparseKl[mask] - stale)) >= p.worst
  <2>1. Relative(stale, g[c0]) \in Int
    BY <1>6, <1>9, RelativeGain
  <2>2. p.worst <= Relative(stale, g[c0]) /\ p.worst \in Int
    BY <1>3, <1>6, <1>9
  <2>3. QED
    BY <1>10, <2>1, <2>2
<1>12. p.harmful = 0 => measured.sparseKl[mask] - stale <= 0
  BY <1>2, <1>3, <1>6, <1>9
<1>13. QED
  BY <1>11, <1>12 DEF mask, stale, masks, pool

-----------------------------------------------------------------------------
(* The routers, that commit to a repair or probe one more.                 *)

\* What two choices are compared by are numbers, and no harm is none at all.
LEMMA MetricsFacts ==
    ASSUME NEW cal, NEW gain, IsFiniteSet(DOMAIN gain)
    PROVE  LET m == RouterMetrics(cal, gain)
           IN  /\ m.harmful \in Nat /\ m.materialHarmful \in Nat
               /\ (\A c \in DOMAIN gain : ~(gain[c] < 0)) => m.harmful = 0 /\ m.materialHarmful = 0
<1> DEFINE D == {c \in DOMAIN gain : cal[c].kl[NoRepair] >= MinStaleKl}
           material == [c \in D |-> gain[c]]
           m == RouterMetrics(cal, gain)
<1>1. m.harmful = Negative(gain) /\ m.materialHarmful = Negative(material)
  BY DEF RouterMetrics
<1>2. IsFiniteSet(D)
  BY FS_Subset
<1>3. DOMAIN material = D /\ \A c \in D : material[c] = gain[c] /\ c \in DOMAIN gain
  OBVIOUS
<1> HIDE DEF D, material, m
<1>4. Negative(gain) \in Nat /\ (Negative(gain) = 0 <=> \A c \in DOMAIN gain : ~(gain[c] < 0))
  BY HarmsCounted
<1>5. Negative(material) \in Nat
      /\ (Negative(material) = 0 <=> \A c \in DOMAIN material : ~(material[c] < 0))
  BY <1>2, <1>3, HarmsCounted
<1>6. QED
  BY <1>1, <1>3, <1>4, <1>5 DEF m

\* The conditions that have what a router is fitted to, when there are two.
LEMMA CompleteFacts ==
    ASSUME NEW k, Readable(k), NEW score, DOMAIN score = DOMAIN k.conditions,
           \A c \in DOMAIN k.conditions : DOMAIN score[c] = KeysOf(k.conditions[c], k.counts),
           NEW candidates, Cardinality(Complete(score, candidates)) >= 2
    PROVE  LET D == Complete(score, candidates)
           IN  /\ D \in SUBSET DOMAIN k.conditions /\ D # {} /\ IsFiniteSet(D)
               /\ Cardinality(D) \in Nat /\ Cardinality(D) <= Len(k.conditions)
               /\ \A c \in D : ToSet(candidates) \cup {NoRepair} \subseteq KeysOf(k.conditions[c], k.counts)
<1> DEFINE D == Complete(score, candidates)
<1>1. /\ D \in SUBSET DOMAIN k.conditions
      /\ \A c \in D : ToSet(candidates) \cup {NoRepair} \subseteq KeysOf(k.conditions[c], k.counts)
  BY DEF Complete
<1> HIDE DEF D
<1>2. IsFiniteSet(DOMAIN k.conditions) /\ Cardinality(DOMAIN k.conditions) = Len(k.conditions)
      /\ Len(k.conditions) \in Nat
  BY TablesFinite
<1>3. IsFiniteSet(D) /\ Cardinality(D) <= Cardinality(DOMAIN k.conditions)
  BY <1>1, <1>2, FS_Subset
<1>4. Cardinality(D) \in Nat /\ (Cardinality(D) = 0 <=> D = {})
  BY <1>3, FS_CardinalityType, FS_EmptySet
<1>5. Cardinality(D) >= 2
  BY DEF D
<1>6. D # {} /\ Cardinality(D) \in Nat /\ Cardinality(D) <= Len(k.conditions)
  BY <1>2, <1>3, <1>4, <1>5
<1>7. QED
  BY <1>1, <1>3, <1>6 DEF D

\* A router that allows for the highest error its fit has made commits to no
\* harm where it was fitted.
LEMMA SureRepair ==
    ASSUME NEW k, Readable(k), NEW D \in SUBSET DOMAIN k.conditions, D # {}, IsFiniteSet(D),
           NEW candidates, NEW n \in Nat \ {0}, DOMAIN candidates = 1..n,
           n <= CommittedPoolSize, NEW f \in DOMAIN k.fits,
           \A c \in D : ToSet(candidates) \cup {NoRepair} \subseteq KeysOf(k.conditions[c], k.counts)
    PROVE  CommittedFit(Part(k, D), candidates, k.fits, f, 1000, 0).metrics.harmful = 0
           /\ CommittedFit(Part(k, D), candidates, k.fits, f, 1000, 0).metrics.materialHarmful = 0
<1> DEFINE cal == Part(k, D)
           predictions == k.fits[f]
           kl(c) == Tables(k)[c].kl
           wrong(i) == [c \in D |-> predictions[c][i] - (kl(c)[NoRepair] - kl(c)[candidates[i]])]
           error == PredictionError(cal, candidates, predictions, 1000)
           choice == [c \in D |-> CommittedTo(candidates, predictions[c], error, 0)]
           gains == Gains(cal, choice)
<1>1. CommittedFit(cal, candidates, k.fits, f, 1000, 0).metrics = RouterMetrics(cal, gains)
  BY DEF CommittedFit, Part
<1>2. \A i \in 1..n : candidates[i] \in ToSet(candidates)
  BY DEF ToSet
<1>3. \A c \in D : /\ kl(c)[NoRepair] \in Int
                   /\ \A i \in 1..n : predictions[c][i] \in Int /\ kl(c)[candidates[i]] \in Int
  <2> SUFFICES ASSUME NEW c \in D
               PROVE  /\ kl(c)[NoRepair] \in Int
                      /\ \A i \in 1..n : predictions[c][i] \in Int /\ kl(c)[candidates[i]] \in Int
    OBVIOUS
  <2>1. \A x \in KeysOf(k.conditions[c], k.counts) : kl(c)[x] \in Int
    BY TableFacts
  <2>2. \A i \in 1..n : i \in 1..CommittedPoolSize
    BY PolicyAssumption
  <2>3. \A i \in 1..CommittedPoolSize : predictions[c][i] \in Int
    BY DEF Readable
  <2> HIDE DEF predictions, kl
  <2>4. QED
    BY <1>2, <2>1, <2>2, <2>3
<1>4. DOMAIN error = 1..n /\ \A i \in 1..n : error[i] = Higher(wrong(i), 1000)
  BY DEF PredictionError, Part
<1> HIDE DEF error, kl, predictions
<1>5. ASSUME NEW i \in 1..n
      PROVE  error[i] \in Int
             /\ \A c \in D : predictions[c][i] - (kl(c)[NoRepair] - kl(c)[candidates[i]]) <= error[i]
  <2>1. DOMAIN wrong(i) = D
        /\ \A c \in D : wrong(i)[c] = predictions[c][i] - (kl(c)[NoRepair] - kl(c)[candidates[i]])
    OBVIOUS
  <2> HIDE DEF wrong
  <2>2. \A c \in DOMAIN wrong(i) : wrong(i)[c] \in Int
    BY <1>3, <2>1, SMTT(30)
  <2>3. Higher(wrong(i), 1000) \in Int /\ \A c \in D : wrong(i)[c] <= Higher(wrong(i), 1000)
    BY <2>1, <2>2, HighestQuantile
  <2>4. QED
    BY <1>4, <2>1, <2>3
<1>6. ASSUME NEW c \in D
      PROVE  /\ choice[c] \in KeysOf(k.conditions[c], k.counts)
             /\ kl(c)[NoRepair] - kl(c)[choice[c]] >= 0
  <2> DEFINE bound == [i \in 1..n |-> predictions[c][i] - error[i]]
             first == Likeliest(bound)
  <2>1. choice[c] = IF bound[first] > 0 THEN candidates[first] ELSE NoRepair
    BY DEF CommittedTo
  <2>2. DOMAIN bound = 1..n /\ \A i \in 1..n : bound[i] = predictions[c][i] - error[i]
    OBVIOUS
  <2> HIDE DEF bound, choice
  <2>3. \A i \in 1..n : bound[i] \in Int
    <3> SUFFICES ASSUME NEW i \in 1..n PROVE bound[i] \in Int
      OBVIOUS
    <3>1. predictions[c][i] \in Int /\ error[i] \in Int
      BY <1>3, <1>5
    <3>2. QED
      BY <2>2, <3>1
  <2>4. first \in 1..n
    <3>0. 1 \in Int /\ n \in Int
      OBVIOUS
    <3>1. IsFiniteSet(1..n)
      BY <3>0, FS_Interval
    <3>1a. 1..n # {} /\ 1..n \in SUBSET Nat
      <4>1. 1 \in 1..n /\ \A i \in 1..n : i \in Nat
        OBVIOUS
      <4>2. QED
        BY <4>1
    <3>2. QED
      BY <2>2, <2>3, <3>1, <3>1a, LikeliestFacts
  <2> HIDE DEF first
  <2>5. CASE bound[first] > 0
    <3>1. choice[c] = candidates[first]
      BY <2>1, <2>5
    <3>2. bound[first] = predictions[c][first] - error[first]
      BY <2>2, <2>4
    <3>3. /\ predictions[c][first] \in Int /\ error[first] \in Int
          /\ kl(c)[NoRepair] \in Int /\ kl(c)[candidates[first]] \in Int
          /\ predictions[c][first] - (kl(c)[NoRepair] - kl(c)[candidates[first]]) <= error[first]
      BY <1>3, <1>5, <2>4
    <3>4. candidates[first] \in KeysOf(k.conditions[c], k.counts)
      BY <1>2, <2>4
    <3>5. QED
      BY <2>5, <3>1, <3>2, <3>3, <3>4
  <2>6. CASE ~(bound[first] > 0)
    <3>1. choice[c] = NoRepair
      BY <2>1, <2>6
    <3>2. QED
      BY <1>3, <3>1
  <2>7. QED
    BY <2>5, <2>6
<1> HIDE DEF choice
<1>7. DOMAIN gains = D /\ \A c \in D : gains[c] = kl(c)[NoRepair] - kl(c)[choice[c]]
  BY DEF Gains, Part, kl
<1> HIDE DEF gains
<1>8. \A c \in DOMAIN gains : ~(gains[c] < 0)
  <2> SUFFICES ASSUME NEW c \in D PROVE ~(gains[c] < 0)
    BY <1>7
  <2>1. kl(c)[NoRepair] - kl(c)[choice[c]] \in Int
    <3>1. \A x \in KeysOf(k.conditions[c], k.counts) : kl(c)[x] \in Int
      BY TableFacts DEF kl
    <3>2. QED
      BY <1>3, <1>6, <3>1
  <2>2. QED
    BY <1>6, <1>7, <2>1
<1>9. QED
  BY <1>1, <1>7, <1>8, MetricsFacts

\* What a committed pool covers is a number.
LEMMA PoolCovers ==
    ASSUME NEW k, Readable(k), NEW D \in SUBSET DOMAIN k.conditions, NEW S, NEW covered \in Seq(S),
           \A c \in D : S \subseteq KeysOf(k.conditions[c], k.counts)
    PROVE  LET gain == [c \in D |-> Tables(k)[c].kl[NoRepair]
                            - Min({Tables(k)[c].kl[x] : x \in ToSet(covered) \cup {NoRepair}})]
           IN  Total(gain) \in Int /\ Positive(gain) \in Nat
<1> DEFINE T == ToSet(covered) \cup {NoRepair}
           least(c) == Min({Tables(k)[c].kl[x] : x \in T})
           gain == [c \in D |-> Tables(k)[c].kl[NoRepair] - least(c)]
<1>1. IsFiniteSet(T) /\ T # {}
  <2>1. IsFiniteSet(ToSet(covered))
    BY MembersOf
  <2>2. QED
    BY <2>1, FS_AddElement
<1>2. \A c \in D : T \subseteq KeysOf(k.conditions[c], k.counts) /\ NoRepair \in T
  <2>1. ToSet(covered) \subseteq S
    BY MembersOf
  <2>2. QED
    BY <2>1 DEF KeysOf
<1> HIDE DEF T
<1>3. ASSUME NEW c \in D PROVE Tables(k)[c].kl[NoRepair] - least(c) \in Int
  <2> DEFINE kl == Tables(k)[c].kl
             V == {kl[x] : x \in T}
  <2>1. \A x \in T : kl[x] \in Int
    <3>1. \A x \in KeysOf(k.conditions[c], k.counts) : kl[x] \in Int
      BY TableFacts
    <3> HIDE DEF kl
    <3>2. QED
      BY <1>2, <3>1
  <2> HIDE DEF kl
  <2>2. IsFiniteSet(V)
    BY <1>1, FiniteImage
  <2>3. V \in SUBSET Int /\ V # {}
    BY <1>1, <2>1
  <2> HIDE DEF V
  <2>4. Min(V) \in Int
    BY <2>2, <2>3, LeastInteger
  <2>5. kl[NoRepair] \in Int
    BY <1>2, <2>1
  <2>6. kl[NoRepair] - Min(V) \in Int
    BY <2>4, <2>5
  <2>7. QED
    BY <2>6 DEF kl, V
<1>4. DOMAIN gain = D /\ \A c \in D : gain[c] \in Int
  BY <1>3
<1>5. IsFiniteSet(D)
  BY TablesFinite, FS_Subset
<1> HIDE DEF gain
<1>6. Total(gain) \in Int
  BY <1>4, <1>5, SumFacts
<1>7. Positive(gain) \in Nat
  BY <1>4, <1>5, HarmsCounted
<1>8. QED
  BY <1>6, <1>7 DEF gain, T

\* A committed pool has a candidate or more, and no more than its size.
LEMMA CommittedPoolFacts ==
    ASSUME NEW k, Readable(k), NEW p \in CommittedPools(Tables(k))
    PROVE  Len(p) \in 1..CommittedPoolSize /\ DOMAIN p = 1..Len(p)
<1> DEFINE cal == Tables(k)
           finite == {c \in DOMAIN cal : cal[c].kl[NoRepair] # NaN /\ \E x \in DOMAIN cal[c].kl :
                            x # NoRepair /\ cal[c].kl[x] # NaN}
           score == [c \in finite |-> cal[c].kl]
           available == Available(score)
           gain(covered) == [c \in finite |-> cal[c].kl[NoRepair]
                                - Min({cal[c].kl[x] : x \in ToSet(covered) \cup {NoRepair}})]
           key == [covered \in Seq(available) |-> <<Total(gain(covered)), Positive(gain(covered))>>]
<1>1. available # {} /\ p = GrownPool(available, CommittedPoolSize, key)
  BY DEF CommittedPools
<1>2. finite \in SUBSET DOMAIN k.conditions
  BY TablesFinite
<1>3. /\ DOMAIN score = finite
      /\ \A c \in finite : DOMAIN score[c] = KeysOf(k.conditions[c], k.counts)
  BY <1>2, TableFacts
<1> HIDE DEF finite, score
<1>4. /\ IsFiniteSet(available)
      /\ \A x \in available :
            /\ \A c \in finite : x \in KeysOf(k.conditions[c], k.counts) \ {NoRepair}
            /\ x.count \in Int /\ NameRank(x) \in Int
  BY <1>2, <1>3, AvailableFacts
<1> HIDE DEF available
<1>5. ASSUME NEW covered \in Seq(available)
      PROVE  key[covered] \in Seq(Int) /\ Len(key[covered]) = 2
  <2>1. \A c \in finite : available \subseteq KeysOf(k.conditions[c], k.counts)
    BY <1>4
  <2>2. Total(gain(covered)) \in Int /\ Positive(gain(covered)) \in Nat
    BY <1>2, <2>1, PoolCovers
  <2>3. key[covered] = <<Total(gain(covered)), Positive(gain(covered))>>
    OBVIOUS
  <2> HIDE DEF gain, key
  <2>4. QED
    BY <2>2, <2>3
<1> HIDE DEF key
<1>6. CommittedPoolSize \in Nat \ {0} /\ 2 \in Nat
  BY PolicyAssumption
<1>7. p \in Seq(available) /\ Len(p) \in 1..CommittedPoolSize
  BY <1>1, <1>4, <1>5, <1>6, GrownPoolFacts
<1>8. QED
  BY <1>7

\* The policy chosen to commit does no harm where it was fitted.
LEMMA CommittedNoHarm ==
    ASSUME NEW k, Readable(k), NEW candidates \in CommittedPools(Tables(k)),
           NEW p \in CommittedRouters(Tables(k), candidates, k.fits)
    PROVE  p.metrics.harmful = 0
<1> DEFINE score == [c \in DOMAIN Tables(k) |-> Tables(k)[c].kl]
           D == Complete(score, candidates)
           cal == [c \in D |-> Tables(k)[c]]
           FitOf(f, q, m) == CommittedFit(cal, candidates, k.fits, f, q, m)
           policies == {FitOf(f, q, m) : f \in DOMAIN k.fits, q \in Quantiles, m \in MinimumGains}
           key == [x \in policies |-> CommittedKey(x)]
<1>1. ~(Cardinality(D) < 2) /\ p \in Best(policies, key)
  BY DEF CommittedRouters
<1>2. DOMAIN score = DOMAIN k.conditions
      /\ \A c \in DOMAIN k.conditions : DOMAIN score[c] = KeysOf(k.conditions[c], k.counts)
  BY TablesFinite, TableFacts
<1>3. cal = Part(k, D)
  BY DEF Part
<1> HIDE DEF score, cal, FitOf
<1>4. /\ D \in SUBSET DOMAIN k.conditions /\ IsFiniteSet(D)
      /\ D # {} /\ \A c \in D : ToSet(candidates) \cup {NoRepair} \subseteq KeysOf(k.conditions[c], k.counts)
  <2>1. Cardinality(D) \in Nat
    <3>1. D \in SUBSET DOMAIN k.conditions
      BY <1>2 DEF Complete
    <3>2. IsFiniteSet(D)
      BY <3>1, TablesFinite, FS_Subset
    <3>3. QED
      BY <3>2, FS_CardinalityType
  <2>2. Cardinality(D) >= 2
    BY <1>1, <2>1
  <2>3. QED
    BY <1>2, <2>2, CompleteFacts
<1> HIDE DEF D
<1>5. /\ p \in policies /\ \A x \in policies : ~Precedes(key[x], key[p])
  <2> HIDE DEF policies, key
  <2>1. QED
    BY <1>1, BestFacts
<1>6. PICK f \in DOMAIN k.fits, q \in Quantiles, m \in MinimumGains : p = FitOf(f, q, m)
  BY <1>5
<1> DEFINE sure == FitOf(f, 1000, 0)
<1>7. sure \in policies
  BY PolicyAssumption
<1>8. sure.metrics.harmful = 0 /\ sure.metrics.materialHarmful = 0
  <2>1. /\ Len(candidates) \in Nat \ {0} /\ Len(candidates) <= CommittedPoolSize
        /\ DOMAIN candidates = 1..Len(candidates)
    BY CommittedPoolFacts, PolicyAssumption
  <2>2. QED
    BY <1>3, <1>4, <2>1, SureRepair DEF FitOf
<1>9. p.metrics.harmful \in Nat /\ p.metrics.materialHarmful \in Nat
  <2> DEFINE choice == [c \in DOMAIN cal |-> CommittedTo(candidates, k.fits[f][c],
                            PredictionError(cal, candidates, k.fits[f], q), m)]
  <2>1. p.metrics = RouterMetrics(cal, Gains(cal, choice))
    BY <1>6 DEF FitOf, CommittedFit
  <2>2. DOMAIN Gains(cal, choice) = D
    BY <1>3 DEF Gains, Part
  <2> HIDE DEF choice
  <2>3. QED
    BY <1>4, <2>1, <2>2, MetricsFacts
<1>10. ~Precedes(CommittedKey(sure), CommittedKey(p))
  <2> HIDE DEF policies, sure
  <2>1. \A x \in policies : key[x] = CommittedKey(x)
    OBVIOUS
  <2> HIDE DEF key
  <2>2. QED
    BY <1>5, <1>7, <2>1
<1> HIDE DEF sure, policies, key
<1> DEFINE a == CommittedKey(sure)
           b == CommittedKey(p)
<1> DEFINE sm == sure.metrics
           pm == p.metrics
<1>11a. /\ a = <<-sm.materialHarmful, -sm.harmful, sm.materialGain, sm.gain,
                  sure.accepted, -sure.quantile, -sure.minimum, -sure.fit>>
        /\ b = <<-pm.materialHarmful, -pm.harmful, pm.materialGain, pm.gain,
                  p.accepted, -p.quantile, -p.minimum, -p.fit>>
  BY DEF CommittedKey
<1>11b. sm.harmful = 0 /\ sm.materialHarmful = 0
  BY <1>8
<1> HIDE DEF a, b, sm
<1>11. /\ 1 \in DOMAIN a /\ 2 \in DOMAIN a
       /\ a[1] = -sm.materialHarmful /\ a[2] = -sm.harmful
       /\ b[1] = -pm.materialHarmful /\ b[2] = -pm.harmful
  BY <1>11a
<1>11c. pm.harmful \in Nat /\ pm.materialHarmful \in Nat
  BY <1>9
<1> HIDE DEF pm
<1>12. ~(a[1] > b[1])
  <2>1. \A j \in 1..(1 - 1) : a[j] = b[j]
    OBVIOUS
  <2>2. QED
    BY <1>10, <1>11, <2>1 DEF Precedes, a, b
<1>13. a[1] = b[1]
  <2>1. pm.materialHarmful = 0
    BY <1>11, <1>11b, <1>11c, <1>12
  <2>2. QED
    BY <1>11, <1>11b, <2>1
<1>14. ~(a[2] > b[2])
  <2>1. \A j \in 1..(2 - 1) : a[j] = b[j]
    BY <1>13
  <2>2. QED
    BY <1>10, <1>11, <2>1 DEF Precedes, a, b
<1>15. pm.harmful = 0
  BY <1>11, <1>11b, <1>11c, <1>14
<1>16. QED
  BY <1>15 DEF pm

\* The likeliest of two candidates or more does not trail the next.
LEMMA LeadFacts ==
    ASSUME NEW n \in Nat, n >= 2, NEW scores \in [1..n -> Int]
    PROVE  ~(Lead(scores) < 0)
<1> DEFINE first == Likeliest(scores)
           D == (1..n) \ {first}
           others == [j \in D |-> scores[j]]
<1>1. IsFiniteSet(1..n) /\ 1..n \in SUBSET Nat
  <2>1. 1 \in Int /\ n \in Int /\ \A i \in 1..n : i \in Nat
    OBVIOUS
  <2>2. QED
    BY <2>1, FS_Interval
<1>2. 1 \in 1..n /\ 2 \in 1..n
  OBVIOUS
<1>3. first \in 1..n /\ \A i \in 1..n : scores[first] >= scores[i]
  BY <1>1, <1>2, LikeliestFacts
<1>4. Lead(scores) = scores[first] - scores[Likeliest(others)]
  BY DEF Lead, Runner
<1> HIDE DEF first
<1>5. D # {} /\ IsFiniteSet(D) /\ D \in SUBSET Nat /\ D \in SUBSET (1..n)
  BY <1>1, <1>2, FS_Subset
<1>6. DOMAIN others = D /\ \A i \in D : others[i] \in Int
  BY <1>5
<1> HIDE DEF D, others
<1>7. Likeliest(others) \in D
  BY <1>5, <1>6, LikeliestFacts
<1>8. Likeliest(others) \in 1..n
  BY <1>5, <1>7
<1> HIDE DEF D
<1>9. QED
  BY <1>3, <1>4, <1>8

\* When to probe twice is chosen so that no more harm is done than by probing
\* once, at 1.5 probes on average.
LEMMA SecondProbesFacts ==
    ASSUME NEW cal, IsFiniteSet(DOMAIN cal), NEW n \in Nat, n >= 2, NEW candidates,
           NEW predictions, DOMAIN predictions = DOMAIN cal,
           \A c \in DOMAIN cal : predictions[c] \in [1..n -> Int],
           NEW s \in SecondProbes(cal, candidates, predictions)
    PROVE  LET once == [c \in DOMAIN cal |-> <<Likeliest(predictions[c])>>]
           IN  /\ s.metrics.materialHarmful <=
                    RouterMetrics(cal, ProbedGain(cal, candidates, once)).materialHarmful
               /\ s.probes \in Int /\ 2 * s.probes <= 3 * Cardinality(DOMAIN cal)
<1> DEFINE D == DOMAIN cal
           once == [c \in D |-> <<Likeliest(predictions[c])>>]
           leads == {Lead(predictions[c]) : c \in DOMAIN predictions}
           Spent(close) == [c \in DOMAIN RouterTries(predictions, close) |->
                                Len(RouterTries(predictions, close)[c])]
           MetricsOf(tried) == RouterMetrics(cal, ProbedGain(cal, candidates, tried))
           Fitted(close) == [close |-> close, probes |-> Total(Spent(close)),
                             metrics |-> MetricsOf(RouterTries(predictions, close))]
           affordable == {f \in {Fitted(close) : close \in {0} \cup {lead + 1 : lead \in leads}} :
                            2 * f.probes <= 3 * Cardinality(D)}
           key == [f \in affordable |->
                    <<-f.metrics.materialHarmful, f.metrics.materialGain, -f.probes,
                      -f.metrics.harmful, f.metrics.gain, -f.close>>]
<1>1. s \in Best(affordable, key)
  BY DEF SecondProbes
<1>2. s \in affordable /\ \A f \in affordable : ~Precedes(key[f], key[s])
  <2> HIDE DEF affordable, key
  <2>1. QED
    BY <1>1, BestFacts
<1>3. PICK close : s = Fitted(close) /\ 2 * s.probes <= 3 * Cardinality(D)
  <2> HIDE DEF Fitted, leads
  <2>1. QED
    BY <1>2
<1>4. ASSUME NEW x
      PROVE  /\ DOMAIN Spent(x) = D /\ \A c \in D : Spent(x)[c] \in {1, 2}
             /\ Spent(x) = [c \in D |-> Len(RouterTries(predictions, x)[c])]
  BY DEF RouterTries
<1>5. RouterTries(predictions, 0) = once
  <2>1. \A c \in D : ~(Lead(predictions[c]) < 0)
    BY LeadFacts
  <2>2. QED
    BY <2>1 DEF RouterTries
<1> HIDE DEF MetricsOf
<1>6. Total(Spent(0)) = Cardinality(D)
  <2>1. \A c \in D : Spent(0)[c] = 1
    BY <1>4, <1>5
  <2> HIDE DEF Spent
  <2>2. QED
    BY <1>4, <2>1, SumFacts
<1> HIDE DEF Spent, once
<1>7. s.probes \in Int
  <2>1. \A c \in DOMAIN Spent(close) : Spent(close)[c] \in Int
    BY <1>4
  <2>2. Total(Spent(close)) \in Int
    BY <1>4, <2>1, SumFacts
  <2>3. QED
    BY <1>3, <2>2
<1> DEFINE zero == Fitted(0)
<1>8. zero.probes = Cardinality(D) /\ zero.metrics = MetricsOf(once)
  BY <1>5, <1>6
<1>9. zero \in affordable
  <2>1. Cardinality(D) \in Nat
    BY FS_CardinalityType
  <2>2. 2 * zero.probes <= 3 * Cardinality(D)
    BY <1>8, <2>1
  <2>3. zero \in {Fitted(x) : x \in {0} \cup {lead + 1 : lead \in leads}}
    OBVIOUS
  <2> HIDE DEF Fitted, zero, leads
  <2>4. QED
    BY <2>2, <2>3
<1>10. \A x \in affordable :
            /\ key[x] = <<-x.metrics.materialHarmful, x.metrics.materialGain, -x.probes,
                          -x.metrics.harmful, x.metrics.gain, -x.close>>
  <2> HIDE DEF affordable
  <2>1. QED
    OBVIOUS
<1>11. ASSUME NEW tried PROVE MetricsOf(tried).materialHarmful \in Nat
  <2>1. DOMAIN ProbedGain(cal, candidates, tried) = D
    BY DEF ProbedGain, Gains
  <2>2. QED
    BY <2>1, MetricsFacts DEF MetricsOf
<1>12. s.metrics = MetricsOf(RouterTries(predictions, close))
  BY <1>3
<1> HIDE DEF affordable, key, zero, Fitted
<1> DEFINE a == key[zero]
           b == key[s]
           before == zero.metrics.materialHarmful
           after == s.metrics.materialHarmful
<1>13. 1 \in DOMAIN a /\ a[1] = -before /\ b[1] = -after
  BY <1>2, <1>9, <1>10
<1>14. before \in Nat /\ after \in Nat
  BY <1>8, <1>11, <1>12
<1>15. ~(a[1] > b[1])
  <2>1. ~Precedes(a, b)
    BY <1>2, <1>9
  <2> HIDE DEF a, b
  <2>2. \A j \in 1..(1 - 1) : a[j] = b[j]
    OBVIOUS
  <2>3. QED
    BY <1>13, <2>1, <2>2 DEF Precedes
<1> HIDE DEF a, b, before, after
<1>16. after <= before
  BY <1>13, <1>14, <1>15
<1>17. QED
  BY <1>3, <1>7, <1>8, <1>16 DEF once, MetricsOf, before, after

\* A router probes a second candidate where that harms no more often.
LEMMA RouterCautious ==
    ASSUME NEW k, Readable(k), NEW candidates, NEW n \in Nat, n >= 2, n <= PoolSize,
           DOMAIN candidates = 1..n, NEW p \in ReferenceRouters(Tables(k), candidates, k.fits)
    PROVE  /\ p.metrics.materialHarmful <= p.once.materialHarmful
           /\ 2 * p.probes <= 3 * Len(k.conditions)
           /\ p.candidates = candidates
<1> DEFINE score == [c \in DOMAIN Tables(k) |-> Tables(k)[c].nll]
           D == Complete(score, candidates)
           cal == [c \in D |-> Tables(k)[c]]
           predictions == [f \in DOMAIN k.fits |->
                [c \in D |-> [i \in DOMAIN candidates |-> k.fits[f][c][i]]]]
           once == [f \in DOMAIN k.fits |-> RouterMetrics(cal, ProbedGain(cal, candidates,
                        [c \in D |-> <<Likeliest(predictions[f][c])>>]))]
           key == [f \in DOMAIN k.fits |->
                <<-once[f].materialHarmful, once[f].materialGain, -once[f].harmful,
                  once[f].gain, -f>>]
           Routed(f, s) == [candidates |-> candidates, margin |-> 0, close |-> s.close,
                            probes |-> s.probes, metrics |-> s.metrics, once |-> once[f]]
<1>1. /\ ~(Cardinality(D) < 2)
      /\ p \in UNION {{Routed(f, s) : s \in SecondProbes(cal, candidates, predictions[f])} :
                        f \in Best(DOMAIN k.fits, key)}
  BY DEF ReferenceRouters
<1>2a. PICK f \in Best(DOMAIN k.fits, key) :
        \E s \in SecondProbes(cal, candidates, predictions[f]) : p = Routed(f, s)
  <2> HIDE DEF Routed, key, cal, predictions
  <2>1. QED
    BY <1>1
<1>2. PICK s \in SecondProbes(cal, candidates, predictions[f]) : p = Routed(f, s)
  BY <1>2a
<1>3. f \in DOMAIN k.fits
  <2> HIDE DEF key
  <2>1. QED
    BY BestFacts
<1>4. DOMAIN score = DOMAIN k.conditions
      /\ \A c \in DOMAIN k.conditions : DOMAIN score[c] = KeysOf(k.conditions[c], k.counts)
  BY TablesFinite, TableFacts
<1> HIDE DEF score
<1>5. /\ D \in SUBSET DOMAIN k.conditions /\ IsFiniteSet(D)
      /\ Cardinality(D) \in Nat /\ Cardinality(D) <= Len(k.conditions)
  <2>1. D \in SUBSET DOMAIN k.conditions
    BY <1>4 DEF Complete
  <2>2. IsFiniteSet(DOMAIN k.conditions) /\ Cardinality(DOMAIN k.conditions) = Len(k.conditions)
    BY TablesFinite
  <2> HIDE DEF D
  <2>3. QED
    <3>1. IsFiniteSet(D) /\ Cardinality(D) <= Cardinality(DOMAIN k.conditions)
      BY <2>1, <2>2, FS_Subset
    <3>2. Cardinality(D) \in Nat
      BY <3>1, FS_CardinalityType
    <3>3. QED
      BY <2>1, <2>2, <3>1, <3>2
<1> HIDE DEF D
<1>6. ASSUME NEW c \in D PROVE predictions[f][c] \in [1..n -> Int]
  <2>1. predictions[f][c] = [i \in 1..n |-> k.fits[f][c][i]]
    BY <1>3
  <2>2. \A i \in 1..n : i \in 1..PoolSize
    <3>1. PoolSize \in Nat
      BY PolicyAssumption, ZenonT(30)
    <3> HIDE DEF predictions
    <3>2. QED
      BY <3>1
  <2>3. \A i \in 1..PoolSize : k.fits[f][c][i] \in Int
    BY <1>3, <1>5 DEF Readable
  <2> HIDE DEF predictions
  <2>4. QED
    BY <2>1, <2>2, <2>3
<1>7. DOMAIN cal = D /\ DOMAIN predictions[f] = D
  BY <1>3
<1>8. once[f] = RouterMetrics(cal, ProbedGain(cal, candidates,
                    [c \in D |-> <<Likeliest(predictions[f][c])>>]))
  BY <1>3
<1>9. /\ p.candidates = candidates /\ p.metrics = s.metrics /\ p.once = once[f]
      /\ p.probes = s.probes
  BY <1>2
<1> HIDE DEF cal, predictions, once
<1>10. /\ s.metrics.materialHarmful <= once[f].materialHarmful
       /\ s.probes \in Int /\ 2 * s.probes <= 3 * Cardinality(D)
  BY <1>2, <1>5, <1>6, <1>7, <1>8, SecondProbesFacts, Z3T(30)
<1>11. Len(k.conditions) \in Nat
  BY TablesFinite
<1>12. QED
  BY <1>5, <1>9, <1>10, <1>11

-----------------------------------------------------------------------------
(* The rows of a ranker that was fitted to the condition at hand.          *)

\* The rows of the gates that are fitted, and what they let through.
FittedGates ==
    {"sparse_one_probe_policy", "sparse_one_probe_confidence_gate", "sparse_reference_pool_policy"}

PoolDecision(p) ==
    PoolMask(measured.nll[1], [i \in DOMAIN p.candidates |-> CandidateMask(p.candidates[i])],
             measured.nll[1][{}], p.margin)

Decided(r) ==
    LET ranker == options.ranker
    IN  r.name \in FittedGates =>
            /\ Ranker
            /\ r.name = "sparse_one_probe_policy" =>
                /\ ranker.oneProbe # NoPolicy
                /\ r.mask = GateMask(measured.nll[1], CandidateMask(ranker.oneProbe.candidate),
                                     ranker.oneProbe.margin)
            /\ r.name = "sparse_one_probe_confidence_gate" =>
                /\ ranker.confidence # NoPolicy
                /\ r.mask = GateMask(measured.confidence,
                                     CandidateMask(ranker.confidence.candidate),
                                     ranker.confidence.margin)
            /\ r.name = "sparse_reference_pool_policy" =>
                ranker.pool # NoPolicy /\ r.mask = PoolDecision(ranker.pool)

DecidedInv == Setting /\ \A r \in rows : Decided(r)

\* What a row is called.
LEMMA RowNames ==
    /\ \A name, budget, mask, output : Row(name, budget, mask, output).name = name
    /\ \A name, mask, fallback, by, margin, against, tried :
        /\ GatedRow(name, mask, fallback, by, margin, against, tried).name = name
        /\ GatedRow(name, mask, fallback, by, margin, against, tried).mask = mask
BY DEF Row, GatedRow

\* What is decided depends on what is measured and asked for alone.
LEMMA DecisionsStay ==
    ASSUME DecidedInv, UNCHANGED <<options, measured>>,
           \A r \in rows' : r \in rows \/ Decided(r)
    PROVE  DecidedInv'
<1>1. Setting'
  BY DEF DecidedInv, Setting
<1>2. \A r : Decided(r)' <=> Decided(r)
  BY DEF Decided, Ranker, PoolDecision, CandidateMask
<1>3. QED
  BY <1>1, <1>2 DEF DecidedInv

\* A stage that adds rows decided on keeps the invariant.
LEMMA DecidedStage ==
    ASSUME DecidedInv, NEW s, NEW wanted, NEW new, Stage(s, wanted, new),
           wanted => \A r \in new : Decided(r)
    PROVE  DecidedInv'
<1>1. UNCHANGED <<options, measured>> /\ \A r \in rows' : r \in rows \/ (wanted /\ r \in new)
  BY DEF Stage
<1>2. QED
  BY <1>1, DecisionsStay

\* The stages of the gates that are fitted.
LEMMA GatesDecide == DecidedInv /\ (OneProbe \/ ConfidenceGate \/ Pool) => DecidedInv'
<1> SUFFICES ASSUME DecidedInv, OneProbe \/ ConfidenceGate \/ Pool PROVE DecidedInv'
  OBVIOUS
<1> DEFINE ranker == options.ranker
<1>0. Confidence # 1
  BY DEF Confidence
<1>1. CASE OneProbe
  <2> DEFINE p == ranker.oneProbe
             r == OneProbeRow("sparse_one_probe_policy", p, 1)
  <2>1. r.name = "sparse_one_probe_policy"
        /\ r.mask = GateMask(measured.nll[1], CandidateMask(p.candidate), p.margin)
    BY <1>0, RowNames DEF OneProbeRow, ScoreBy
  <2>2. Stage("one_probe", Ranker /\ Exploring /\ p # NoPolicy, {r})
    BY <1>1 DEF OneProbe
  <2> HIDE DEF r
  <2> DEFINE new == {r}
  <2>3. Stage("one_probe", Ranker /\ Exploring /\ p # NoPolicy, new)
    BY <2>2
  <2>4. Ranker /\ Exploring /\ p # NoPolicy => \A x \in new : Decided(x)
    BY <2>1 DEF Decided
  <2> HIDE DEF new
  <2>5. QED
    BY <2>3, <2>4, DecidedStage
<1>2. CASE ConfidenceGate
  <2> DEFINE p == ranker.confidence
             r == OneProbeRow("sparse_one_probe_confidence_gate", p, Confidence)
  <2>1. r.name = "sparse_one_probe_confidence_gate"
        /\ r.mask = GateMask(measured.confidence, CandidateMask(p.candidate), p.margin)
    BY RowNames DEF OneProbeRow, ScoreBy
  <2>2. Stage("confidence", Ranker /\ Exploring /\ p # NoPolicy, {r})
    BY <1>2 DEF ConfidenceGate
  <2> HIDE DEF r
  <2> DEFINE new == {r}
  <2>3. Stage("confidence", Ranker /\ Exploring /\ p # NoPolicy, new)
    BY <2>2
  <2>4. Ranker /\ Exploring /\ p # NoPolicy => \A x \in new : Decided(x)
    BY <2>1 DEF Decided
  <2> HIDE DEF new
  <2>5. QED
    BY <2>3, <2>4, DecidedStage
<1>3. CASE Pool
  <2> DEFINE p == ranker.pool
             masks == [i \in DOMAIN p.candidates |-> CandidateMask(p.candidates[i])]
             r == GatedRow("sparse_reference_pool_policy", PoolDecision(p), "stale", 1, p.margin,
                           measured.nll[1][{}], ToSet(masks))
  <2>1. r.name = "sparse_reference_pool_policy" /\ r.mask = PoolDecision(p)
    BY RowNames
  <2>2. Stage("pool", Ranker /\ Exploring /\ p # NoPolicy, {r})
    BY <1>3 DEF Pool, PoolDecision
  <2> HIDE DEF r
  <2> DEFINE new == {r}
  <2>3. Stage("pool", Ranker /\ Exploring /\ p # NoPolicy, new)
    BY <2>2
  <2>4. Ranker /\ Exploring /\ p # NoPolicy => \A x \in new : Decided(x)
    BY <2>1 DEF Decided
  <2> HIDE DEF new
  <2>5. QED
    BY <2>3, <2>4, DecidedStage
<1>4. QED
  BY <1>1, <1>2, <1>3

\* The other stages write no row of such a gate: no ranking has its name.
LEMMA OthersAbstain ==
    DecidedInv /\ (Stale \/ Recompute \/ Surgery \/ Selectors \/ Signed \/ LearnedRanker
                    \/ Committed \/ Router \/ Controlled \/ Supervised \/ Structured \/ Oracles)
        => DecidedInv'
<1> SUFFICES ASSUME DecidedInv,
                    Stale \/ Recompute \/ Surgery \/ Selectors \/ Signed \/ LearnedRanker
                        \/ Committed \/ Router \/ Controlled \/ Supervised \/ Structured \/ Oracles
             PROVE  DecidedInv'
  OBVIOUS
<1>1. ASSUME NEW s, NEW wanted, NEW new, Stage(s, wanted, new),
             \A r \in new : r.name \notin FittedGates
      PROVE  DecidedInv'
  <2>1. \A r \in new : Decided(r)
    BY <1>1 DEF Decided
  <2>2. QED
    BY <1>1, <2>1, DecidedStage
<1>2. \A s \in DOMAIN measured.sparse \cup DOMAIN measured.surgery : s \notin FittedGates
  <2>1. PICK i \in DOMAIN Conditions : measured \in Conditions[i].measured
    BY DEF DecidedInv, Setting
  <2>2. OtherNames \cap (DOMAIN measured.sparse \cup DOMAIN measured.surgery) = {}
    BY <2>1, MeasuredAssumption
  <2>3. QED
    BY <2>2 DEF OtherNames, FittedGates
<1>3. \A name, budget, mask, output :
        name \notin FittedGates => Row(name, budget, mask, output).name \notin FittedGates
  BY RowNames
<1>4. CASE Stale
  <2>1. Stage("stale", TRUE, {Row("stale", 0, {}, "stale")})
    BY <1>4 DEF Stale
  <2>2. "stale" \notin FittedGates
    BY DEF FittedGates
  <2>3. \A r \in {Row("stale", 0, {}, "stale")} : r.name \notin FittedGates
    BY <1>3, <2>2
  <2>4. QED
    BY <1>1, <2>1, <2>3
<1>5. CASE Recompute
  <2> DEFINE trigger == measured.failureRisk # NaN /\ measured.failureRisk >= options.ranker.recompute
             r == Row("zero_probe_recompute_router",
                      IF trigger THEN Cardinality(Eligible) ELSE 0, {},
                      IF trigger THEN "full" ELSE "stale")
  <2>1. Stage("recompute", Ranker /\ options.variant = "recompute", {r})
    BY <1>5 DEF Recompute
  <2>2. "zero_probe_recompute_router" \notin FittedGates
    BY DEF FittedGates
  <2>3. \A x \in {r} : x.name \notin FittedGates
    BY <1>3, <2>2
  <2> HIDE DEF r
  <2>4. QED
    BY <1>1, <2>1, <2>3
<1>6. CASE Surgery
  <2> DEFINE new == {Row(s, n, TopMask(measured.surgery[s], Eligible, n), "splice") :
                        s \in DOMAIN measured.surgery, n \in options.counts}
  <2>1. Stage("surgery", options.surgery, new)
    BY <1>6 DEF Surgery
  <2>2. \A r \in new : r.name \notin FittedGates
    BY <1>2, <1>3
  <2> HIDE DEF new
  <2>3. QED
    BY <1>1, <2>1, <2>2
<1>7. CASE Selectors
  <2> DEFINE new == {Row(s, n, TopMask(measured.sparse[s], Direct, AtMost(n)), "sparse") :
                        s \in DOMAIN measured.sparse, n \in options.counts}
  <2>1. Stage("selectors", Exploring, new)
    BY <1>7 DEF Selectors
  <2>2. \A r \in new : r.name \notin FittedGates
    BY <1>2, <1>3
  <2> HIDE DEF new
  <2>3. QED
    BY <1>1, <2>1, <2>2
<1>8. CASE Signed
  <2>1. Stage("signed", Exploring, SignedRows)
    BY <1>8 DEF Signed
  <2>2. \A r \in SignedRows : r.name \notin FittedGates
    <3>1. \A r \in SignedRows :
            r.name \in {"sparse_signed_residual_greedy", "sparse_signed_residual_auto"}
      BY DEF SignedRows, Row
    <3>2. QED
      BY <3>1 DEF FittedGates
  <2>3. QED
    BY <1>1, <2>1, <2>2
<1>9. CASE LearnedRanker
  <2>1. Stage("ranker", Ranker /\ Exploring, RankerRows)
    BY <1>9 DEF LearnedRanker
  <2>2. \A r \in RankerRows : r.name \notin FittedGates
    <3>1. \A r \in RankerRows :
            r.name \in {"sparse_learned_ranker", "sparse_learned_default_budget"}
      BY DEF RankerRows, Row
    <3>2. QED
      BY <3>1 DEF FittedGates
  <2>3. QED
    BY <1>1, <2>1, <2>2
<1>10. CASE Committed
  <2> DEFINE p == options.ranker.committed
             wanted == Ranker /\ options.variant = "committed" /\ p # NoPolicy
             Mask(bound) == UNION {CandidateMask(c) : c \in CommittedCandidate(p, bound)}
             new(bound) == {Row("sparse_committed_router_policy", Cardinality(Mask(bound)),
                                Mask(bound), IF Mask(bound) = {} THEN "stale" ELSE "sparse")}
  <2>1. PICK bound : Stage("committed", wanted, new(bound))
    BY <1>10 DEF Committed
  <2>2. "sparse_committed_router_policy" \notin FittedGates
    BY DEF FittedGates
  <2>3. \A r \in new(bound) : r.name \notin FittedGates
    BY <1>3, <2>2
  <2> HIDE DEF wanted, new
  <2>4. QED
    BY <1>1, <2>1, <2>3
<1>11. CASE Router
  <2> DEFINE baseline == options.variant = "baseline_reference"
             p == IF baseline THEN options.ranker.baselineRouter ELSE options.ranker.router
             wanted == Ranker /\ options.variant # "committed" /\ p # NoPolicy
             against == IF baseline THEN measured.baseline ELSE measured.nll[1][{}]
             close == IF baseline THEN 0 ELSE p.close
             RowFor(score, i, j) ==
                LET order == IF score[i] - score[j] < close THEN <<i, j>> ELSE <<i>>
                    masks == [k \in DOMAIN order |-> CandidateMask(p.candidates[order[k]])]
                    mask == PoolMask(measured.nll[1], masks, against, p.margin)
                IN  GatedRow("sparse_reference_router_policy", mask,
                             IF baseline THEN "full" ELSE "stale", 1, p.margin, against, ToSet(masks))
             new(score, i, j) == {RowFor(score, i, j)}
  <2>1. /\ \/ Stage("router", FALSE, {}) /\ ~wanted
           \/ /\ wanted
              /\ \E score \in [DOMAIN p.candidates -> RouterScores] :
                    \E i, j \in DOMAIN p.candidates :
                        /\ i # j /\ \A k \in DOMAIN score : score[i] >= score[k]
                        /\ \A k \in DOMAIN score \ {i} : score[j] >= score[k]
                        /\ Stage("router", TRUE, {RowFor(score, i, j)})
        /\ UNCHANGED controllerVars
    BY <1>11, Zenon DEF Router
  <2>2. \A score, i, j : RowFor(score, i, j).name = "sparse_reference_router_policy"
    <3> SUFFICES ASSUME NEW score, NEW i, NEW j
                 PROVE  RowFor(score, i, j).name = "sparse_reference_router_policy"
      OBVIOUS
    <3> DEFINE order == IF score[i] - score[j] < close THEN <<i, j>> ELSE <<i>>
               masks == [k \in DOMAIN order |-> CandidateMask(p.candidates[order[k]])]
               mask == PoolMask(measured.nll[1], masks, against, p.margin)
               fallback == IF baseline THEN "full" ELSE "stale"
    <3>1. RowFor(score, i, j) = GatedRow("sparse_reference_router_policy", mask, fallback, 1,
                                         p.margin, against, ToSet(masks))
      OBVIOUS
    <3> HIDE DEF RowFor, mask, masks, fallback, against, p
    <3>2. QED
      BY <3>1, RowNames
  <2> HIDE DEF RowFor, wanted, p
  <2>3. \A score, i, j : \A r \in new(score, i, j) : r.name \notin FittedGates
    BY <2>2 DEF FittedGates
  <2>4. CASE Stage("router", FALSE, {})
    <3>1. UNCHANGED <<options, measured>> /\ rows' = rows
      BY <2>4 DEF Stage
    <3>2. QED
      BY <3>1, DecisionsStay
  <2>5. CASE \E score, i, j : Stage("router", TRUE, {RowFor(score, i, j)})
    <3>1. PICK score, i, j : Stage("router", TRUE, new(score, i, j))
      BY <2>5
    <3> HIDE DEF new
    <3>2. QED
      BY <1>1, <2>3, <3>1
  <2>6. QED
    BY <2>1, <2>4, <2>5
<1>12. CASE Controlled \/ Supervised
  <2>1. \A count, observed : DynamicRow(count, observed).name = "sparse_dynamic_controller"
    BY DEF DynamicRow, Row
  <2> DEFINE new(count, observed) == {DynamicRow(count, observed)}
  <2>2. PICK count, observed : Stage("dynamic", TRUE, new(count, observed))
    BY <1>12 DEF Controlled, Supervised
  <2>3. \A r \in new(count, observed) : r.name \notin FittedGates
    BY <2>1 DEF FittedGates
  <2> HIDE DEF new
  <2>4. QED
    BY <1>1, <2>2, <2>3
<1>13. CASE Structured
  <2> DEFINE new == {Row("sparse_all_direct", Cardinality(Direct), Direct, "sparse")} \cup
                    (IF options.structured THEN SearchRows ELSE {})
             Searches == {"exhaustive", "greedy", "beam", "swap"}
  <2>1. Stage("structured", Exploring, new)
    BY <1>13 DEF Structured
  <2>2. \A by : \A path \in Paths(by) : path.name \in Searches
    BY DEF Paths
  <2>3. \A r \in ExhaustiveRows : r.name \in Searches
    <3> SUFFICES ASSUME NEW r \in ExhaustiveRows PROVE r.name \in Searches
      OBVIOUS
    <3>1. PICK by, n : r \in ExhaustiveRowsOf(by, n)
      BY DEF ExhaustiveRows
    <3>2. PICK m : r = [Row("exhaustive", n, m, "sparse") EXCEPT
                !.by = by, !.probes = Cardinality({s \in SUBSET Direct : Cardinality(s) = n})]
      BY <3>1 DEF ExhaustiveRowsOf
    <3>3. r.name = "exhaustive"
      BY <3>2 DEF Row
    <3>4. QED
      BY <3>3
  <2>4. \A by : \A r \in PathRows(by) : r.name \in Searches
    <3> SUFFICES ASSUME NEW by, NEW r \in PathRows(by) PROVE r.name \in Searches
      OBVIOUS
    <3>1. PICK path \in Paths(by) : \E n : r = [Row(path.name, n, path.points[n].mask, "sparse")
                EXCEPT !.by = by, !.width = path.width, !.probes = path.points[n].probes]
      BY ZenonT(30) DEF PathRows
    <3>2. r.name = path.name
      BY <3>1 DEF Row
    <3>3. QED
      BY <2>2, <3>2
  <2>5. \A by : \A r \in JointRows(by) : r.name \in Searches
    <3> SUFFICES ASSUME NEW by, NEW r \in JointRows(by) PROVE r.name \in Searches
      OBVIOUS
    <3>1. PICK path \in Paths(by), price \in options.prices, margin \in options.margins :
                r = JointRow(by, path, price, margin)
      BY DEF JointRows
    <3>2. r.name = path.name
      BY <3>1 DEF JointRow, GatedRow, Row
    <3>3. QED
      BY <2>2, <3>2
  <2>6. \A r \in SearchRows : r.name \in Searches
    <3> HIDE DEF Searches
    <3>1. QED
      BY <2>3, <2>4, <2>5 DEF SearchRows
  <2>7. \A r \in new : r.name \notin FittedGates
    <3>1. Row("sparse_all_direct", Cardinality(Direct), Direct, "sparse").name = "sparse_all_direct"
      BY RowNames
    <3>2. QED
      BY <2>6, <3>1 DEF FittedGates
  <2> HIDE DEF new
  <2>8. QED
    BY <1>1, <2>1, <2>7
<1>14. CASE Oracles
  <2> DEFINE new == OracleRows \cup FrontierRows \cup
                    {Row("eligible_full", Cardinality(Eligible), Eligible, "splice")}
  <2>1. Stage("oracles", options.surgery, new)
    BY <1>14 DEF Oracles
  <2>2. \A r \in OracleRows : r.name = "greedy_oracle"
    <3>1. \A r \in OracleRows : \E n, mask : r = Row("greedy_oracle", n, mask, "splice")
      BY Zenon DEF OracleRows
    <3>2. QED
      BY <3>1, RowNames
  <2>3. \A r \in FrontierRows : r.name = "marginal_frontier"
    <3>1. \A r \in FrontierRows : \E n, mask : r = Row("marginal_frontier", n, mask, "splice")
      BY Zenon DEF FrontierRows
    <3>2. QED
      BY <3>1, RowNames
  <2>4. \A r \in new : r.name \notin FittedGates
    <3>1. Row("eligible_full", Cardinality(Eligible), Eligible, "splice").name = "eligible_full"
      BY RowNames
    <3>2. QED
      BY <2>2, <2>3, <3>1 DEF FittedGates
  <2> HIDE DEF new
  <2>5. QED
    BY <1>1, <2>1, <2>4
<1>15. QED
  BY <1>4, <1>5, <1>6, <1>7, <1>8, <1>9, <1>10, <1>11, <1>12, <1>13, <1>14

\* The rows of the fitted gates are what their policies decide.
THEOREM GatesFollowTheirFits == Spec => []DecidedInv
<1>1. Init => DecidedInv
  BY DEF Init, DecidedInv, Setting
<1>2. DecidedInv /\ [Next]_vars => DecidedInv'
  <2> SUFFICES ASSUME DecidedInv, [Next]_vars PROVE DecidedInv'
    OBVIOUS
  <2>1. CASE OneProbe \/ ConfidenceGate \/ Pool
    BY <2>1, GatesDecide
  <2>2. CASE Stale \/ Recompute \/ Surgery \/ Selectors \/ Signed \/ LearnedRanker
                \/ Committed \/ Router \/ Controlled \/ Supervised \/ Structured \/ Oracles
    BY <2>2, OthersAbstain
  <2>3. CASE TryMore \/ UNCHANGED vars
    <3>1. UNCHANGED <<options, measured>> /\ rows' = rows
      BY <2>3 DEF TryMore, vars
    <3>2. QED
      BY <3>1, DecisionsStay
  <2>4. QED
    BY <2>1, <2>2, <2>3 DEF Next, Finished
<1>3. QED
  BY <1>1, <1>2, PTL DEF Spec

\* The rows of the gates of a ranker that was fitted to the condition at hand.
LEMMA FittedGatesNoWorse == DecidedInv => NoWorseThanCalibrated
<1> DEFINE k == Fit
           cal == Tables(k)
           ranker == options.ranker
           stale == measured.sparseKl[{}]
           Harm(r) == measured.sparseKl[r.mask] - stale
<1> SUFFICES ASSUME DecidedInv, Calibrated, NEW r \in rows
             PROVE  /\ r.name = "sparse_one_probe_policy" => Harm(r) <= ranker.oneProbe.worst
                    /\ r.name = "sparse_one_probe_confidence_gate" =>
                            Harm(r) <= ranker.confidence.worst
                    /\ r.name = "sparse_reference_pool_policy" /\ stale >= MinStaleKl
                            /\ measured.nll[1][{}] # NaN =>
                            /\ Relative(stale, -Harm(r)) >= ranker.pool.worst
                            /\ ranker.pool.harmful = 0 => Harm(r) <= 0
  BY DEF NoWorseThanCalibrated
<1>1. Setting /\ Decided(r) /\ Ranker
  BY DEF DecidedInv, Calibrated
<1>2. /\ Readable(k) /\ \E c \in DOMAIN k.conditions : measured = k.conditions[c]
      /\ ranker.oneProbe # NoPolicy => ranker.oneProbe \in OneProbePolicies(cal)
      /\ ranker.confidence # NoPolicy => ranker.confidence \in ConfidencePolicies(cal)
      /\ ranker.pool # NoPolicy => ranker.pool \in ReferencePools(cal, DOMAIN k.conditions[1].sparse)
  BY <1>1, RankerIsFitted
<1>3. PICK c0 \in DOMAIN k.conditions : measured = k.conditions[c0]
  BY <1>2
<1>4. /\ ranker.oneProbe # NoPolicy => ranker.oneProbe.margin \in Nat
      /\ ranker.confidence # NoPolicy => ranker.confidence.margin \in Nat
  <2>1. PICK i \in DOMAIN Conditions : options \in Conditions[i].options
    BY <1>1 DEF Setting
  <2>2. \A p \in Gates(ranker) : p.margin \in Nat
    BY <1>1, <2>1, OptionsAssumption DEF Ranker
  <2> HIDE DEF ranker
  <2>3. QED
    BY <2>2 DEF Gates
<1>5. DOMAIN cal = DOMAIN k.conditions
      /\ \A c \in DOMAIN k.conditions :
            /\ DOMAIN cal[c].nll = KeysOf(k.conditions[c], k.counts)
            /\ DOMAIN cal[c].doubt = KeysOf(k.conditions[c], k.counts)
  BY <1>2, TablesFinite, TableFacts
<1>6. \A x \in KeysOf(measured, k.counts) :
        /\ cal[c0].nll[x] = measured.nll[1][MaskOf(measured, x)] /\ cal[c0].nll[x] \in Found
        /\ cal[c0].doubt[x] = measured.confidence[MaskOf(measured, x)] /\ cal[c0].doubt[x] \in Found
  <2>1. \A x \in KeysOf(k.conditions[c0], k.counts) :
            cal[c0].nll[x] \in Found /\ cal[c0].doubt[x] \in Found
    BY <1>2, TableFacts
  <2>2. \A x \in KeysOf(measured, k.counts) :
            /\ cal[c0].nll[x] = measured.nll[1][MaskOf(measured, x)]
            /\ cal[c0].doubt[x] = measured.confidence[MaskOf(measured, x)]
    BY <1>2, <1>3, MeasuredTable
  <2> HIDE DEF cal
  <2>3. QED
    BY <1>3, <2>1, <2>2
<1> HIDE DEF k, cal, ranker
<1>7. ASSUME r.name = "sparse_one_probe_policy" PROVE Harm(r) <= ranker.oneProbe.worst
  <2> DEFINE p == ranker.oneProbe
             score == [c \in DOMAIN cal |-> cal[c].nll]
  <2>1. p # NoPolicy /\ r.mask = GateMask(measured.nll[1], CandidateMask(p.candidate), p.margin)
    BY <1>1, <1>7 DEF Decided, FittedGates, ranker
  <2>2. p \in GatePolicies(cal, score) /\ p.margin \in Nat
    BY <1>2, <1>4, <2>1 DEF OneProbePolicies
  <2>3. (\A c \in DOMAIN k.conditions : score[c] = cal[c].nll) /\ score[c0] = cal[c0].nll
    BY <1>5
  <2> HIDE DEF p, score
  <2>4. \A c \in DOMAIN k.conditions : DOMAIN score[c] = KeysOf(k.conditions[c], k.counts)
    BY <1>5, <2>3
  <2>5. \A x \in KeysOf(measured, k.counts) :
            score[c0][x] = measured.nll[1][MaskOf(measured, x)] /\ score[c0][x] \in Found
    BY <1>6, <2>3
  <2>6. measured.sparseKl[r.mask] - measured.sparseKl[{}] <= p.worst
    <3>1. p \in GatePolicies(Tables(k), score) /\ p.margin \in Nat /\ Readable(k)
      BY <1>2, <2>2 DEF cal
    <3> HIDE DEF stale
    <3>2. LET mask == GateMask(measured.nll[1], CandidateMask(p.candidate), p.margin)
          IN  measured.sparseKl[mask] - measured.sparseKl[{}] <= p.worst
      BY <1>3, <2>4, <2>5, <3>1, GateNoWorse
    <3>3. QED
      BY <2>1, <3>2
  <2>7. QED
    BY <2>6 DEF p
<1>8. ASSUME r.name = "sparse_one_probe_confidence_gate" PROVE Harm(r) <= ranker.confidence.worst
  <2> DEFINE p == ranker.confidence
             score == [c \in DOMAIN cal |-> cal[c].doubt]
  <2>1. p # NoPolicy /\ r.mask = GateMask(measured.confidence, CandidateMask(p.candidate), p.margin)
    BY <1>1, <1>8 DEF Decided, FittedGates, ranker
  <2>2. p \in GatePolicies(cal, score) /\ p.margin \in Nat
    BY <1>2, <1>4, <2>1 DEF ConfidencePolicies
  <2>3. (\A c \in DOMAIN k.conditions : score[c] = cal[c].doubt) /\ score[c0] = cal[c0].doubt
    BY <1>5
  <2> HIDE DEF p, score
  <2>4. \A c \in DOMAIN k.conditions : DOMAIN score[c] = KeysOf(k.conditions[c], k.counts)
    BY <1>5, <2>3
  <2>5. \A x \in KeysOf(measured, k.counts) :
            score[c0][x] = measured.confidence[MaskOf(measured, x)] /\ score[c0][x] \in Found
    BY <1>6, <2>3
  <2>6. measured.sparseKl[r.mask] - measured.sparseKl[{}] <= p.worst
    <3>1. p \in GatePolicies(Tables(k), score) /\ p.margin \in Nat /\ Readable(k)
      BY <1>2, <2>2 DEF cal
    <3> HIDE DEF stale
    <3>2. LET mask == GateMask(measured.confidence, CandidateMask(p.candidate), p.margin)
          IN  measured.sparseKl[mask] - measured.sparseKl[{}] <= p.worst
      BY <1>3, <2>4, <2>5, <3>1, GateNoWorse
    <3>3. QED
      BY <2>1, <3>2
  <2>7. QED
    BY <2>6 DEF p
<1>9. ASSUME r.name = "sparse_reference_pool_policy", stale >= MinStaleKl,
             measured.nll[1][{}] # NaN
      PROVE  /\ Relative(stale, -Harm(r)) >= ranker.pool.worst
             /\ ranker.pool.harmful = 0 => Harm(r) <= 0
  <2> DEFINE p == ranker.pool
             mask == PoolMask(measured.nll[1],
                        [i \in DOMAIN p.candidates |-> CandidateMask(p.candidates[i])],
                        measured.nll[1][{}], p.margin)
             selectors == DOMAIN k.conditions[1].sparse
  <2>1. p # NoPolicy /\ r.mask = mask
    BY <1>1, <1>9 DEF Decided, FittedGates, ranker, PoolDecision
  <2>2. p \in ReferencePools(Tables(k), selectors)
    BY <1>2, <2>1 DEF cal
  <2> HIDE DEF p, selectors
  <2>3. /\ Relative(stale, -(measured.sparseKl[mask] - stale)) >= p.worst
        /\ p.harmful = 0 => measured.sparseKl[mask] - stale <= 0
    BY <1>2, <1>3, <1>9, <2>2, PoolNoWorse
  <2> HIDE DEF mask
  <2>4. QED
    BY <2>1, <2>3 DEF p
<1>10. QED
  BY <1>7, <1>8, <1>9

\* A router chooses from the candidates it was fitted with.
LEMMA RouterChooses ==
    ASSUME NEW table, NEW candidates, NEW fits, NEW p \in ReferenceRouters(table, candidates, fits)
    PROVE  p.candidates = candidates
<1>1. \E s, once : p = [candidates |-> candidates, margin |-> 0, close |-> s.close,
            probes |-> s.probes, metrics |-> s.metrics, once |-> once]
  BY Zenon DEF ReferenceRouters
<1>2. QED
  BY <1>1

\* A fitted ranker does no harm where it commits without a probe, and probes
\* twice only where that harms no more.
LEMMA FittedRoutersCautious == Setting => RoutersAreCautious
<1> DEFINE k == Fit
           p == options.ranker.router
           q == options.ranker.committed
<1> SUFFICES ASSUME Setting, Calibrated
             PROVE  /\ q # NoPolicy => q.metrics.harmful = 0
                    /\ p # NoPolicy =>
                        /\ p.metrics.materialHarmful <= p.once.materialHarmful
                        /\ 2 * p.probes <= 3 * Len(k.conditions)
  BY DEF RoutersAreCautious, Fit
<1>1. /\ Readable(k)
      /\ p # NoPolicy =>
            /\ Len(p.candidates) >= 2
            /\ \E s \in ReferencePools(Tables(k), DOMAIN k.conditions[1].sparse) :
                p \in ReferenceRouters(Tables(k), s.candidates, k.fits)
      /\ q # NoPolicy =>
            \E candidates \in CommittedPools(Tables(k)) :
                \E s \in CommittedRouters(Tables(k), candidates, k.fits) :
                    q.metrics = s.metrics
  BY RankerIsFitted
<1> HIDE DEF k, p, q
<1>2. ASSUME q # NoPolicy PROVE q.metrics.harmful = 0
  <2>1. PICK candidates \in CommittedPools(Tables(k)) :
            \E s \in CommittedRouters(Tables(k), candidates, k.fits) : q.metrics = s.metrics
    BY <1>1, <1>2
  <2>2. PICK s \in CommittedRouters(Tables(k), candidates, k.fits) : q.metrics = s.metrics
    BY <2>1
  <2>3. s.metrics.harmful = 0
    BY <1>1, CommittedNoHarm
  <2>4. QED
    BY <2>2, <2>3
<1>3. ASSUME p # NoPolicy
      PROVE  /\ p.metrics.materialHarmful <= p.once.materialHarmful
             /\ 2 * p.probes <= 3 * Len(k.conditions)
  <2>1. PICK s \in ReferencePools(Tables(k), DOMAIN k.conditions[1].sparse) :
            p \in ReferenceRouters(Tables(k), s.candidates, k.fits)
    BY <1>1, <1>3
  <2> DEFINE candidates == s.candidates
             n == Len(candidates)
  <2>2. n \in 1..PoolSize /\ DOMAIN candidates = 1..n
    <3>1. n \in 1..PoolSize /\ \E A : candidates \in Seq(A)
      BY <1>1, ReferencePoolFacts
    <3>2. QED
      BY <3>1
  <2>3. p.candidates = candidates
    BY <2>1, RouterChooses
  <2>4. n \in Nat /\ n >= 2 /\ n <= PoolSize
    <3>1. Len(p.candidates) >= 2 /\ PoolSize \in Nat
      BY <1>1, <1>3, PolicyAssumption
    <3> HIDE DEF candidates
    <3>2. QED
      BY <2>2, <2>3, <3>1
  <2>5. p \in ReferenceRouters(Tables(k), candidates, k.fits)
    BY <2>1
  <2> HIDE DEF candidates, n
  <2>6. QED
    BY <1>1, <2>2, <2>4, <2>5, RouterCautious
<1>4. QED
  BY <1>2, <1>3

\* On a condition of its own calibration a gate does no more harm than its fit
\* counted: the table that the fit reads lists what the gate will then find,
\* and the candidate, the margin and the order of the pool are the same.
THEOREM NeverWorseThanFitted == Spec => []NoWorseThanCalibrated
BY FittedGatesNoWorse, GatesFollowTheirFits, PTL

\* A router that commits without a probe was fitted without a harm, for the
\* policy that allows for the highest error never harms and would be better;
\* and one that may probe twice harms materially no more often than probing
\* once would, within 1.5 probes on average, for probing once is a choice too.
THEOREM RoutersStayCautious == Spec => []RoutersAreCautious
<1>1. DecidedInv => RoutersAreCautious
  BY FittedRoutersCautious DEF DecidedInv
<1>2. QED
  BY <1>1, GatesFollowTheirFits, PTL

=============================================================================
