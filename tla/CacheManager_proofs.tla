------------------------ MODULE CacheManager_proofs ------------------------
(***************************************************************************)
(* Proofs about CacheManager, for any limits, policy, keys and entries.    *)
(*                                                                         *)
(* The argument: the order holds each resident key once and is sorted by   *)
(* last use, and the byte total is what the entries add up to (Sound).     *)
(* Every method is a composition of three operations on a sound index:     *)
(* taking a key out, appending a key that was just used, and dropping the  *)
(* oldest ones. Each lemma says what one of the three does to a sound      *)
(* index. Evicting drops as few as the bounded store allows, so the        *)
(* manager implements it.                                                  *)
(***************************************************************************)
EXTENDS CacheManager, TLAPS, SequenceTheorems, WellFoundedInduction, FiniteSetTheorems

\* The facts about one index that every method preserves.
IndexOK(m) ==
    /\ m = [order |-> m.order, entries |-> m.entries, total |-> m.total,
            evictions |-> m.evictions]
    /\ m.order \in Seq(Keys)
    /\ \A i, j \in 1..Len(m.order) : m.order[i] = m.order[j] => i = j
    /\ Resident(m) = {m.order[i] : i \in 1..Len(m.order)}
    /\ m.entries \in [Resident(m) -> Entries]
    /\ \A k \in Resident(m) : ~Mismatched(k, m.entries[k])
    /\ m.evictions \in Nat

\* The order is sorted by last use.
SortedByUse(m, use) ==
    \A i, j \in 1..Len(m.order) : i < j => <<m.order[i], m.order[j]>> \in use

\* A non-empty set of natural numbers contains its minimum.
LEMMA MinInSet ==
    ASSUME NEW S \in SUBSET Nat, S # {}
    PROVE  Min(S) \in S /\ \A x \in S : Min(S) <= x
<1>1. PICK x \in S : \A y \in S : ~(<<y, x>> \in OpToRel(<, Nat))
  BY NatLessThanWellFounded, WFMin
<1>2. \A y \in S : x <= y
  <2> SUFFICES ASSUME NEW y \in S, y < x PROVE FALSE
    BY SMT
  <2>1. <<y, x>> \in Nat \X Nat /\ <<y, x>>[1] = y /\ <<y, x>>[2] = x
    OBVIOUS
  <2>2. <<y, x>> \in OpToRel(<, Nat)
    BY <2>1 DEF OpToRel
  <2>3. QED
    BY <1>1, <2>2
<1>3. QED
  BY <1>2 DEF Min

---------------------------------------------------------------------------
(***************************************************************************)
(* Sums over finite sets. The fold that defines MapThenSumSet is a table   *)
(* of the sums over all subsets. Each lemma argues by a smallest           *)
(* counterexample: the set of the cardinalities at which it fails would    *)
(* have a minimum.                                                         *)
(***************************************************************************)

Pick(s) == CHOOSE x \in s : TRUE

\* What the sum over s is, by a table of the sums over smaller sets.
SumBy(f, g, s) == IF s = {} THEN 0 ELSE f[Pick(s)] + g[s \ {Pick(s)}]

Sums(f) == CHOOSE g : g = [s \in SUBSET DOMAIN f |-> SumBy(f, g, s)]

\* A table that is right up to a cardinality.
Filled(S, f, g, n) == \A s \in SUBSET S : Cardinality(s) <= n => g[s] = SumBy(f, g, s)

\* A subset of a finite set has a cardinality, which taking an element out
\* reduces by one.
LEMMA SmallerByOne ==
    ASSUME NEW S, IsFiniteSet(S), NEW s \in SUBSET S
    PROVE  /\ Cardinality(s) \in Nat /\ Cardinality(s) <= Cardinality(S)
           /\ Cardinality(s) = 0 <=> s = {}
           /\ \A x \in s : Cardinality(s \ {x}) = Cardinality(s) - 1
           /\ s # {} => Pick(s) \in s
<1>1. IsFiniteSet(s) /\ Cardinality(s) <= Cardinality(S)
  BY FS_Subset
<1>2. Cardinality(s) \in Nat /\ (Cardinality(s) = 0 <=> s = {})
  BY <1>1, FS_CardinalityType, FS_EmptySet
<1>3. \A x \in s : Cardinality(s \ {x}) = Cardinality(s) - 1
  BY <1>1, FS_RemoveElement
<1>4. QED
  BY <1>1, <1>2, <1>3 DEF Pick

\* The table exists: it can be filled up to any cardinality.
LEMMA SumsFilled ==
    ASSUME NEW S, IsFiniteSet(S), NEW f \in [S -> Nat], NEW n \in Nat
    PROVE  \E g \in [SUBSET S -> Nat] : Filled(S, f, g, n)
<1> DEFINE bad == {j \in Nat : ~ \E g \in [SUBSET S -> Nat] : Filled(S, f, g, j)}
<1> SUFFICES ASSUME bad # {} PROVE FALSE
  BY Zenon
<1>1. PICK j \in bad : \A i \in bad : j <= i
  <2>1. bad \in SUBSET Nat
    OBVIOUS
  <2> HIDE DEF bad
  <2>2. QED
    BY <2>1, MinInSet
<1>2. CASE j = 0
  <2> DEFINE g == [s \in SUBSET S |-> 0]
  <2>1. Filled(S, f, g, 0)
    <3> SUFFICES ASSUME NEW s \in SUBSET S, Cardinality(s) <= 0 PROVE g[s] = SumBy(f, g, s)
      BY Zenon DEF Filled
    <3>1. s = {}
      BY SmallerByOne
    <3>2. QED
      BY <3>1 DEF SumBy
  <2>2. g \in [SUBSET S -> Nat]
    OBVIOUS
  <2>3. QED
    BY <1>2, <2>1, <2>2, Zenon
<1>3. CASE j # 0
  <2>1. j - 1 \in Nat /\ j - 1 \notin bad
    <3>1. j \in Nat
      BY <1>1
    <3> HIDE DEF bad
    <3>2. QED
      BY <1>1, <1>3, <3>1
  <2>2. PICK h \in [SUBSET S -> Nat] : Filled(S, f, h, j - 1)
    BY <2>1, Zenon
  <2> DEFINE g == [s \in SUBSET S |-> SumBy(f, h, s)]
  <2>3. g \in [SUBSET S -> Nat]
    <3> SUFFICES ASSUME NEW s \in SUBSET S PROVE SumBy(f, h, s) \in Nat
      OBVIOUS
    <3>1. CASE s = {}
      BY <3>1 DEF SumBy
    <3>2. CASE s # {}
      <4>1. Pick(s) \in S /\ s \ {Pick(s)} \in SUBSET S
        BY <3>2, SmallerByOne
      <4>2. f[Pick(s)] \in Nat /\ h[s \ {Pick(s)}] \in Nat
        BY <4>1
      <4>3. QED
        BY <3>2, <4>2 DEF SumBy
    <3>3. QED
      BY <3>1, <3>2
  <2>4. Filled(S, f, g, j)
    <3> SUFFICES ASSUME NEW s \in SUBSET S, Cardinality(s) <= j PROVE g[s] = SumBy(f, g, s)
      BY Zenon DEF Filled
    <3>1. g[s] = SumBy(f, h, s)
      OBVIOUS
    <3>2. CASE s = {}
      BY <3>1, <3>2 DEF SumBy
    <3>3. CASE s # {}
      <4> DEFINE t == s \ {Pick(s)}
      <4>1. t \in SUBSET S /\ Cardinality(t) <= j - 1
        BY <3>3, SmallerByOne
      <4>2. h[t] = SumBy(f, h, t) /\ g[t] = SumBy(f, h, t)
        BY <2>2, <4>1 DEF Filled
      <4>3. QED
        BY <3>1, <3>3, <4>2 DEF SumBy
    <3>4. QED
      BY <3>2, <3>3
  <2>5. QED
    BY <2>3, <2>4, Zenon
<1>4. QED
  BY <1>2, <1>3

\* Two tables of the same sums do not differ.
LEMMA TablesEqual ==
    ASSUME NEW S, IsFiniteSet(S), NEW f, NEW g, NEW h,
           \A s \in SUBSET S : g[s] = SumBy(f, g, s) /\ h[s] = SumBy(f, h, s)
    PROVE  \A s \in SUBSET S : g[s] = h[s]
<1> DEFINE bad == {Cardinality(s) : s \in {r \in SUBSET S : g[r] # h[r]}}
<1> SUFFICES ASSUME bad # {} PROVE FALSE
  OBVIOUS
<1>1. bad \in SUBSET Nat
  BY SmallerByOne
<1>2. PICK j \in bad : \A i \in bad : j <= i
  <2> HIDE DEF bad
  <2>1. QED
    BY <1>1, MinInSet
<1>3. PICK s \in SUBSET S : g[s] # h[s] /\ j = Cardinality(s)
  BY <1>2
<1>4. s # {}
  BY <1>3 DEF SumBy
<1> DEFINE r == s \ {Pick(s)}
<1>5. r \in SUBSET S /\ Cardinality(r) = j - 1 /\ Cardinality(r) \in Nat
  <2>1. r \in SUBSET S
    OBVIOUS
  <2>2. QED
    BY <1>3, <1>4, <2>1, SmallerByOne
<1>6. Cardinality(r) \notin bad
  <2> HIDE DEF bad, r
  <2>1. QED
    BY <1>1, <1>2, <1>5
<1>7. g[r] = h[r]
  BY <1>5, <1>6
<1>8. QED
  BY <1>3, <1>4, <1>7 DEF SumBy

\* So Sums is that table, with natural numbers in it.
LEMMA SumsDefined ==
    ASSUME NEW S, IsFiniteSet(S), NEW f \in [S -> Nat]
    PROVE  /\ Sums(f) \in [SUBSET S -> Nat]
           /\ \A s \in SUBSET S : Sums(f)[s] = SumBy(f, Sums(f), s)
<1> DEFINE n == Cardinality(S)
<1>1. n \in Nat /\ \A s \in SUBSET S : Cardinality(s) <= n
  BY FS_CardinalityType, SmallerByOne
<1> HIDE DEF n
<1>2. PICK g \in [SUBSET S -> Nat] : Filled(S, f, g, n)
  BY <1>1, SumsFilled
<1>3. \A s \in SUBSET S : g[s] = SumBy(f, g, s)
  BY <1>1, <1>2 DEF Filled
<1>4. DOMAIN f = S
  OBVIOUS
<1>5. g = [s \in SUBSET DOMAIN f |-> SumBy(f, g, s)]
  BY <1>3, <1>4
<1>6. Sums(f) = [s \in SUBSET DOMAIN f |-> SumBy(f, Sums(f), s)]
  BY <1>5, Zenon DEF Sums
<1> DEFINE t == Sums(f)
<1>7. \A s \in SUBSET S : t[s] = SumBy(f, t, s)
  BY <1>4, <1>6, Zenon
<1>8. \A s \in SUBSET S : t[s] = g[s]
  BY <1>3, <1>7, TablesEqual
<1>9. t = [s \in SUBSET S |-> t[s]]
  BY <1>4, <1>6
<1>10. t \in [SUBSET S -> Nat]
  BY <1>8, <1>9
<1>11. QED
  BY <1>7, <1>10

\* Any element may be taken out first.
LEMMA TakeOut ==
    ASSUME NEW S, IsFiniteSet(S), NEW f \in [S -> Nat], NEW s \in SUBSET S, NEW x \in s
    PROVE  Sums(f)[s] = f[x] + Sums(f)[s \ {x}]
<1> DEFINE t == Sums(f)
           Fails(r) == \E y \in r : t[r] # f[y] + t[r \ {y}]
           bad == {Cardinality(r) : r \in {q \in SUBSET S : Fails(q)}}
<1>1. t \in [SUBSET S -> Nat] /\ \A r \in SUBSET S : t[r] = SumBy(f, t, r)
  BY SumsDefined
<1> HIDE DEF t
<1>2. bad = {}
  <2> SUFFICES ASSUME bad # {} PROVE FALSE
    OBVIOUS
  <2>1. bad \in SUBSET Nat
    BY SmallerByOne
  <2>2. PICK j \in bad : \A i \in bad : j <= i
    <3> HIDE DEF bad
    <3>1. QED
      BY <2>1, MinInSet
  <2>3. PICK r \in SUBSET S : Fails(r) /\ j = Cardinality(r)
    BY <2>2
  <2>4. PICK y \in r : t[r] # f[y] + t[r \ {y}]
    BY <2>3
  <2> DEFINE p == Pick(r)
             rp == r \ {p}
             ry == r \ {y}
             both == r \ {p, y}
  <2>5. p \in r /\ t[r] = f[p] + t[rp]
    BY <1>1, <2>4, SmallerByOne DEF SumBy
  <2>6. y # p
    BY <2>4, <2>5
  <2>7. rp \in SUBSET S /\ ry \in SUBSET S /\ Cardinality(rp) = j - 1 /\ Cardinality(ry) = j - 1
    BY <2>3, <2>5, SmallerByOne
  <2>8. j \in Nat /\ j - 1 \notin bad
    <3> HIDE DEF bad
    <3>1. QED
      BY <2>1, <2>2
  <2>9. ~Fails(rp) /\ ~Fails(ry)
    BY <2>7, <2>8
  <2>10. rp \ {y} = both /\ ry \ {p} = both /\ y \in rp /\ p \in ry
    BY <2>5, <2>6
  <2>11. t[rp] = f[y] + t[both] /\ t[ry] = f[p] + t[both]
    BY <2>9, <2>10
  <2>12. f[p] \in Nat /\ f[y] \in Nat /\ t[both] \in Nat
    BY <1>1, <2>5, <2>10
  <2>13. t[r] = f[y] + t[ry]
    BY <2>5, <2>11, <2>12
  <2>14. QED
    BY <2>4, <2>13
<1>3. ~Fails(s)
  BY <1>2
<1>4. QED
  BY <1>3 DEF t

\* The sum over a set depends on the values in that set only.
LEMMA SumsAgree ==
    ASSUME NEW S, IsFiniteSet(S), NEW f \in [S -> Nat],
           NEW T, IsFiniteSet(T), NEW h \in [T -> Nat],
           NEW s \in SUBSET (S \cap T), \A x \in s : f[x] = h[x]
    PROVE  Sums(f)[s] = Sums(h)[s]
<1> DEFINE t == Sums(f)
           u == Sums(h)
           bad == {Cardinality(r) : r \in {q \in SUBSET s : t[q] # u[q]}}
<1>1. /\ \A r \in SUBSET S : t[r] = SumBy(f, t, r)
      /\ \A r \in SUBSET T : u[r] = SumBy(h, u, r)
  <2>1. \A r \in SUBSET S : t[r] = SumBy(f, t, r)
    BY SumsDefined, Zenon
  <2>2. \A r \in SUBSET T : u[r] = SumBy(h, u, r)
    BY SumsDefined, Zenon
  <2>3. QED
    BY <2>1, <2>2
<1> HIDE DEF t, u
<1>2. bad = {}
  <2> SUFFICES ASSUME bad # {} PROVE FALSE
    OBVIOUS
  <2>1. bad \in SUBSET Nat
    BY SmallerByOne
  <2>2. PICK j \in bad : \A i \in bad : j <= i
    <3> HIDE DEF bad
    <3>1. QED
      BY <2>1, MinInSet
  <2>3. PICK r \in SUBSET s : t[r] # u[r] /\ j = Cardinality(r)
    BY <2>2
  <2>4. t[r] = SumBy(f, t, r) /\ u[r] = SumBy(h, u, r)
    BY <1>1
  <2>5. r # {}
    BY <2>3, <2>4 DEF SumBy
  <2> DEFINE q == r \ {Pick(r)}
  <2>6. q \in SUBSET s /\ Pick(r) \in s /\ Cardinality(q) = j - 1
    BY <2>3, <2>5, SmallerByOne
  <2>7. j \in Nat /\ j - 1 \notin bad
    BY <2>1, <2>2
  <2>8. t[q] = u[q]
    BY <2>6, <2>7
  <2>9. f[Pick(r)] = h[Pick(r)]
    BY <2>6
  <2>10. QED
    BY <2>3, <2>4, <2>5, <2>8, <2>9 DEF SumBy
<1>3. QED
  BY <1>2 DEF t, u

Additive(sums, s, t) == sums[s \cup t] = sums[s] + sums[t]

\* The sum over the union of two disjoint sets is the sum of the two sums.
LEMMA SumsSplit ==
    ASSUME NEW S, IsFiniteSet(S), NEW f \in [S -> Nat],
           NEW s \in SUBSET S, NEW t \in SUBSET S, s \cap t = {}
    PROVE  Additive(Sums(f), s, t)
<1> DEFINE u == Sums(f)
           Splits(r) == u[r \cup t] = u[r] + u[t]
           bad == {Cardinality(r) : r \in {q \in SUBSET s : ~Splits(q)}}
<1>1. u \in [SUBSET S -> Nat] /\ \A r \in SUBSET S : u[r] = SumBy(f, u, r)
  BY SumsDefined
<1>2. \A r \in SUBSET S : \A x \in r : u[r] = f[x] + u[r \ {x}]
  <2> SUFFICES ASSUME NEW r \in SUBSET S, NEW x \in r PROVE u[r] = f[x] + u[r \ {x}]
    OBVIOUS
  <2>1. QED
    BY TakeOut
<1> HIDE DEF u
<1>3. bad = {}
  <2> SUFFICES ASSUME bad # {} PROVE FALSE
    OBVIOUS
  <2>1. bad \in SUBSET Nat
    <3>1. ASSUME NEW q \in SUBSET s PROVE Cardinality(q) \in Nat
      <4>1. q \in SUBSET S
        OBVIOUS
      <4>2. QED
        BY <4>1, SmallerByOne
    <3>2. QED
      BY <3>1
  <2>2. PICK j \in bad : \A i \in bad : j <= i
    <3> HIDE DEF bad
    <3>1. QED
      BY <2>1, MinInSet
  <2>3. PICK r \in SUBSET s : ~Splits(r) /\ j = Cardinality(r)
    BY <2>2
  <2>4. r # {}
    <3>1. u[{}] = 0 /\ u[t] \in Nat
      BY <1>1 DEF SumBy
    <3>2. ASSUME r = {} PROVE FALSE
      <4>1. r \cup t = t
        BY <3>2
      <4>2. u[r] = 0 /\ u[r \cup t] = u[t]
        BY <3>1, <3>2, <4>1
      <4>3. QED
        BY <2>3, <3>1, <4>2
    <3>3. QED
      BY <3>2
  <2> DEFINE x == Pick(r)
             q == r \ {x}
  <2>5. q \in SUBSET s /\ x \in r /\ Cardinality(q) = j - 1
    BY <2>3, <2>4, SmallerByOne
  <2>6. j \in Nat /\ j - 1 \notin bad
    <3> HIDE DEF bad
    <3>1. QED
      BY <2>1, <2>2
  <2>7. Splits(q)
    BY <2>5, <2>6
  <2>8. (r \cup t) \ {x} = q \cup t
    BY <2>5
  <2>9. u[r \cup t] = f[x] + u[q \cup t] /\ u[r] = f[x] + u[q]
    BY <1>2, <2>5, <2>8
  <2>10. f[x] \in Nat /\ u[q] \in Nat /\ u[t] \in Nat
    BY <1>1, <2>5
  <2>11. QED
    BY <2>3, <2>7, <2>9, <2>10
<1>4. Splits(s)
  BY <1>3
<1>5. QED
  BY <1>4 DEF u, Additive

\* What the fold of the community modules computes is in the table.
LEMMA SizesSum ==
    ASSUME NEW R, IsFiniteSet(R), NEW ent, \A k \in R : ent[k].size \in Nat
    PROVE  MapThenSumSet(LAMBDA k : ent[k].size, R) = Sums([k \in R |-> ent[k].size])[R]
<1> DEFINE f == [k \in R |-> ent[k].size]
           body(g) == [s \in SUBSET R |-> IF s = {} THEN 0
                                          ELSE ent[Pick(s)].size + g[s \ {Pick(s)}]]
           v == CHOOSE g : g = body(g)
<1>1. MapThenSumSet(LAMBDA k : ent[k].size, R) = v[R]
  BY DEF MapThenSumSet, MapThenFoldSet, Pick
<1>2. f \in [R -> Nat]
  OBVIOUS
<1>3. \A g : \A s \in SUBSET R : body(g)[s] = SumBy(f, g, s)
  BY DEF SumBy, Pick
<1> DEFINE t == Sums(f)
<1>4. t \in [SUBSET R -> Nat] /\ \A s \in SUBSET R : t[s] = SumBy(f, t, s)
  BY <1>2, SumsDefined
<1>9. t = body(t)
  <2> HIDE DEF t
  <2>1. \A s \in SUBSET R : t[s] = body(t)[s]
    BY <1>3, <1>4
  <2>2. t = [s \in SUBSET R |-> t[s]] /\ body(t) = [s \in SUBSET R |-> body(t)[s]]
    BY <1>4
  <2> HIDE DEF body
  <2>3. QED
    BY <2>1, <2>2
<1>5. v = body(v)
  BY <1>9, Zenon
<1> HIDE DEF v, f, body, t
<1>6. \A s \in SUBSET R : v[s] = SumBy(f, v, s)
  BY <1>3, <1>5
<1>7. v[R] = t[R]
  <2>1. \A s \in SUBSET R : v[s] = SumBy(f, v, s) /\ t[s] = SumBy(f, t, s)
    BY <1>4, <1>6
  <2>2. \A s \in SUBSET R : v[s] = t[s]
    BY <2>1, TablesEqual
  <2>3. QED
    BY <2>2
<1>8. QED
  BY <1>1, <1>7 DEF f, t

---------------------------------------------------------------------------

\* Taking a key out of a sequence that holds it once leaves the others in order.
LEMMA RemoveFirstFacts ==
    ASSUME NEW s \in Seq(Keys), NEW p \in 1..Len(s),
           \A i, j \in 1..Len(s) : s[i] = s[j] => i = j
    PROVE  /\ RemoveFirst(s, s[p]) \in Seq(Keys)
           /\ Len(RemoveFirst(s, s[p])) = Len(s) - 1
           /\ \A i \in 1..(Len(s) - 1) :
                 RemoveFirst(s, s[p])[i] = IF i < p THEN s[i] ELSE s[i + 1]
<1> DEFINE I == {i \in 1..Len(s) : s[i] = s[p]}
<1>1. SelectInSeq(s, LAMBDA v : v = s[p]) = p
  <2>1. I = {p} /\ I # {} /\ I \in SUBSET Nat
    OBVIOUS
  <2>2. Min(I) = p
    BY <2>1, MinInSet
  <2>3. QED
    BY <2>1, <2>2 DEF SelectInSeq
<1> DEFINE a == SubSeq(s, 1, p - 1)
           b == SubSeq(s, p + 1, Len(s))
<1>2. RemoveFirst(s, s[p]) = a \o b
  BY <1>1 DEF RemoveFirst, RemoveAt
<1>3. /\ a \in Seq(Keys)
      /\ Len(a) = p - 1
      /\ \A i \in 1..(p - 1) : a[i] = s[i]
  <2>1. \A i \in 1..(p - 1) : s[i] \in Keys
    BY ElementOfSeq
  <2>2. QED
    BY <2>1, SubSeqProperties
<1>4. /\ b \in Seq(Keys)
      /\ Len(b) = Len(s) - p
      /\ \A i \in 1..(Len(s) - p) : b[i] = s[p + i]
  <2>1. \A i \in (p + 1)..Len(s) : s[i] \in Keys
    BY ElementOfSeq
  <2>2. QED
    BY <2>1, SubSeqProperties
<1>5. /\ a \o b \in Seq(Keys)
      /\ Len(a \o b) = Len(s) - 1
      /\ \A i \in 1..(Len(s) - 1) : (a \o b)[i] = IF i < p THEN s[i] ELSE s[i + 1]
  <2> HIDE DEF a, b
  <2>1. /\ a \o b \in Seq(Keys)
        /\ Len(a \o b) = Len(a) + Len(b)
        /\ \A i \in 1..(Len(a) + Len(b)) :
              (a \o b)[i] = IF i <= Len(a) THEN a[i] ELSE b[i - Len(a)]
    <3>1. a \in Seq(Keys) /\ b \in Seq(Keys)
      BY <1>3, <1>4
    <3>2. QED
      BY <3>1, ConcatProperties, ZenonT(60)
  <2>2. QED
    BY <2>1, <1>3, <1>4
<1>6. QED
  BY <1>2, <1>5

---------------------------------------------------------------------------

\* remove takes one key out of a sound index and leaves the rest as it was.
LEMMA RemoveSound ==
    ASSUME NEW m, IndexOK(m), NEW k \in Keys
    PROVE  /\ IndexOK(AfterRemove(m, k))
           /\ \A use : SortedByUse(m, use) => SortedByUse(AfterRemove(m, k), use)
           /\ Resident(AfterRemove(m, k)) = Resident(m) \ {k}
           /\ AfterRemove(m, k).evictions = m.evictions
           /\ Len(AfterRemove(m, k).order) <= Len(m.order)
<1> DEFINE r == AfterRemove(m, k)
<1>1. CASE k \notin Resident(m)
  <2>1. r = m
    BY <1>1 DEF AfterRemove
  <2>2. Resident(m) \ {k} = Resident(m)
    BY <1>1
  <2>3. Len(m.order) \in Nat
    BY LenProperties DEF IndexOK
  <2>4. QED
    BY <2>1, <2>2, <2>3
<1>2. CASE k \in Resident(m)
  <2>1. Len(m.order) \in Nat /\ \A i \in 1..Len(m.order) : m.order[i] \in Keys
    BY LenProperties, ElementOfSeq DEF IndexOK
  <2>2. PICK p \in 1..Len(m.order) : m.order[p] = k
    BY <1>2 DEF IndexOK
  <2>3. r = [order |-> RemoveFirst(m.order, k),
             entries |-> Restrict(m.entries, Resident(m) \ {k}),
             total |-> m.total - m.entries[k].size,
             evictions |-> m.evictions]
    BY <1>2 DEF AfterRemove, IndexOK, Resident
  <2> HIDE DEF r
  <2>4. /\ r.order \in Seq(Keys)
        /\ Len(r.order) = Len(m.order) - 1
        /\ \A i \in 1..Len(r.order) :
              r.order[i] = IF i < p THEN m.order[i] ELSE m.order[i + 1]
    BY <2>2, <2>3, RemoveFirstFacts DEF IndexOK
  <2> DEFINE pos(i) == IF i < p THEN i ELSE i + 1
  <2>10. /\ \A i \in 1..Len(r.order) : /\ pos(i) \in 1..Len(m.order)
                                       /\ pos(i) # p
                                       /\ r.order[i] = m.order[pos(i)]
         /\ \A i, j \in 1..Len(r.order) : /\ i < j => pos(i) < pos(j)
                                          /\ pos(i) = pos(j) => i = j
    <3>1. ASSUME NEW i \in 1..Len(r.order)
          PROVE  pos(i) \in 1..Len(m.order) /\ pos(i) # p
      BY <2>1, <2>4
    <3>2. ASSUME NEW i \in 1..Len(r.order)
          PROVE  r.order[i] = m.order[pos(i)]
      BY <2>4
    <3>3. ASSUME NEW i \in 1..Len(r.order), NEW j \in 1..Len(r.order)
          PROVE  (i < j => pos(i) < pos(j)) /\ (pos(i) = pos(j) => i = j)
      BY <2>1, <2>4
    <3>4. QED
      BY <3>1, <3>2, <3>3, Zenon
  <2> HIDE DEF pos
  <2>5. \A i, j \in 1..Len(r.order) : r.order[i] = r.order[j] => i = j
    BY <2>10 DEF IndexOK
  <2>6. {r.order[i] : i \in 1..Len(r.order)} = Resident(m) \ {k}
    <3>1. ASSUME NEW i \in 1..Len(r.order)
          PROVE  r.order[i] \in Resident(m) \ {k}
      BY <2>2, <2>10 DEF IndexOK
    <3>2. ASSUME NEW x \in Resident(m) \ {k}
          PROVE  \E i \in 1..Len(r.order) : r.order[i] = x
      <4>1. PICK j \in 1..Len(m.order) : m.order[j] = x
        BY DEF IndexOK
      <4>2. CASE j < p
        BY <2>1, <2>4, <4>1, <4>2
      <4>3. CASE j > p
        <5>1. j - 1 \in 1..Len(r.order) /\ r.order[j - 1] = x
          BY <2>1, <2>4, <4>1, <4>3
        <5>2. QED
          BY <5>1
      <4>4. QED
        BY <2>1, <2>2, <4>1, <4>2, <4>3
    <3>3. QED
      BY <3>1, <3>2
  <2>7. Resident(r) = Resident(m) \ {k}
        /\ r.entries = [x \in Resident(m) \ {k} |-> m.entries[x]]
    BY <2>3 DEF Restrict, Resident
  <2>8. IndexOK(r)
    <3>1. r = [order |-> r.order, entries |-> r.entries, total |-> r.total,
               evictions |-> r.evictions]
          /\ r.evictions \in Nat
      BY <2>3 DEF IndexOK
    <3>2. \A x \in Resident(r) : /\ x \in Resident(m)
                                 /\ r.entries[x] = m.entries[x]
      BY <2>7
    <3>3. \A x \in Resident(m) : m.entries[x] \in Entries /\ ~Mismatched(x, m.entries[x])
      BY DEF IndexOK
    <3>4. \A x \in Resident(r) : ~Mismatched(x, r.entries[x])
      BY <3>2, <3>3, Zenon
    <3>5. r.entries \in [Resident(r) -> Entries]
      BY <2>7, <3>3
    <3>6. QED
      BY <2>4, <2>5, <2>6, <2>7, <3>1, <3>4, <3>5 DEF IndexOK
  <2>9. ASSUME NEW use, SortedByUse(m, use)
        PROVE  SortedByUse(r, use)
    BY <2>9, <2>10 DEF SortedByUse
  <2>11. QED
    <3>1. r.evictions = m.evictions /\ Len(r.order) <= Len(m.order)
      BY <2>1, <2>3, <2>4
    <3>2. QED
      BY <2>7, <2>8, <2>9, <3>1 DEF r
<1>3. QED
  BY <1>1, <1>2

\* What a key becomes when it is appended as the most recently used one.
UseNow(use, k) == {p \in use : p[1] # k} \cup {<<a, k>> : a \in Keys \ {k}}

\* r is m with e appended under k; how the byte total changes is left open.
Appended(m, k, e, r) ==
    /\ r = [order |-> r.order, entries |-> r.entries, total |-> r.total,
            evictions |-> m.evictions]
    /\ r.order = Append(m.order, k)
    /\ r.entries = [x \in Resident(m) \cup {k} |-> IF x = k THEN e ELSE m.entries[x]]

\* Appending a key that is not in a sound index keeps it sound.
LEMMA AppendSound ==
    ASSUME NEW m, IndexOK(m), NEW k \in Keys \ Resident(m),
           NEW e \in Entries, ~Mismatched(k, e), NEW r, Appended(m, k, e, r)
    PROVE  /\ IndexOK(r)
           /\ Resident(r) = Resident(m) \cup {k}
           /\ Len(r.order) = Len(m.order) + 1
           /\ r.order[Len(r.order)] = k
           /\ \A use : SortedByUse(m, use) => SortedByUse(r, UseNow(use, k))
<1>1. Len(m.order) \in Nat /\ \A i \in 1..Len(m.order) : m.order[i] \in Keys \ {k}
  BY LenProperties, ElementOfSeq DEF IndexOK
<1>2. /\ r.order \in Seq(Keys)
      /\ Len(r.order) = Len(m.order) + 1
      /\ \A i \in 1..Len(m.order) : r.order[i] = m.order[i]
      /\ r.order[Len(m.order) + 1] = k
  BY AppendProperties DEF IndexOK, Appended
<1>3. \A i, j \in 1..Len(r.order) : r.order[i] = r.order[j] => i = j
  <2>1. \A i \in 1..Len(r.order) :
           \/ i \in 1..Len(m.order) /\ r.order[i] = m.order[i] /\ r.order[i] # k
           \/ i = Len(m.order) + 1 /\ r.order[i] = k
    BY <1>1, <1>2
  <2>2. \A i, j \in 1..Len(m.order) : m.order[i] = m.order[j] => i = j
    BY DEF IndexOK
  <2>3. QED
    BY <2>1, <2>2
<1>4. {r.order[i] : i \in 1..Len(r.order)} = Resident(m) \cup {k}
  <2>1. ASSUME NEW i \in 1..Len(r.order)
        PROVE  r.order[i] \in Resident(m) \cup {k}
    BY <1>1, <1>2 DEF IndexOK
  <2>2. ASSUME NEW x \in Resident(m) \cup {k}
        PROVE  \E i \in 1..Len(r.order) : r.order[i] = x
    BY <1>1, <1>2 DEF IndexOK
  <2>3. QED
    BY <2>1, <2>2
<1>5. Resident(r) = Resident(m) \cup {k}
  BY DEF Resident, Appended
<1>6. r.entries \in [Resident(r) -> Entries]
      /\ \A x \in Resident(r) : ~Mismatched(x, r.entries[x])
  BY <1>5 DEF IndexOK, Appended
<1>7. IndexOK(r)
  BY <1>2, <1>3, <1>4, <1>5, <1>6 DEF IndexOK, Appended
<1>8. ASSUME NEW use, SortedByUse(m, use)
      PROVE  SortedByUse(r, UseNow(use, k))
  <2> SUFFICES ASSUME NEW i \in 1..Len(r.order), NEW j \in 1..Len(r.order), i < j
               PROVE  <<r.order[i], r.order[j]>> \in UseNow(use, k)
    BY DEF SortedByUse
  <2>1. i \in 1..Len(m.order) /\ r.order[i] \in Keys \ {k}
    BY <1>1, <1>2
  <2>2. CASE j = Len(m.order) + 1
    BY <2>1, <2>2, <1>2 DEF UseNow
  <2>3. CASE j \in 1..Len(m.order)
    <3>1. <<r.order[i], r.order[j]>> \in use
      BY <1>2, <1>8, <2>1, <2>3 DEF SortedByUse
    <3>2. QED
      BY <2>1, <3>1 DEF UseNow
  <2>4. QED
    <3>1. j = Len(m.order) + 1 \/ j \in 1..Len(m.order)
      BY <1>1, <1>2
    <3>2. QED
      BY <2>2, <2>3, <3>1
<1>9. QED
  BY <1>2, <1>5, <1>7, <1>8

\* Dropping the d oldest keys of a sound index keeps it sound; every key that
\* goes was used before every key that stays.
LEMMA DropSound ==
    ASSUME NEW m, IndexOK(m), NEW d \in 0..(Len(m.order) - 1)
    PROVE  LET r == DropOldest(m, d) IN
           /\ IndexOK(r)
           /\ \A use : SortedByUse(m, use) =>
                 /\ SortedByUse(r, use)
                 /\ \A v \in Resident(m) \ Resident(r), s \in Resident(r) :
                        <<v, s>> \in use
           /\ Resident(r) \subseteq Resident(m)
           /\ Len(r.order) = Len(m.order) - d
           /\ m.order[Len(m.order)] \in Resident(r)
           /\ r.evictions = m.evictions + d
<1> DEFINE r == DropOldest(m, d)
           n == Len(m.order)
<1>1. n \in Nat /\ \A i \in 1..n : m.order[i] \in Keys
  BY LenProperties, ElementOfSeq DEF IndexOK
<1>2. r = [order |-> SubSeq(m.order, d + 1, n),
           entries |-> Restrict(m.entries, ToSet(SubSeq(m.order, d + 1, n))),
           total |-> m.total - Freed(m, d),
           evictions |-> m.evictions + d]
  BY DEF DropOldest
<1> HIDE DEF r
<1>3. /\ r.order \in Seq(Keys)
      /\ Len(r.order) = n - d
      /\ \A i \in 1..(n - d) : r.order[i] = m.order[d + i]
  <2>1. \A i \in (d + 1)..n : m.order[i] \in Keys
    BY <1>1
  <2>2. QED
    BY <1>1, <1>2, <2>1, SubSeqProperties, SMTT(40)
<1>4. /\ Resident(r) = {r.order[i] : i \in 1..Len(r.order)}
      /\ r.entries = [x \in Resident(r) |-> m.entries[x]]
  <2>1. DOMAIN r.order = 1..Len(r.order)
    BY <1>3, LenProperties
  <2>2. QED
    BY <1>2, <2>1 DEF Resident, Restrict, ToSet
<1>5. Resident(r) \subseteq Resident(m)
  <2>1. \A i \in 1..Len(r.order) : d + i \in 1..n /\ r.order[i] = m.order[d + i]
    BY <1>1, <1>3
  <2>2. QED
    BY <1>4, <2>1 DEF IndexOK
<1>6. \A i, j \in 1..Len(r.order) : r.order[i] = r.order[j] => i = j
  <2> SUFFICES ASSUME NEW i \in 1..Len(r.order), NEW j \in 1..Len(r.order),
                      m.order[d + i] = m.order[d + j]
               PROVE  i = j
    BY <1>3
  <2>1. d + i \in 1..n /\ d + j \in 1..n
    BY <1>1, <1>3
  <2>2. d + i = d + j
    BY <2>1 DEF IndexOK
  <2>3. QED
    BY <2>2
<1>7. IndexOK(r)
  <2>1. r = [order |-> r.order, entries |-> r.entries, total |-> r.total,
             evictions |-> r.evictions]
        /\ r.evictions \in Nat
    BY <1>2 DEF IndexOK
  <2>2. \A x \in Resident(r) : x \in Resident(m) /\ r.entries[x] = m.entries[x]
    BY <1>4, <1>5
  <2>3. \A x \in Resident(m) : m.entries[x] \in Entries /\ ~Mismatched(x, m.entries[x])
    BY DEF IndexOK
  <2>4. \A x \in Resident(r) : ~Mismatched(x, r.entries[x])
    BY <2>2, <2>3, Zenon
  <2>5. r.entries \in [Resident(r) -> Entries]
    BY <1>4, <1>5, <2>3
  <2>6. QED
    BY <1>3, <1>4, <1>6, <2>1, <2>4, <2>5 DEF IndexOK
<1>8. m.order[n] \in Resident(r)
  <2>1. n - d \in 1..Len(r.order) /\ r.order[n - d] = m.order[n]
    BY <1>1, <1>3, SMTT(40)
  <2>2. QED
    BY <1>4, <2>1
<1>9. ASSUME NEW use, SortedByUse(m, use)
      PROVE  /\ SortedByUse(r, use)
             /\ \A v \in Resident(m) \ Resident(r), s \in Resident(r) :
                    <<v, s>> \in use
  <2>1. SortedByUse(r, use)
    <3> SUFFICES ASSUME NEW i \in 1..Len(r.order), NEW j \in 1..Len(r.order), i < j
                 PROVE  <<r.order[i], r.order[j]>> \in use
      BY DEF SortedByUse
    <3>1. d + i \in 1..n /\ d + j \in 1..n /\ d + i < d + j
      BY <1>1, <1>3
    <3>2. QED
      BY <1>3, <1>9, <3>1 DEF SortedByUse
  <2>2. ASSUME NEW v \in Resident(m) \ Resident(r), NEW s \in Resident(r)
        PROVE  <<v, s>> \in use
    <3>1. PICK i \in 1..n : m.order[i] = v
      BY DEF IndexOK
    <3>2. PICK j \in 1..Len(r.order) : m.order[d + j] = s
      <4>1. PICK j \in 1..Len(r.order) : r.order[j] = s
        BY <1>4
      <4>2. m.order[d + j] = s
        BY <1>3, <4>1
      <4>3. QED
        BY <4>2
    <3>3. i <= d
      <4> SUFFICES ASSUME i > d PROVE FALSE
        BY <1>1
      <4>1. i - d \in 1..Len(r.order) /\ r.order[i - d] = v
        BY <1>1, <1>3, <3>1
      <4>2. QED
        BY <1>4, <4>1
    <3>4. d + j \in 1..n /\ i < d + j
      BY <1>1, <1>3, <3>3
    <3>5. QED
      BY <1>9, <3>1, <3>2, <3>4 DEF SortedByUse
  <2>3. QED
    BY <2>1, <2>2
<1>10. QED
  <2>1. r.evictions = m.evictions + d
    BY <1>2, Zenon
  <2>2. QED
    BY <1>3, <1>5, <1>7, <1>8, <1>9, <2>1 DEF r

---------------------------------------------------------------------------

SizesOf(m) == [k \in Resident(m) |-> m.entries[k].size]

\* What the byte total should be.
Bytes(m) == Sums(SizesOf(m))[Resident(m)]

\* A sound index is finite and lists as many keys as it holds.
LEMMA IndexFinite ==
    ASSUME NEW m, IndexOK(m)
    PROVE  /\ IsFiniteSet(Resident(m))
           /\ Cardinality(Resident(m)) = Len(m.order)
           /\ Len(m.order) \in Nat
           /\ SizesOf(m) \in [Resident(m) -> Nat]
           /\ \A k \in Resident(m) : m.entries[k].size \in Nat
<1> DEFINE n == Len(m.order)
<1>1. n \in Nat /\ m.order \in [1..n -> Keys]
  BY LenProperties DEF IndexOK
<1>2. m.order \in Bijection(1..n, Resident(m))
  <2>1. m.order \in [1..n -> Resident(m)]
    BY <1>1 DEF IndexOK
  <2>2. \A i, j \in 1..n : m.order[i] = m.order[j] => i = j
    BY DEF IndexOK
  <2>3. \A k \in Resident(m) : \E i \in 1..n : m.order[i] = k
    BY DEF IndexOK
  <2>4. m.order \in Injection(1..n, Resident(m))
    BY <2>1, <2>2 DEF Injection, IsInjective
  <2>5. m.order \in Surjection(1..n, Resident(m))
    BY <2>1, <2>3 DEF Surjection
  <2>6. QED
    BY <2>4, <2>5 DEF Bijection
<1>3. ExistsBijection(1..n, Resident(m))
  BY <1>2 DEF ExistsBijection
<1>4. IsFiniteSet(Resident(m)) /\ Cardinality(Resident(m)) = n
  BY <1>1, <1>3, FS_NatBijection, FS_CountingElements
<1>5. \A k \in Resident(m) : m.entries[k].size \in Nat
  <2>1. \A k \in Resident(m) : m.entries[k] \in Entries
    BY DEF IndexOK
  <2>2. QED
    BY <2>1, DomainAssumption DEF Entries
<1>6. QED
  BY <1>1, <1>4, <1>5 DEF SizesOf

\* remove keeps the byte total right.
LEMMA RemoveTotal ==
    ASSUME NEW m, IndexOK(m), m.total = Bytes(m), NEW k \in Keys
    PROVE  AfterRemove(m, k).total = Bytes(AfterRemove(m, k))
<1> DEFINE r == AfterRemove(m, k)
<1>1. CASE k \notin Resident(m)
  BY <1>1 DEF AfterRemove
<1>2. CASE k \in Resident(m)
  <2>1. IndexOK(r) /\ Resident(r) = Resident(m) \ {k}
    BY RemoveSound, Zenon
  <2>2. r.total = m.total - m.entries[k].size
        /\ \A x \in Resident(r) : r.entries[x] = m.entries[x]
    BY <1>2, <2>1 DEF AfterRemove, IndexOK, Resident, Restrict
  <2> HIDE DEF r
  <2>3. /\ IsFiniteSet(Resident(m)) /\ SizesOf(m) \in [Resident(m) -> Nat]
        /\ IsFiniteSet(Resident(r)) /\ SizesOf(r) \in [Resident(r) -> Nat]
    BY <2>1, IndexFinite
  <2>4. \A x \in Resident(r) : SizesOf(r)[x] = SizesOf(m)[x]
    BY <2>1, <2>2 DEF SizesOf
  <2>5. Bytes(r) = Sums(SizesOf(m))[Resident(m) \ {k}]
    <3>1. Resident(r) \in SUBSET (Resident(r) \cap Resident(m))
      BY <2>1
    <3>2. Sums(SizesOf(r))[Resident(r)] = Sums(SizesOf(m))[Resident(r)]
      BY <2>3, <2>4, <3>1, SumsAgree
    <3>3. QED
      BY <2>1, <3>2 DEF Bytes
  <2>6. Bytes(m) = SizesOf(m)[k] + Sums(SizesOf(m))[Resident(m) \ {k}]
    BY <1>2, <2>3, TakeOut DEF Bytes
  <2>7. SizesOf(m)[k] = m.entries[k].size /\ SizesOf(m)[k] \in Nat
    BY <1>2, <2>3 DEF SizesOf
  <2>8. Sums(SizesOf(m))[Resident(m) \ {k}] \in Nat
    <3>1. Sums(SizesOf(m)) \in [SUBSET Resident(m) -> Nat]
      BY <2>3, SumsDefined
    <3>2. QED
      BY <3>1
  <2>9. QED
    BY <2>2, <2>5, <2>6, <2>7, <2>8 DEF r
<1>3. QED
  BY <1>1, <1>2

\* So does appending an entry, whose size is added.
LEMMA AppendTotal ==
    ASSUME NEW m, IndexOK(m), m.total = Bytes(m), NEW k \in Keys \ Resident(m),
           NEW e \in Entries, NEW r, IndexOK(r), Appended(m, k, e, r),
           r.total = m.total + e.size
    PROVE  r.total = Bytes(r)
<1>1. Resident(r) = Resident(m) \cup {k} /\ r.entries[k] = e
      /\ \A x \in Resident(m) : r.entries[x] = m.entries[x]
  BY DEF Resident, Appended
<1>2. /\ IsFiniteSet(Resident(m)) /\ SizesOf(m) \in [Resident(m) -> Nat]
      /\ IsFiniteSet(Resident(r)) /\ SizesOf(r) \in [Resident(r) -> Nat]
  BY IndexFinite
<1>3. \A x \in Resident(m) : SizesOf(r)[x] = SizesOf(m)[x]
  BY <1>1 DEF SizesOf
<1>4. Sums(SizesOf(r))[Resident(m)] = Bytes(m)
  <2>1. Resident(m) \in SUBSET (Resident(r) \cap Resident(m))
    BY <1>1
  <2>2. QED
    BY <1>2, <1>3, <2>1, SumsAgree DEF Bytes
<1>5. Bytes(r) = SizesOf(r)[k] + Sums(SizesOf(r))[Resident(r) \ {k}]
  BY <1>1, <1>2, TakeOut DEF Bytes
<1>6. Resident(r) \ {k} = Resident(m) /\ SizesOf(r)[k] = e.size /\ SizesOf(r)[k] \in Nat
  BY <1>1, <1>2 DEF SizesOf
<1>7. Bytes(m) \in Nat
  <2>1. Sums(SizesOf(m)) \in [SUBSET Resident(m) -> Nat]
    BY <1>2, SumsDefined
  <2>2. QED
    BY <2>1 DEF Bytes
<1>8. Bytes(r) = e.size + Bytes(m) /\ e.size \in Nat
  BY <1>4, <1>5, <1>6
<1>9. QED
  BY <1>7, <1>8

\* The keys that go when the d oldest are dropped.
Oldest(m, d) == {m.order[i] : i \in 1..d}

\* Dropping takes exactly d keys and leaves the other entries as they were.
LEMMA DropKeeps ==
    ASSUME NEW m, IndexOK(m), NEW d \in 0..(Len(m.order) - 1)
    PROVE  LET r == DropOldest(m, d) IN
           /\ Resident(r) = Resident(m) \ Oldest(m, d)
           /\ Oldest(m, d) \in SUBSET Resident(m)
           /\ Cardinality(Oldest(m, d)) = d
           /\ \A x \in Resident(r) : r.entries[x] = m.entries[x]
<1> DEFINE r == DropOldest(m, d)
           n == Len(m.order)
           gone == Oldest(m, d)
<1>1. n \in Nat /\ \A i \in 1..n : m.order[i] \in Keys
  BY LenProperties, ElementOfSeq DEF IndexOK
<1>2. /\ r.order = SubSeq(m.order, d + 1, n)
      /\ r.entries = Restrict(m.entries, ToSet(SubSeq(m.order, d + 1, n)))
  BY DEF DropOldest
<1> HIDE DEF r
<1>3. /\ r.order \in Seq(Keys)
      /\ Len(r.order) = n - d
      /\ \A i \in 1..(n - d) : r.order[i] = m.order[d + i]
  <2>1. \A i \in (d + 1)..n : m.order[i] \in Keys
    BY <1>1
  <2>2. QED
    BY <1>1, <1>2, <2>1, SubSeqProperties, SMTT(40)
<1>4. /\ Resident(r) = {r.order[i] : i \in 1..Len(r.order)}
      /\ \A x \in Resident(r) : r.entries[x] = m.entries[x]
  <2>1. DOMAIN r.order = 1..Len(r.order)
    BY <1>3, LenProperties
  <2>2. QED
    BY <1>2, <2>1 DEF Resident, Restrict, ToSet
<1>5. gone \in SUBSET Resident(m)
  BY <1>1 DEF IndexOK, Oldest
<1>6. Resident(r) = Resident(m) \ gone
  <2>1. ASSUME NEW x \in Resident(r) PROVE x \in Resident(m) \ gone
    <3>1. PICK j \in 1..(n - d) : x = m.order[d + j]
      BY <1>3, <1>4
    <3>2. d + j \in 1..n /\ \A i \in 1..d : i \in 1..n /\ i # d + j
      BY <1>1
    <3>3. x \in Resident(m)
      BY <3>1, <3>2 DEF IndexOK
    <3>4. ASSUME NEW i \in 1..d PROVE m.order[i] # x
      BY <3>1, <3>2 DEF IndexOK
    <3>5. QED
      BY <3>3, <3>4 DEF Oldest
  <2>2. ASSUME NEW x \in Resident(m) \ gone PROVE x \in Resident(r)
    <3>1. PICK i \in 1..n : x = m.order[i]
      BY DEF IndexOK
    <3>2. i \notin 1..d
      BY <3>1 DEF Oldest
    <3>3. i - d \in 1..(n - d) /\ d + (i - d) = i
      BY <1>1, <3>2
    <3>4. r.order[i - d] = x
      BY <1>3, <3>1, <3>3
    <3>5. QED
      BY <1>3, <1>4, <3>3, <3>4
  <2>3. QED
    BY <2>1, <2>2
<1>7. Cardinality(gone) = d
  <2> DEFINE f == [i \in 1..d |-> m.order[i]]
  <2>1. f \in [1..d -> gone]
    BY DEF Oldest
  <2>2. \A i, j \in 1..d : f[i] = f[j] => i = j
    BY <1>1 DEF IndexOK
  <2>3. f \in Injection(1..d, gone)
    BY <2>1, <2>2 DEF Injection, IsInjective
  <2>4. f \in Surjection(1..d, gone)
    BY <2>1 DEF Surjection, Oldest
  <2>5. ExistsBijection(1..d, gone)
    BY <2>3, <2>4 DEF ExistsBijection, Bijection
  <2>6. QED
    BY <2>5, FS_CountingElements
<1>8. QED
  BY <1>4, <1>5, <1>6, <1>7 DEF r

\* Dropping keeps the byte total right: what it gives back is what goes.
LEMMA DropTotal ==
    ASSUME NEW m, IndexOK(m), m.total = Bytes(m), NEW d \in 0..(Len(m.order) - 1)
    PROVE  DropOldest(m, d).total = Bytes(DropOldest(m, d))
<1> DEFINE r == DropOldest(m, d)
           gone == Oldest(m, d)
           sums == Sums(SizesOf(m))
<1>1. IndexOK(r)
  BY DropSound, Zenon
<1>2. /\ Resident(r) = Resident(m) \ gone
      /\ gone \in SUBSET Resident(m)
      /\ \A x \in Resident(r) : r.entries[x] = m.entries[x]
  BY DropKeeps, Zenon
<1>3. r.total = m.total - MapThenSumSet(LAMBDA k : m.entries[k].size, gone)
  BY DEF DropOldest, Freed, Oldest
<1> HIDE DEF r, gone, sums
<1>4. /\ IsFiniteSet(Resident(m)) /\ SizesOf(m) \in [Resident(m) -> Nat]
      /\ IsFiniteSet(Resident(r)) /\ SizesOf(r) \in [Resident(r) -> Nat]
      /\ \A k \in Resident(m) : m.entries[k].size \in Nat
  BY <1>1, IndexFinite
<1>5. IsFiniteSet(gone)
  BY <1>2, <1>4, FS_Subset
<1>6. MapThenSumSet(LAMBDA k : m.entries[k].size, gone) = sums[gone]
  <2> DEFINE f == [k \in gone |-> m.entries[k].size]
  <2>1. \A k \in gone : m.entries[k].size \in Nat /\ f[k] = SizesOf(m)[k]
    BY <1>2, <1>4 DEF SizesOf
  <2>2. MapThenSumSet(LAMBDA k : m.entries[k].size, gone) = Sums(f)[gone]
    BY <1>5, <2>1, SizesSum
  <2>3. f \in [gone -> Nat] /\ gone \in SUBSET (gone \cap Resident(m))
    BY <1>2, <2>1
  <2>4. \A x \in gone : f[x] = SizesOf(m)[x]
    BY <2>1
  <2> HIDE DEF f
  <2>4a. Sums(f)[gone] = Sums(SizesOf(m))[gone]
    <3> DEFINE h == SizesOf(m)
               T == Resident(m)
    <3>1. IsFiniteSet(T) /\ h \in [T -> Nat] /\ gone \in SUBSET (gone \cap T)
      BY <1>4, <2>3
    <3>2. \A x \in gone : f[x] = h[x]
      BY <2>4
    <3> HIDE DEF h, T
    <3>3. Sums(f)[gone] = Sums(h)[gone]
      BY <1>5, <2>3, <3>1, <3>2, SumsAgree
    <3>4. QED
      BY <3>3 DEF h
  <2>5. QED
    BY <2>2, <2>4a DEF sums
<1>7. Bytes(r) = sums[Resident(r)]
  <2>1. \A x \in Resident(r) : SizesOf(r)[x] = SizesOf(m)[x]
    BY <1>2 DEF SizesOf
  <2>2. Resident(r) \in SUBSET (Resident(r) \cap Resident(m))
    BY <1>2
  <2>3. QED
    BY <1>4, <2>1, <2>2, SumsAgree DEF Bytes, sums
<1>8. Bytes(m) = sums[gone] + sums[Resident(r)]
  <2>1. gone \cup Resident(r) = Resident(m) /\ gone \cap Resident(r) = {}
        /\ Resident(r) \in SUBSET Resident(m)
    BY <1>2
  <2>2. sums[gone \cup Resident(r)] = sums[gone] + sums[Resident(r)]
    <3> DEFINE f == SizesOf(m)
               S == Resident(m)
               rest == Resident(r)
    <3>1. IsFiniteSet(S) /\ f \in [S -> Nat] /\ gone \in SUBSET S
          /\ rest \in SUBSET S /\ gone \cap rest = {}
      BY <1>2, <1>4, <2>1
    <3> HIDE DEF f, S, rest
    <3>2. Sums(f)[gone \cup rest] = Sums(f)[gone] + Sums(f)[rest]
      <4>1. Additive(Sums(f), gone, rest)
        BY <3>1, SumsSplit
      <4>2. QED
        BY <4>1 DEF Additive
    <3>3. QED
      BY <3>2 DEF f, rest, sums
  <2>3. QED
    BY <2>1, <2>2 DEF Bytes, sums
<1>9. sums[gone] \in Nat /\ sums[Resident(r)] \in Nat
  <2>1. sums \in [SUBSET Resident(m) -> Nat]
    BY <1>4, SumsDefined DEF sums
  <2>2. QED
    BY <1>2, <2>1
<1>10. r.total = Bytes(m) - sums[gone]
  BY <1>3, <1>6
<1>11. QED
  BY <1>7, <1>8, <1>9, <1>10 DEF r

\* get and put keep it right, by the three operations they are made of.
LEMMA GetTotal ==
    ASSUME NEW m, IndexOK(m), m.total = Bytes(m), NEW k \in Keys
    PROVE  /\ AfterGet(m, k).total = Bytes(AfterGet(m, k))
           /\ AfterGet(m, k).entries = m.entries
<1>1. AfterGet(m, k).total = m.total /\ AfterGet(m, k).entries = m.entries
  BY DEF AfterGet, IndexOK
<1>2. QED
  BY <1>1 DEF Bytes, SizesOf, Resident

---------------------------------------------------------------------------

\* The number of victims leaves the protected key and meets the entry limit;
\* with one victim less the index is over capacity, and with all of them it is
\* not, unless the protected key alone is.
LEMMA VictimCountFacts ==
    ASSUME NEW m, IndexOK(m), Len(m.order) > 0
    PROVE  LET n == Len(m.order)
               d == VictimCount(m)
           IN  /\ d \in 0..(n - 1)
               /\ MaxEntries # NoLimit => n - d <= MaxEntries
               /\ \A c \in 0..(d - 1) : OverCapacity(n - c, m.total - Freed(m, c))
               /\ d = n - 1 \/ ~OverCapacity(n - d, m.total - Freed(m, d))
<1> DEFINE n == Len(m.order)
           d == VictimCount(m)
           fits(c) == ~OverCapacity(n - c, m.total - Freed(m, c))
           fitting == {c \in 0..(n - 1) : fits(c)}
<1>1. n \in Nat
  BY LenProperties DEF IndexOK
<1>2. d \in fitting \cup {n - 1} /\ \A c \in fitting : d <= c
  <2>1. fitting \cup {n - 1} \in SUBSET Nat /\ fitting \cup {n - 1} # {}
    BY <1>1
  <2>2. d = Min(fitting \cup {n - 1})
    BY DEF VictimCount
  <2> HIDE DEF fitting, d
  <2>3. QED
    BY <2>1, <2>2, MinInSet
<1> HIDE DEF d
<1>3. d \in 0..(n - 1)
  BY <1>1, <1>2
<1>4. ASSUME MaxEntries # NoLimit
      PROVE  n - d <= MaxEntries
  <2>1. MaxEntries \in Nat \ {0}
    BY <1>4, LimitsAssumption
  <2>2. CASE d = n - 1
    BY <1>1, <2>1, <2>2
  <2>3. CASE d \in fitting
    BY <1>1, <1>3, <1>4, <2>1, <2>3 DEF OverCapacity
  <2>4. QED
    BY <1>2, <2>2, <2>3
<1>5. ASSUME NEW c \in 0..(d - 1) PROVE ~fits(c)
  <2>1. c \in 0..(n - 1) /\ ~(d <= c)
    BY <1>1, <1>3
  <2> HIDE DEF fits
  <2>2. QED
    BY <1>2, <2>1
<1>6. d = n - 1 \/ fits(d)
  <2> HIDE DEF fits
  <2>1. QED
    BY <1>2
<1>7. QED
  BY <1>3, <1>4, <1>5, <1>6 DEF d

\* What the entry limit says of the order.
OrderWithinLimit(m) == MaxEntries # NoLimit => Len(m.order) <= MaxEntries

\* get keeps a sound index sound, and sorted by the uses it counts.
LEMMA GetSound ==
    ASSUME NEW m, IndexOK(m), NEW k \in Keys
    PROVE  LET r == AfterGet(m, k) IN
           /\ IndexOK(r)
           /\ OrderWithinLimit(m) => OrderWithinLimit(r)
           /\ r.evictions = m.evictions
           /\ \A use : SortedByUse(m, use) =>
                 SortedByUse(r, IF Policy = "lru" /\ k \in Resident(m)
                                THEN UseNow(use, k) ELSE use)
<1>1. CASE ~(Policy = "lru" /\ k \in Resident(m))
  BY <1>1, Zenon DEF AfterGet
<1>2. CASE Policy = "lru" /\ k \in Resident(m)
  <2> DEFINE b == AfterRemove(m, k)
             r == AfterGet(m, k)
  <2>1. /\ IndexOK(b)
        /\ \A use : SortedByUse(m, use) => SortedByUse(b, use)
        /\ Resident(b) = Resident(m) \ {k}
        /\ b.evictions = m.evictions
    BY RemoveSound, Zenon
  <2>2. b = [order |-> RemoveFirst(m.order, k),
             entries |-> [x \in Resident(m) \ {k} |-> m.entries[x]],
             total |-> m.total - m.entries[k].size,
             evictions |-> m.evictions]
    BY <1>2 DEF AfterRemove, IndexOK, Resident, Restrict
  <2>3. b.order = RemoveFirst(m.order, k)
        /\ \A x \in Resident(b) : b.entries[x] = m.entries[x]
    BY <2>1, <2>2
  <2>4. /\ m.entries[k] \in Entries
        /\ ~Mismatched(k, m.entries[k])
        /\ k \in Keys \ Resident(b)
    BY <1>2, <2>1 DEF IndexOK
  <2>5. m.entries = [x \in Resident(b) \cup {k} |->
                        IF x = k THEN m.entries[k] ELSE b.entries[x]]
    <3>1. Resident(b) \cup {k} = Resident(m)
      BY <1>2, <2>1
    <3>2. m.entries = [x \in Resident(m) |-> m.entries[x]]
      BY DEF IndexOK
    <3>3. QED
      BY <2>1, <2>3, <3>1, <3>2
  <2>6. r = [order |-> Append(b.order, k), entries |-> m.entries, total |-> m.total,
             evictions |-> b.evictions]
    BY <1>2, <2>1, <2>3 DEF AfterGet, IndexOK
  <2> HIDE DEF b, r
  <2>7. /\ IndexOK(r)
        /\ Len(r.order) = Len(b.order) + 1
        /\ \A use : SortedByUse(m, use) => SortedByUse(r, UseNow(use, k))
    <3>1. Appended(b, k, m.entries[k], r)
      BY <2>5, <2>6 DEF Appended
    <3>2. QED
      BY <2>1, <2>4, <3>1, AppendSound, ZenonT(60)
  <2>8. Len(b.order) + 1 = Len(m.order)
    <3>1. PICK p \in 1..Len(m.order) : m.order[p] = k
      BY <1>2 DEF IndexOK
    <3>2. Len(RemoveFirst(m.order, k)) = Len(m.order) - 1 /\ Len(m.order) \in Nat
      BY <3>1, RemoveFirstFacts, LenProperties DEF IndexOK
    <3>3. QED
      BY <2>3, <3>2
  <2>9. OrderWithinLimit(m) => OrderWithinLimit(r)
    BY <2>7, <2>8 DEF OrderWithinLimit
  <2>10. r.evictions = m.evictions
    BY <2>1, <2>6
  <2>11. QED
    BY <1>2, <2>7, <2>9, <2>10 DEF r
<1>3. QED
  BY <1>1, <1>2

\* The index in the middle of a put: the entry is in and nothing has gone yet.
LEMMA InsertedFacts ==
    ASSUME NEW m, IndexOK(m), NEW k \in Keys, NEW e \in Entries, ~Mismatched(k, e)
    PROVE  LET i == Inserted(m, k, e) IN
           /\ IndexOK(i)
           /\ Len(i.order) > 0
           /\ i.order[Len(i.order)] = k
           /\ Resident(i) = Resident(m) \cup {k}
           /\ i.entries = [x \in Resident(m) \cup {k} |-> IF x = k THEN e ELSE m.entries[x]]
           /\ i.evictions = m.evictions
           /\ \A use : SortedByUse(m, use) => SortedByUse(i, UseNow(use, k))
           /\ m.total = Bytes(m) => i.total = Bytes(i)
<1> DEFINE b == AfterRemove(m, k)
           i == Inserted(m, k, e)
<1>1. /\ IndexOK(b)
      /\ \A use : SortedByUse(m, use) => SortedByUse(b, use)
      /\ Resident(b) = Resident(m) \ {k}
      /\ b.evictions = m.evictions
      /\ \A x \in Resident(b) : b.entries[x] = m.entries[x]
  <2>1. \A x \in Resident(b) : b.entries[x] = m.entries[x]
    BY DEF AfterRemove, IndexOK, Resident, Restrict
  <2>2. QED
    BY <2>1, RemoveSound, Zenon
<1>2. m.total = Bytes(m) => b.total = Bytes(b)
  BY RemoveTotal
<1>3. i = [order |-> Append(b.order, k),
           entries |-> [x \in Resident(b) \cup {k} |-> IF x = k THEN e ELSE b.entries[x]],
           total |-> b.total + e.size,
           evictions |-> b.evictions]
  <2>1. b = [order |-> b.order, entries |-> b.entries, total |-> b.total,
             evictions |-> b.evictions]
    BY <1>1, Zenon DEF IndexOK
  <2>2. i = [b EXCEPT !.order = Append(@, k),
                      !.entries = [x \in DOMAIN @ \cup {k} |->
                                      IF x = k THEN e ELSE @[x]],
                      !.total = @ + e.size]
    BY Zenon DEF Inserted
  <2> HIDE DEF b, i
  <2>3. QED
    BY <2>1, <2>2 DEF Resident
<1> HIDE DEF b, i
<1>4. k \in Keys \ Resident(b) /\ Appended(b, k, e, i) /\ i.total = b.total + e.size
  BY <1>1, <1>3 DEF Appended
<1>5. /\ IndexOK(i)
      /\ Resident(i) = Resident(b) \cup {k}
      /\ Len(i.order) = Len(b.order) + 1
      /\ i.order[Len(i.order)] = k
      /\ \A use : SortedByUse(b, use) => SortedByUse(i, UseNow(use, k))
  BY <1>1, <1>4, AppendSound, ZenonT(60)
<1>6. b.total = Bytes(b) => i.total = Bytes(i)
  BY <1>1, <1>4, <1>5, AppendTotal
<1>7. Len(i.order) > 0
  BY <1>1, <1>5, LenProperties DEF IndexOK
<1>8. i.entries = [x \in Resident(m) \cup {k} |-> IF x = k THEN e ELSE m.entries[x]]
  BY <1>1, <1>3
<1>9. Resident(i) = Resident(m) \cup {k} /\ i.evictions = m.evictions
  BY <1>1, <1>3, <1>5
<1>10. QED
  BY <1>1, <1>2, <1>5, <1>6, <1>7, <1>8, <1>9, Zenon DEF i

\* put keeps a sound index sound and within its entry limit, and whatever it
\* evicts was used before whatever it keeps. The new entry is there, the others
\* are as they were, and those that are not there any more were counted.
LEMMA PutSound ==
    ASSUME NEW m, IndexOK(m), NEW k \in Keys, NEW e \in Entries,
           ~Mismatched(k, e), ~Oversize(e)
    PROVE  LET r == AfterPut(m, k, e) IN
           /\ IndexOK(r)
           /\ OrderWithinLimit(r)
           /\ \A use : SortedByUse(m, use) =>
                 /\ SortedByUse(r, UseNow(use, k))
                 /\ \A v \in Resident(m) \ Resident(r), s \in Resident(r) :
                       <<v, s>> \in UseNow(use, k)
           /\ k \in Resident(r) /\ r.entries[k] = e
           /\ \A x \in Resident(r) \ {k} : x \in Resident(m) /\ r.entries[x] = m.entries[x]
           /\ r.evictions = m.evictions + Cardinality(Resident(m) \ Resident(r))
           /\ m.total = Bytes(m) => r.total = Bytes(r)
<1> DEFINE i == Inserted(m, k, e)
           d == VictimCount(i)
           r == AfterPut(m, k, e)
<1>1. /\ IndexOK(i)
      /\ Len(i.order) > 0
      /\ i.order[Len(i.order)] = k
      /\ Resident(i) = Resident(m) \cup {k}
      /\ i.entries = [x \in Resident(m) \cup {k} |-> IF x = k THEN e ELSE m.entries[x]]
      /\ i.evictions = m.evictions
      /\ \A use : SortedByUse(m, use) => SortedByUse(i, UseNow(use, k))
      /\ m.total = Bytes(m) => i.total = Bytes(i)
  BY InsertedFacts
<1>2. r = DropOldest(i, d)
  BY DEF AfterPut, EvictToCapacity
<1> HIDE DEF i, r
<1>3. /\ d \in 0..(Len(i.order) - 1)
      /\ MaxEntries # NoLimit => Len(i.order) - d <= MaxEntries
  BY <1>1, VictimCountFacts
<1> HIDE DEF d
<1>4. /\ IndexOK(r)
      /\ \A use : SortedByUse(i, use) =>
            /\ SortedByUse(r, use)
            /\ \A v \in Resident(i) \ Resident(r), s \in Resident(r) : <<v, s>> \in use
      /\ Len(r.order) = Len(i.order) - d
      /\ k \in Resident(r)
      /\ r.evictions = m.evictions + d
  BY <1>1, <1>2, <1>3, DropSound, Zenon
<1>5. /\ Resident(r) = Resident(i) \ Oldest(i, d)
      /\ Oldest(i, d) \in SUBSET Resident(i)
      /\ Cardinality(Oldest(i, d)) = d
      /\ \A x \in Resident(r) : r.entries[x] = i.entries[x]
  BY <1>1, <1>2, <1>3, DropKeeps
<1>6. OrderWithinLimit(r)
  BY <1>3, <1>4 DEF OrderWithinLimit
<1>7. ASSUME NEW use, SortedByUse(m, use)
      PROVE  /\ SortedByUse(r, UseNow(use, k))
             /\ \A v \in Resident(m) \ Resident(r), s \in Resident(r) :
                   <<v, s>> \in UseNow(use, k)
  <2>1. SortedByUse(i, UseNow(use, k))
    BY <1>1, <1>7
  <2>2. Resident(m) \in SUBSET Resident(i)
    BY <1>1
  <2>3. QED
    BY <1>4, <2>1, <2>2
<1>8. r.evictions = m.evictions + Cardinality(Resident(m) \ Resident(r))
  <2>1. Resident(m) \ Resident(r) = Oldest(i, d)
    BY <1>1, <1>4, <1>5
  <2>2. QED
    BY <1>4, <1>5, <2>1
<1>9. /\ r.entries[k] = e
      /\ \A x \in Resident(r) \ {k} : x \in Resident(m) /\ r.entries[x] = m.entries[x]
  BY <1>1, <1>4, <1>5
<1>10. m.total = Bytes(m) => r.total = Bytes(r)
  BY <1>1, <1>2, <1>3, DropTotal
<1>11. QED
  BY <1>4, <1>6, <1>7, <1>8, <1>9, <1>10, Zenon DEF r

\* Every entry of r is the one just put in m or was there before.
OldOrNew(m, k, e, r) ==
    \A x \in Resident(r) :
       \/ x = k /\ r.entries[x] = e
       \/ x \in Resident(m) /\ r.entries[x] = m.entries[x]

Holds(m, k, e) == k \in Resident(m) /\ m.entries[k] = e

\* What the runners, which put into managers of their own, need of a put.
LEMMA PutKeeps ==
    ASSUME NEW m, IndexOK(m), NEW k \in Keys, NEW e \in Entries, ~Mismatched(k, e)
    PROVE  /\ IndexOK(AfterPut(m, k, e))
           /\ OldOrNew(m, k, e, AfterPut(m, k, e))
           /\ ~Oversize(e) =>
                 /\ Holds(AfterPut(m, k, e), k, e)
                 /\ AfterPut(m, k, e).evictions =
                        m.evictions + Cardinality(Resident(m) \ Resident(AfterPut(m, k, e)))
<1>1. CASE Oversize(e)
  <2>1. AfterPut(m, k, e) = AfterRemove(m, k)
    BY <1>1 DEF AfterPut
  <2>2. IndexOK(AfterRemove(m, k))
    BY RemoveSound, Zenon
  <2>3. OldOrNew(m, k, e, AfterRemove(m, k))
    BY DEF AfterRemove, Resident, Restrict, IndexOK, OldOrNew
  <2>4. QED
    BY <1>1, <2>1, <2>2, <2>3
<1>2. CASE ~Oversize(e)
  <2> DEFINE r == AfterPut(m, k, e)
  <2>1. /\ IndexOK(r)
        /\ k \in Resident(r) /\ r.entries[k] = e
        /\ \A x \in Resident(r) \ {k} : x \in Resident(m) /\ r.entries[x] = m.entries[x]
        /\ r.evictions = m.evictions + Cardinality(Resident(m) \ Resident(r))
    BY <1>2, PutSound
  <2>2. QED
    BY <2>1 DEF OldOrNew, Holds
<1>3. QED
  BY <1>1, <1>2

---------------------------------------------------------------------------

\* What a sound index holds is under keys.
LEMMA ResidentKeys ==
    ASSUME NEW m, IndexOK(m)
    PROVE  Resident(m) \subseteq Keys
<1>1. \A i \in 1..Len(m.order) : m.order[i] \in Keys
  BY ElementOfSeq DEF IndexOK
<1>2. QED
  BY <1>1 DEF IndexOK

\* The inductive invariant: the manager is sound, within its entry limit,
\* sorted by last use, and its byte total is right.
Sound ==
    /\ IndexOK(mgr)
    /\ OrderWithinLimit(mgr)
    /\ SortedByUse(mgr, older)
    /\ mgr.total = Bytes(mgr)
    /\ reply \in [key : Keys \cup {Missing},
                  kind : {"none", "hit", "miss", "stored", "not stored", "ValueError",
                          "removed", "absent"},
                  entry : Entries \cup {Missing}]
    /\ older \in SUBSET (Keys \X Keys)

\* An index no longer than one within the limit is within the limit.
LEMMA ShorterWithinLimit ==
    ASSUME NEW m, NEW r, IndexOK(m), IndexOK(r), OrderWithinLimit(m),
           Len(r.order) <= Len(m.order)
    PROVE  OrderWithinLimit(r)
<1>1. Len(m.order) \in Nat /\ Len(r.order) \in Nat
  BY LenProperties DEF IndexOK
<1>2. CASE MaxEntries = NoLimit
  BY <1>2 DEF OrderWithinLimit
<1>3. CASE MaxEntries # NoLimit
  <2>1. MaxEntries \in Nat /\ Len(m.order) <= MaxEntries
    BY <1>3, LimitsAssumption DEF OrderWithinLimit
  <2>2. Len(r.order) <= MaxEntries
    BY <1>1, <2>1
  <2>3. QED
    BY <2>2 DEF OrderWithinLimit
<1>4. QED
  BY <1>2, <1>3

\* An empty manager, by which nothing was used, is sound.
LEMMA InitSound == Init => Sound
<1> SUFFICES ASSUME Init PROVE Sound
  OBVIOUS
<1>1. mgr = [order |-> <<>>, entries |-> [k \in {} |-> Missing], total |-> 0,
             evictions |-> 0]
  BY DEF Init, EmptyIndex
<1>2. mgr.order \in Seq(Keys) /\ Len(mgr.order) = 0 /\ Resident(mgr) = {}
  BY <1>1, EmptySeq DEF Resident
<1>3. IndexOK(mgr)
  BY <1>1, <1>2 DEF IndexOK
<1>4. OrderWithinLimit(mgr)
  BY <1>2, LimitsAssumption DEF OrderWithinLimit
<1>5. SortedByUse(mgr, older)
  BY <1>2 DEF SortedByUse
<1>6. mgr.total = Bytes(mgr)
  <2>1. IsFiniteSet(Resident(mgr)) /\ SizesOf(mgr) \in [Resident(mgr) -> Nat]
    BY <1>3, IndexFinite
  <2>2. Bytes(mgr) = SumBy(SizesOf(mgr), Sums(SizesOf(mgr)), Resident(mgr))
    BY <2>1, SumsDefined DEF Bytes
  <2>3. QED
    BY <1>1, <1>2, <2>2 DEF SumBy
<1>7. QED
  BY <1>3, <1>4, <1>5, <1>6 DEF Sound, Init, Plain

\* The history of use stays a relation on keys.
LEMMA UsedType ==
    ASSUME NEW k \in Keys, older \in SUBSET (Keys \X Keys)
    PROVE  Used(k) \in SUBSET (Keys \X Keys) /\ Used(k) = UseNow(older, k)
BY DEF Used, UseNow

\* One step of any method keeps Sound.
LEMMA NextSound == Sound /\ [Next]_vars => Sound'
<1> SUFFICES ASSUME Sound, [Next]_vars PROVE Sound'
  OBVIOUS
<1> USE DEF Sound
<1>1. ASSUME NEW k \in Keys, Get(k)
      PROVE  Sound'
  <2>1. IndexOK(mgr') /\ OrderWithinLimit(mgr')
        /\ SortedByUse(mgr', IF Policy = "lru" /\ k \in Resident(mgr)
                              THEN UseNow(older, k) ELSE older)
    BY <1>1, GetSound, Zenon DEF Get
  <2>2. SortedByUse(mgr', older') /\ older' \in SUBSET (Keys \X Keys)
        /\ mgr'.total = Bytes(mgr')
    BY <1>1, <2>1, UsedType, GetTotal DEF Get
  <2>3. reply' \in [key : Keys \cup {Missing}, kind : {"hit", "miss"}, entry : Entries \cup {Missing}]
    BY <1>1 DEF Get, Hit, Plain, Lookup, IndexOK
  <2>4. QED
    BY <2>1, <2>2, <2>3 DEF IndexOK, OrderWithinLimit, SortedByUse, Resident, Mismatched
<1>2. ASSUME NEW k \in Keys, NEW e \in Entries, Put(k, e)
      PROVE  Sound'
  <2>1. IndexOK(mgr') /\ OrderWithinLimit(mgr') /\ SortedByUse(mgr', older')
        /\ older' \in SUBSET (Keys \X Keys) /\ mgr'.total = Bytes(mgr')
    <3>1. CASE Oversize(e)
      <4>1. mgr' = AfterRemove(mgr, k) /\ older' = older
        BY <1>2, <3>1 DEF Put, AfterPut
      <4>2. IndexOK(mgr') /\ SortedByUse(mgr', older) /\ Len(mgr'.order) <= Len(mgr.order)
        BY <4>1, RemoveSound, Zenon
      <4>3. OrderWithinLimit(mgr') /\ mgr'.total = Bytes(mgr')
        BY <4>1, <4>2, ShorterWithinLimit, RemoveTotal, Zenon
      <4>4. QED
        BY <4>1, <4>2, <4>3
    <3>2. CASE ~Oversize(e)
      <4>1. mgr' = AfterPut(mgr, k, e) /\ older' = Used(k) /\ ~Mismatched(k, e)
        BY <1>2, <3>2 DEF Put
      <4>2. IndexOK(mgr') /\ OrderWithinLimit(mgr') /\ SortedByUse(mgr', UseNow(older, k))
            /\ mgr'.total = Bytes(mgr')
        <5>1. IndexOK(mgr) /\ SortedByUse(mgr, older) /\ mgr.total = Bytes(mgr)
          OBVIOUS
        <5> HIDE DEF Sound
        <5>2. QED
          <6> DEFINE r == AfterPut(mgr, k, e)
          <6>1. IndexOK(r) /\ OrderWithinLimit(r) /\ r.total = Bytes(r)
            BY <3>2, <4>1, <5>1, PutSound, ZenonT(60)
          <6>2. SortedByUse(r, UseNow(older, k))
            BY <3>2, <4>1, <5>1, PutSound
          <6> HIDE DEF r
          <6>3. mgr' = r
            BY <4>1 DEF r
          <6>4. QED
            BY <6>1, <6>2, <6>3
      <4>3. QED
        BY <4>1, <4>2, UsedType
    <3>3. QED
      BY <3>1, <3>2
  <2>2. reply' \in [key : Keys \cup {Missing}, kind : {"stored", "not stored"}, entry : Entries \cup {Missing}]
    BY <1>2 DEF Put, Plain
  <2>3. QED
    BY <2>1, <2>2 DEF IndexOK, OrderWithinLimit, SortedByUse, Resident, Mismatched
<1>3. ASSUME NEW k \in Keys, NEW e \in Entries, PutMismatched(k, e)
      PROVE  Sound'
  <2>1. mgr' = mgr /\ older' = older /\ reply' = Plain(k, "ValueError")
    BY <1>3 DEF PutMismatched
  <2>2. IndexOK(mgr') /\ OrderWithinLimit(mgr') /\ SortedByUse(mgr', older')
        /\ mgr'.total = Bytes(mgr')
    BY <2>1, Zenon
  <2>3. reply' \in [key : Keys \cup {Missing}, kind : {"ValueError"}, entry : Entries \cup {Missing}]
    BY <2>1 DEF Plain
  <2>4. QED
    BY <2>1, <2>2, <2>3
       DEF IndexOK, OrderWithinLimit, SortedByUse, Resident, Mismatched
<1>4. ASSUME NEW k \in Keys, RemoveKey(k)
      PROVE  Sound'
  <2>1. IndexOK(mgr') /\ SortedByUse(mgr', older) /\ Len(mgr'.order) <= Len(mgr.order)
    BY <1>4, RemoveSound, Zenon DEF RemoveKey
  <2>3. OrderWithinLimit(mgr') /\ mgr'.total = Bytes(mgr')
    BY <1>4, <2>1, ShorterWithinLimit, RemoveTotal, Zenon DEF RemoveKey
  <2>4. reply' \in [key : Keys \cup {Missing}, kind : {"removed", "absent"}, entry : Entries \cup {Missing}]
        /\ older' = older
    BY <1>4 DEF RemoveKey, Plain
  <2>5. QED
    BY <2>1, <2>3, <2>4 DEF IndexOK, OrderWithinLimit, SortedByUse, Resident, Mismatched
<1>5. CASE UNCHANGED vars
  <2>1. mgr' = mgr /\ older' = older /\ reply' = reply
    BY <1>5 DEF vars
  <2>2. IndexOK(mgr') /\ OrderWithinLimit(mgr') /\ SortedByUse(mgr', older')
        /\ mgr'.total = Bytes(mgr')
    BY <2>1, Zenon
  <2>3. QED
    BY <2>1, <2>2 DEF IndexOK, OrderWithinLimit, SortedByUse, Resident, Mismatched
<1>6. QED
  BY <1>1, <1>2, <1>3, <1>4, <1>5 DEF Next

\* The manager is sound in every state of every run.
THEOREM SoundInvariant == Spec => []Sound
BY InitSound, NextSound, PTL DEF Spec

\* The manager's fields, the answers and the history keep their types.
THEOREM TypeCorrect == Spec => []TypeOK
<1>1. Sound => TypeOK
  <2> SUFFICES ASSUME Sound PROVE TypeOK
    OBVIOUS
  <2>1. Resident(mgr) \subseteq Keys
    BY ResidentKeys DEF Sound
  <2>2. QED
    BY <2>1 DEF Sound, IndexOK, TypeOK
<1>2. QED
  BY <1>1, SoundInvariant, PTL

\* The order and the entries never disagree about which keys are held.
THEOREM OrderMatches == Spec => []OrderMatchesEntries
<1>1. Sound => OrderMatchesEntries
  <2> SUFFICES ASSUME Sound PROVE OrderMatchesEntries
    OBVIOUS
  <2>1. DOMAIN mgr.order = 1..Len(mgr.order)
    BY LenProperties DEF Sound, IndexOK
  <2>2. QED
    BY <2>1 DEF Sound, IndexOK, OrderMatchesEntries, ToSet
<1>2. QED
  BY <1>1, SoundInvariant, PTL

\* The entry limit holds after every call, for every limit.
THEOREM EntryLimit == Spec => []EntriesWithinLimit
<1>1. Sound => EntriesWithinLimit
  <2> SUFFICES ASSUME Sound, MaxEntries # NoLimit
               PROVE  Cardinality(Resident(mgr)) <= MaxEntries
    BY DEF EntriesWithinLimit
  <2> DEFINE n == Len(mgr.order)
  <2>1. n \in Nat /\ mgr.order \in [1..n -> Keys] /\ n <= MaxEntries
    BY LenProperties DEF Sound, IndexOK, OrderWithinLimit
  <2>2. Resident(mgr) = {mgr.order[i] : i \in 1..n}
    BY DEF Sound, IndexOK
  <2>3. mgr.order \in Surjection(1..n, Resident(mgr))
    <3>1. mgr.order \in [1..n -> Resident(mgr)]
      BY <2>1, <2>2
    <3>2. QED
      BY <2>2, <3>1 DEF Surjection
  <2>4. ExistsSurjection(1..n, Resident(mgr))
    BY <2>3 DEF ExistsSurjection
  <2> HIDE DEF n
  <2>5. Cardinality(Resident(mgr)) <= n
    BY <2>1, <2>4, FS_SurjCardinalityBound
  <2>6. Cardinality(Resident(mgr)) \in Nat
    BY <2>1, <2>4, FS_NatSurjection, FS_CardinalityType
  <2>7. MaxEntries \in Nat
    BY LimitsAssumption
  <2>8. QED
    BY <2>1, <2>5, <2>6, <2>7
<1>2. QED
  BY <1>1, SoundInvariant, PTL

\* The incrementally kept byte total is the sum of what is held, for every
\* sequence of puts, overwrites, evictions and removals.
THEOREM TotalIsSum == Spec => []TotalIsSumOfSizes
<1>1. Sound => TotalIsSumOfSizes
  <2> SUFFICES ASSUME Sound PROVE TotalIsSumOfSizes
    OBVIOUS
  <2>1. IsFiniteSet(Resident(mgr)) /\ \A k \in Resident(mgr) : mgr.entries[k].size \in Nat
    BY IndexFinite DEF Sound
  <2>2. MapThenSumSet(LAMBDA k : mgr.entries[k].size, Resident(mgr)) = Bytes(mgr)
    BY <2>1, SizesSum DEF Bytes, SizesOf
  <2>3. QED
    BY <2>2 DEF Sound, TotalIsSumOfSizes
<1>2. QED
  BY <1>1, SoundInvariant, PTL

\* A reader of an adapter's version never meets blocks of another adapter or
\* of a newer version.
THEOREM BlocksBelong == Spec => []BlocksBelongToTheirKey
<1>1. Sound => BlocksBelongToTheirKey
  <2> SUFFICES ASSUME Sound, NEW k \in Resident(mgr), NEW b \in mgr.entries[k].blocks
               PROVE  b.adapter = k.adapter /\ b.version <= k.version
    BY DEF BlocksBelongToTheirKey
  <2>1. k \in Keys
    BY ResidentKeys DEF Sound
  <2>2. mgr.entries[k] \in Entries /\ ~Mismatched(k, mgr.entries[k])
    BY DEF Sound, IndexOK
  <2>3. b.version \in Nat /\ k.version \in Nat
    BY <2>1, <2>2, DomainAssumption DEF Entries
  <2>4. ~(b.version > k.version) /\ b.adapter = k.adapter
    BY <2>2 DEF Mismatched
  <2>5. QED
    BY <2>3, <2>4
<1>2. QED
  BY <1>1, SoundInvariant, PTL

\* A call that evicts gives up keys that were used before those it keeps.
THEOREM OldestGo == Spec => OldestGoFirst
<1> DEFINE Kept == mgr'.evictions > mgr.evictions =>
                      \A v \in Resident(mgr) \ Resident(mgr'), s \in Resident(mgr') :
                         <<v, s>> \in older'
<1>1. Sound /\ [Next]_vars => [Kept]_vars
  <2> SUFFICES ASSUME Sound, Next, mgr'.evictions > mgr.evictions
               PROVE  \A v \in Resident(mgr) \ Resident(mgr'), s \in Resident(mgr') :
                         <<v, s>> \in older'
    OBVIOUS
  <2>1. mgr.evictions \in Nat
    BY DEF Sound, IndexOK
  <2>2. ASSUME NEW k \in Keys, Get(k)
        PROVE  FALSE
    <3>1. mgr'.evictions = mgr.evictions
      BY <2>2, GetSound, Zenon DEF Get, Sound
    <3>2. QED
      BY <2>1, <3>1
  <2>3. ASSUME NEW k \in Keys, RemoveKey(k)
        PROVE  FALSE
    <3>1. mgr'.evictions = mgr.evictions
      BY <2>3, RemoveSound, Zenon DEF RemoveKey, Sound
    <3>2. QED
      BY <2>1, <3>1
  <2>4. ASSUME NEW k \in Keys, NEW e \in Entries, PutMismatched(k, e)
        PROVE  FALSE
    BY <2>1, <2>4 DEF PutMismatched
  <2>5. ASSUME NEW k \in Keys, NEW e \in Entries, Put(k, e)
        PROVE  \A v \in Resident(mgr) \ Resident(mgr'), s \in Resident(mgr') :
                  <<v, s>> \in older'
    <3>1. CASE Oversize(e)
      <4>1. mgr' = AfterRemove(mgr, k)
        BY <2>5, <3>1 DEF Put, AfterPut
      <4>2. mgr'.evictions = mgr.evictions
        BY <4>1, RemoveSound, Zenon DEF Sound
      <4>3. QED
        BY <2>1, <4>2
    <3>2. CASE ~Oversize(e)
      <4>1. mgr' = AfterPut(mgr, k, e) /\ ~Mismatched(k, e) /\ older' = UseNow(older, k)
        BY <2>5, <3>2, UsedType DEF Put, Sound
      <4>2. QED
        BY <3>2, <4>1, PutSound, Zenon DEF Sound
    <3>3. QED
      BY <3>1, <3>2
  <2>6. QED
    BY <2>2, <2>3, <2>4, <2>5 DEF Next
<1>2. QED
  BY <1>1, SoundInvariant, PTL DEF Spec, OldestGoFirst

---------------------------------------------------------------------------
(* The manager implements the bounded store.                               *)

\* Both modules count with the same operator.
LEMMA SameCardinality == \A S : Store!Cardinality(S) = Cardinality(S)
BY DEF Store!Cardinality, Cardinality

\* What the store calls its bytes are the index's.
LEMMA StoreBytes ==
    ASSUME NEW m, IndexOK(m)
    PROVE  Store!Bytes(m.entries) = Bytes(m)
<1>1. IsFiniteSet(Resident(m)) /\ \A k \in Resident(m) : m.entries[k].size \in Nat
  BY IndexFinite
<1>2. MapThenSumSet(LAMBDA k : m.entries[k].size, Resident(m)) = Bytes(m)
  BY <1>1, SizesSum DEF Bytes, SizesOf
<1>3. Store!Bytes(m.entries) = MapThenSumSet(LAMBDA k : m.entries[k].size, Resident(m))
  BY DEF Store!Bytes, Store!MapThenSumSet, Store!MapThenFoldSet, MapThenSumSet, MapThenFoldSet,
         Resident
<1>4. QED
  BY <1>2, <1>3

\* An index fits into the store when it is not over capacity.
LEMMA FitsOrOver ==
    ASSUME NEW m, IndexOK(m), m.total = Bytes(m)
    PROVE  Store!Fits(m.entries) <=> ~OverCapacity(Len(m.order), m.total)
<1>1. Cardinality(DOMAIN m.entries) = Len(m.order) /\ Len(m.order) \in Nat
  BY IndexFinite DEF Resident
<1>2. Store!Bytes(m.entries) = m.total /\ m.total \in Nat
  <2>1. IsFiniteSet(Resident(m)) /\ SizesOf(m) \in [Resident(m) -> Nat]
    BY IndexFinite
  <2>2. Sums(SizesOf(m)) \in [SUBSET Resident(m) -> Nat]
    BY <2>1, SumsDefined
  <2>3. Bytes(m) \in Nat
    BY <2>2 DEF Bytes
  <2>4. QED
    BY <2>3, StoreBytes
<1>3. (MaxEntries = NoLimit \/ Len(m.order) <= MaxEntries)
        <=> ~(MaxEntries # NoLimit /\ Len(m.order) > MaxEntries)
  BY <1>1, LimitsAssumption
<1>4. (MaxBytes = NoLimit \/ m.total <= MaxBytes) <=> ~(MaxBytes # NoLimit /\ m.total > MaxBytes)
  BY <1>2, LimitsAssumption
<1>5. QED
  BY <1>1, <1>2, <1>3, <1>4, SameCardinality, Zenon DEF Store!Fits, OverCapacity

\* Giving the d oldest up leaves the entries the store would keep.
LEMMA DropRestricts ==
    ASSUME NEW m, IndexOK(m), NEW d \in 0..(Len(m.order) - 1)
    PROVE  DropOldest(m, d).entries = Store!Restrict(m.entries, Resident(m) \ Oldest(m, d))
<1> DEFINE r == DropOldest(m, d)
<1>1. /\ Resident(r) = Resident(m) \ Oldest(m, d)
      /\ \A x \in Resident(r) : r.entries[x] = m.entries[x]
  BY DropKeeps, Zenon
<1>2. r.entries \in [Resident(r) -> Entries]
  BY DropSound, Zenon DEF IndexOK
<1> HIDE DEF r
<1>3. r.entries = [x \in Resident(r) |-> m.entries[x]]
  BY <1>1, <1>2
<1>4. QED
  BY <1>1, <1>3 DEF Store!Restrict, r

\* Room was made in full, which holds the new entry under k, as the store
\* allows: now is what is left, was the evictions before.
RoomMade(full, k, was, now) ==
    \E given \in SUBSET (DOMAIN full \ {k}) :
       LET kept == Store!Restrict(full, DOMAIN full \ given) IN
       /\ Store!Fits(kept)
       /\ given # {} =>
             \E last \in given : ~Store!Fits(Store!Restrict(full, DOMAIN kept \cup {last}))
       /\ now.entries = kept
       /\ now.evictions = was + Store!Cardinality(given)

\* Evicting to capacity is one of the ways in which the store may make room.
LEMMA EvictRefines ==
    ASSUME NEW m, IndexOK(m), m.total = Bytes(m), NEW k, Len(m.order) > 0,
           m.order[Len(m.order)] = k, ~Oversize(m.entries[k])
    PROVE  RoomMade(m.entries, k, m.evictions, EvictToCapacity(m))
<1> DEFINE n == Len(m.order)
           d == VictimCount(m)
           r == DropOldest(m, d)
           given == Oldest(m, d)
<1>1. n \in Nat /\ \A i, j \in 1..n : m.order[i] = m.order[j] => i = j
  BY LenProperties DEF IndexOK
<1>2. /\ d \in 0..(n - 1)
      /\ \A c \in 0..(d - 1) : OverCapacity(n - c, m.total - Freed(m, c))
      /\ d = n - 1 \/ ~OverCapacity(n - d, m.total - Freed(m, d))
      /\ MaxEntries # NoLimit => n - d <= MaxEntries
  BY VictimCountFacts
<1>3. EvictToCapacity(m) = r
  BY DEF EvictToCapacity
<1> HIDE DEF d
<1>4. ASSUME NEW c \in 0..(n - 1)
      PROVE  /\ IndexOK(DropOldest(m, c))
             /\ DropOldest(m, c).total = Bytes(DropOldest(m, c))
             /\ Len(DropOldest(m, c).order) = n - c
             /\ DropOldest(m, c).total = m.total - Freed(m, c)
             /\ Resident(DropOldest(m, c)) = Resident(m) \ Oldest(m, c)
             /\ Oldest(m, c) \in SUBSET Resident(m)
             /\ Cardinality(Oldest(m, c)) = c
             /\ k \in Resident(DropOldest(m, c))
             /\ DropOldest(m, c).evictions = m.evictions + c
  <2>1. DropOldest(m, c).total = m.total - Freed(m, c)
    BY DEF DropOldest
  <2>2. DropOldest(m, c).total = Bytes(DropOldest(m, c))
    BY DropTotal
  <2>3. QED
    BY <2>1, <2>2, DropSound, DropKeeps, ZenonT(60)
<1>5. given \in SUBSET (DOMAIN m.entries \ {k})
  BY <1>2, <1>4 DEF Resident
<1>6. r.entries = Store!Restrict(m.entries, DOMAIN m.entries \ given)
  BY <1>2, DropRestricts DEF Resident
<1>7. Store!Fits(r.entries)
  <2>1. ~OverCapacity(n - d, m.total - Freed(m, d))
    <3>1. CASE d # n - 1
      BY <1>2, <3>1
    <3>2. CASE d = n - 1
      <4>1. IndexOK(r) /\ Len(r.order) = 1 /\ k \in Resident(r) /\ r.total = Bytes(r)
        <5>1. IndexOK(r) /\ Len(r.order) = n - d /\ k \in Resident(r) /\ r.total = Bytes(r)
          BY <1>2, <1>4, Zenon
        <5>2. n - d = 1
          BY <1>1, <3>2
        <5>3. QED
          BY <5>1, <5>2
      <4>2. Resident(r) = {k} /\ IsFiniteSet(Resident(r)) /\ SizesOf(r) \in [Resident(r) -> Nat]
        <5> HIDE DEF r
        <5>1. Resident(r) = {r.order[i] : i \in 1..1}
          BY <4>1 DEF IndexOK
        <5>2. Resident(r) = {k}
          BY <4>1, <5>1
        <5>3. QED
          BY <4>1, <5>2, IndexFinite
      <4>3. r.entries[k] = m.entries[k]
        BY <1>2, <4>2, DropKeeps, Zenon
      <4>4. Bytes(r) = SizesOf(r)[k] + Sums(SizesOf(r))[{}]
        <5>1. Bytes(r) = SizesOf(r)[k] + Sums(SizesOf(r))[Resident(r) \ {k}]
          <6> HIDE DEF r
          <6>1. /\ k \in Resident(r) /\ IsFiniteSet(Resident(r))
                /\ SizesOf(r) \in [Resident(r) -> Nat]
            BY <4>2
          <6>2. QED
            BY <6>1, TakeOut DEF Bytes
        <5>2. QED
          BY <4>2, <5>1
      <4>5. Sums(SizesOf(r))[{}] = 0
        <5>1. Sums(SizesOf(r))[{}] = SumBy(SizesOf(r), Sums(SizesOf(r)), {})
          <6> HIDE DEF r
          <6>1. QED
            BY <4>2, SumsDefined
        <5>2. QED
          BY <5>1 DEF SumBy
      <4>6. m.total - Freed(m, d) = m.entries[k].size
        <5>1. SizesOf(r)[k] \in Nat /\ SizesOf(r)[k] = m.entries[k].size
          BY <4>2, <4>3 DEF SizesOf
        <5>2. r.total = m.total - Freed(m, d)
          BY <1>2, <1>4
        <5>3. QED
          BY <4>1, <4>4, <4>5, <5>1, <5>2
      <4>7. QED
        <5>1. MaxBytes # NoLimit => ~(m.entries[k].size > MaxBytes)
          BY DEF Oversize
        <5>2. MaxEntries # NoLimit => ~(n - d > MaxEntries)
          BY <1>1, <1>2, LimitsAssumption
        <5>3. QED
          BY <4>6, <5>1, <5>2 DEF OverCapacity
    <3>3. QED
      BY <3>1, <3>2
  <2>2. IndexOK(r) /\ r.total = Bytes(r) /\ Len(r.order) = n - d
        /\ r.total = m.total - Freed(m, d)
    BY <1>2, <1>4
  <2> HIDE DEF r
  <2>3. QED
    BY <2>1, <2>2, FitsOrOver
<1>8. ASSUME given # {}
      PROVE  \E last \in given :
                ~Store!Fits(Store!Restrict(m.entries, DOMAIN r.entries \cup {last}))
  <2> DEFINE c == d - 1
             q == DropOldest(m, c)
             last == m.order[d]
  <2>1. d \in 1..n /\ c \in 0..(n - 1) /\ c \in 0..(d - 1)
    BY <1>1, <1>2, <1>8 DEF Oldest
  <2>2. OverCapacity(n - c, m.total - Freed(m, c))
    BY <1>2, <2>1
  <2>3. ~Store!Fits(q.entries)
    <3>1. IndexOK(q) /\ q.total = Bytes(q) /\ Len(q.order) = n - c
          /\ q.total = m.total - Freed(m, c)
      BY <1>4, <2>1
    <3> HIDE DEF q
    <3>2. QED
      BY <2>2, <3>1, FitsOrOver
  <2>4. last \in given
    BY <2>1 DEF Oldest
  <2>5. Resident(m) \ Oldest(m, c) = DOMAIN r.entries \cup {last}
    <3>1. DOMAIN r.entries = Resident(m) \ given
      BY <1>2, <1>4 DEF Resident
    <3>2. given = Oldest(m, c) \cup {last}
      BY <2>1 DEF Oldest
    <3>3. last \in Resident(m) /\ last \notin Oldest(m, c)
      <4>1. \A i \in 1..c : i \in 1..n /\ i # d
        BY <2>1
      <4>2. QED
        BY <1>1, <2>1, <4>1 DEF Oldest, IndexOK
    <3>4. QED
      BY <3>1, <3>2, <3>3
  <2>6. q.entries = Store!Restrict(m.entries, DOMAIN r.entries \cup {last})
    BY <2>1, <2>5, DropRestricts
  <2>7. QED
    BY <2>3, <2>4, <2>6
<1>9. r.evictions = m.evictions + Store!Cardinality(given)
  BY <1>2, <1>4, SameCardinality
<1> HIDE DEF r, given
<1>10. QED
  BY <1>3, <1>5, <1>6, <1>7, <1>8, <1>9 DEF RoomMade

\* Every call of the manager is a call of the store.
LEMMA PutRefines ==
    ASSUME Sound, NEW k \in Keys, NEW e \in Entries, Put(k, e), ~Oversize(e)
    PROVE  Store!Put(k, e)
<1> DEFINE i == Inserted(mgr, k, e)
<1>1. /\ IndexOK(i)
      /\ Len(i.order) > 0
      /\ i.order[Len(i.order)] = k
      /\ i.entries = [x \in Resident(mgr) \cup {k} |-> IF x = k THEN e ELSE mgr.entries[x]]
      /\ i.evictions = mgr.evictions
      /\ i.total = Bytes(i)
  <2>1. IndexOK(mgr) /\ mgr.total = Bytes(mgr) /\ ~Mismatched(k, e)
    BY DEF Sound, Put
  <2>2. QED
    BY <2>1, InsertedFacts
<1>2. mgr' = EvictToCapacity(i)
  BY DEF Put, AfterPut
<1> HIDE DEF i
<1>3. i.entries = Store!With(mgr.entries, k, e) /\ i.entries[k] = e
  BY <1>1 DEF Store!With, Resident
<1>4. RoomMade(Store!With(mgr.entries, k, e), k, mgr.evictions, mgr')
  <2>1. ~Oversize(i.entries[k])
    BY <1>3
  <2>2. RoomMade(i.entries, k, i.evictions, EvictToCapacity(i))
    BY <1>1, <2>1, EvictRefines
  <2>3. QED
    BY <1>1, <1>2, <1>3, <2>2
<1>5. ~Store!Refused(k, e) /\ (MaxBytes = NoLimit \/ e.size <= MaxBytes)
  <2>1. e.size \in Nat
    BY DomainAssumption DEF Entries
  <2>2. MaxBytes = NoLimit \/ e.size <= MaxBytes
    BY <2>1, LimitsAssumption DEF Oversize
  <2>3. ~Store!Refused(k, e)
    BY Zenon DEF Put, Mismatched, Store!Refused
  <2>4. QED
    BY <2>2, <2>3
<1>6. mgr'.evictions <= MaxEvictions
  BY DEF Put
<1>7. reply' = Store!Plain(k, "stored")
  <2>1. k \in Resident(AfterPut(mgr, k, e))
    BY PutSound DEF Sound, Put
  <2>2. QED
    BY <2>1 DEF Put, Plain, Store!Plain, PutStored
<1>8. QED
  BY <1>4, <1>5, <1>6, <1>7, Zenon DEF Store!Put, RoomMade

\* Taking a key out is what the store does.
LEMMA RemoveRefines ==
    ASSUME NEW m, IndexOK(m), NEW k \in Keys
    PROVE  AfterRemove(m, k).entries = Store!Without(m.entries, k)
           /\ AfterRemove(m, k).evictions = m.evictions
BY DEF AfterRemove, IndexOK, Resident, Restrict, Store!Without, Store!Restrict

\* The empty manager is the empty store.
LEMMA InitRefines == Init => Store!Init
BY DEF Init, EmptyIndex, Plain, Store!Init, Store!Plain

\* Every call of the manager is a call of the store that answers the same.
LEMMA NextRefines == Sound /\ [Next]_vars => [Store!Next]_(Store!vars)
<1> SUFFICES ASSUME Sound, [Next]_vars
             PROVE  Store!Next \/ UNCHANGED Store!vars
  OBVIOUS
<1>1. ASSUME NEW k \in Keys, Get(k)
      PROVE  Store!Get(k)
  <2>1. mgr'.entries = mgr.entries /\ mgr'.evictions = mgr.evictions
    BY <1>1 DEF Get, AfterGet, Sound, IndexOK
  <2>2. reply' = IF k \in DOMAIN mgr.entries
                 THEN Store!Hit(k, mgr.entries[k]) ELSE Store!Plain(k, "miss")
    BY <1>1 DEF Get, Hit, Plain, Store!Hit, Store!Plain, Lookup, Resident
  <2>3. QED
    BY <2>1, <2>2 DEF Store!Get
<1>2. ASSUME NEW k \in Keys, RemoveKey(k)
      PROVE  Store!RemoveKey(k)
  <2>1. mgr'.entries = Store!Without(mgr.entries, k) /\ mgr'.evictions = mgr.evictions
    BY <1>2, RemoveRefines DEF RemoveKey, Sound
  <2>2. QED
    BY <1>2, <2>1 DEF RemoveKey, Plain, Store!Plain, Store!RemoveKey, Resident
<1>3. ASSUME NEW k \in Keys, NEW e \in Entries, Put(k, e)
      PROVE  Store!Put(k, e) \/ Store!PutTooLarge(k, e)
  <2>1. CASE ~Oversize(e)
    BY <1>3, <2>1, PutRefines
  <2>2. CASE Oversize(e)
    <3>1. mgr'.entries = Store!Without(mgr.entries, k) /\ mgr'.evictions = mgr.evictions
      BY <1>3, <2>2, RemoveRefines DEF Put, AfterPut, Sound
    <3>2. ~Store!Refused(k, e)
      BY <1>3, Zenon DEF Put, Mismatched, Store!Refused
    <3>3. reply' = Store!Plain(k, "not stored")
      BY <1>3, <2>2 DEF Put, PutStored, Plain, Store!Plain
    <3>4. QED
      BY <2>2, <3>1, <3>2, <3>3 DEF Store!PutTooLarge, Oversize
  <2>3. QED
    BY <2>1, <2>2
<1>4. ASSUME NEW k \in Keys, NEW e \in Entries, PutMismatched(k, e)
      PROVE  Store!PutRefused(k, e)
  <2>1. Store!Refused(k, e)
    BY <1>4, Zenon DEF PutMismatched, Mismatched, Store!Refused
  <2>2. QED
    BY <1>4, <2>1 DEF PutMismatched, Plain, Store!PutRefused, Store!Plain
<1>5. CASE UNCHANGED vars
  BY <1>5 DEF vars, Store!vars
<1>6. QED
  BY <1>1, <1>2, <1>3, <1>4, <1>5, Zenon DEF Next, Store!Next

\* The manager implements the bounded store: whatever a runner concludes from
\* the store's specification holds of the manager, for any limits and policy.
THEOREM Implements == Spec => ImplementsBoundedStore
<1>1. Spec => Store!Spec
  BY InitRefines, NextRefines, SoundInvariant, PTL DEF Spec, Store!Spec
<1>2. QED
  BY <1>1 DEF ImplementsBoundedStore

============================================================================
